----------------------------- MODULE MCRbtHash -----------------------------
(* RbtHash as the processor builds it (rbthash_table_init with one bucket  *)
(* and an entry pool shared with another table), called by two threads on *)
(* two keys.                                                               *)
EXTENDS RbtHash

CONSTANTS t1, t2, k1, k2, v1, v2, e1, e2, h1

MCThreads == {t1, t2}
MCKeys == {k1, k2}
MCValues == {v1, v2}
MCBuckets == {0}
MCBucketOf == [k \in MCKeys |-> 0]
MCChunks == {e1, e2}
MCHeapPtrs == {h1}
=============================================================================
