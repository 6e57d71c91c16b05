---------------------------- MODULE MCProcessor ----------------------------
(* Model-checking instance of Processor: two workers, the inodes of the   *)
(* root, a directory D under it and a file F in D, and journals that start *)
(* with the root's init entry exactly as log_reader_thr queues it.        *)
EXTENDS Processor, TLC

CONSTANTS Root, D, F, G, w1, w2

\* journal entries: op_type_t, the inode and its parent inode
E(op, id, pid) == [op |-> op, id |-> id, pid |-> pid]

RootInit == E("init", Root, Root)

\* the entries a consistent filesystem can log about Root, D and F
FsEvents == {E("mkdir", D, Root), E("rmdir", D, Root), E("setattr", D, Root),
             E("create", F, D), E("unlink", F, D), E("setattr", F, D)}

\* the life of an inode: "none" before its creation, "live", "gone" after
\* its removal (inode numbers are not reused within a journal)
Step(st, e) ==
    LET x == e.id IN
    CASE e.op \in CreateKinds -> [st EXCEPT ![x] = "live"]
      [] e.op \in DeleteKinds -> [st EXCEPT ![x] = "gone"]
      [] OTHER -> st

Legal(st, e) ==
    LET x == e.id IN
    CASE e.op \in CreateKinds -> st[x] = "none" /\ st[e.pid] = "live"
      [] e.op = "rmdir" -> st[x] = "live" /\ \A y \in Objs : y # x /\ st[y] = "live" => y # F
      [] OTHER -> st[x] = "live"

RECURSIVE LegalSeq(_, _)
LegalSeq(st, j) == j = <<>> \/ (Legal(st, Head(j)) /\ LegalSeq(Step(st, Head(j)), Tail(j)))

StartFs == [x \in Objs |-> IF x = Root THEN "live" ELSE "none"]

\* every consistent journal of n entries after the root's init entry
FsJournals(n) == {<<RootInit>> \o j : j \in {j \in SeqOf(FsEvents, n) : Len(j) = n /\ LegalSeq(StartFs, j)}}

MCJournals == FsJournals(3)
MCMaxOps == 4
MCWorkers == {w1, w2}
MCOneWorker == {w1}

\* worker threads run the same code: any permutation of them is a symmetry
\* of the invariants (not used with liveness properties)
WorkerSymmetry == Permutations(MCWorkers)

\* mkdir D while two files are created in it: the mkdir's completion wakes
\* both creates at once
FanoutJournals == {<<RootInit, E("mkdir", D, Root), E("create", F, D), E("create", G, D)>>}
FanoutMaxOps == 5

\* three attribute updates of an existing directory
TripleSetattr == {<<RootInit, E("setattr", D, Root), E("setattr", D, Root), E("setattr", D, Root)>>}

\* two attribute updates of a directory still being created
MkdirSetattrs == {<<RootInit, E("mkdir", D, Root), E("setattr", D, Root), E("setattr", D, Root)>>}

\* an attribute update of a directory still being created
MkdirSetattr == {<<RootInit, E("mkdir", D, Root), E("setattr", D, Root)>>}
MkdirSetattrMaxOps == 3

\* a directory emptied and removed while its creation is still outstanding
RmdirCancel == {<<RootInit, E("mkdir", D, Root), E("create", F, D), E("unlink", F, D),
                  E("rmdir", D, Root)>>}

\* a file created again under a reused inode number after its unlink
ReuseJournal == {<<RootInit, E("create", F, Root), E("unlink", F, Root), E("create", F, Root)>>}

\* the journals on which two ops on one inode can be processed at once
ExclusiveJournals == TripleSetattr \cup ReuseJournal

\* a rename, which the standard processor treats as an invalid op
RenameJournal == {<<RootInit, E("rename", F, Root)>>}
=============================================================================
