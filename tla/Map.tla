-------------------------------- MODULE Map --------------------------------
(***************************************************************************)
(* What the hash table of include/rbthash.h promises: a map from keys to   *)
(* data.  rbthash_insert adds a key that is absent and leaves a present    *)
(* key's data alone (rb_probe keeps the entry already in the tree);        *)
(* rbthash_remove drops a key; rbthash_get reads without changing it.      *)
(***************************************************************************)
CONSTANTS Keys, Values, NoValue

VARIABLE amap

MInit == amap = [k \in Keys |-> NoValue]

MInsert(k, v) == amap' = IF amap[k] = NoValue THEN [amap EXCEPT ![k] = v] ELSE amap

MRemove(k) == /\ amap[k] # NoValue
              /\ amap' = [amap EXCEPT ![k] = NoValue]

MNext == \E k \in Keys : MRemove(k) \/ \E v \in Values : MInsert(k, v)

MSpec == MInit /\ [][MNext]_amap

=============================================================================
