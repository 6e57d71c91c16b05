------------------------------ MODULE RbtHash ------------------------------
(***************************************************************************)
(* The hash table of src/common/rbthash.c: an array of buckets, each a     *)
(* red-black tree of entries under its own bucketlock.  Entries come from  *)
(* the table's entry pool (MemPool, owned by the table); an entry holds a  *)
(* copy of the key and the caller's data.  A tree is modelled by the set   *)
(* of its entries; rb_probe, rb_find and rb_delete by the key lookup they  *)
(* perform.                                                                *)
(*                                                                         *)
(* Several threads call the table without any lock of their own.  Each    *)
(* call is split where the code drops the bucket lock: rbthash_get reads   *)
(* entry->data after UNLOCK, and rbthash_remove frees the entry after it.  *)
(***************************************************************************)
EXTENDS Naturals, FiniteSets

CONSTANTS
    Threads,        \* callers of the table
    Keys, Values,   \* keys and data the callers use
    Buckets,        \* 0 .. numbuckets-1
    BucketOf,       \* keyhash % numbuckets for each key
    Chunks, HeapPtrs, MallocMayFail,   \* the entry pool (see MemPool)
    TableOwner,     \* this table as a client of its entry pool
    OtherTable,     \* another table sharing the pool (the other stage's obj_tbl)
    None            \* model value: no key / no data / no entry

ASSUME BucketOf \in [Keys -> Buckets]

VARIABLES
    list, inUse, hotCount, coldCount, heap, held,   \* the entry pool
    tree,           \* tree[b]: the entries in bucket b
    ekey,           \* entry->key of each entry
    edata,          \* entry->data of each entry
    pc,             \* per thread: "idle", "get_read" or "rm_put"
    ent,            \* per thread: the entry its get or remove found
    seen            \* per thread: key and data of that entry when it was found

poolVars == <<list, inUse, hotCount, coldCount, heap, held>>
vars == <<poolVars, tree, ekey, edata, pc, ent, seen>>

Pool == INSTANCE MemPool WITH Clients <- {TableOwner, OtherTable}
Entries == Pool!Ptrs

\* rb_find in bucket b: the entries whose key equals k
Found(b, k) == {e \in tree[b] : ekey[e] = k}

Init ==
    /\ Pool!Init
    /\ tree = [b \in Buckets |-> {}]
    /\ ekey = [e \in Entries |-> None]
    /\ edata = [e \in Entries |-> None]
    /\ pc = [t \in Threads |-> "idle"]
    /\ ent = [t \in Threads |-> None]
    /\ seen = [t \in Threads |-> <<None, None>>]

\* the entry the pool handed out in this step
NewEntry == CHOOSE e \in held'[TableOwner] \ held[TableOwner] : TRUE

\* mutant: no NULL check after mem_get; the key and data are written
\* through the NULL entry
InsertNoNullCheck(t, k, v) ==
    /\ pc[t] = "idle"
    /\ Pool!MemGetChunk(TableOwner) \/ Pool!MemGetHeap(TableOwner)
    /\ \/ /\ held'[TableOwner] = held[TableOwner]
          /\ ekey' = [e \in Entries \cup {None} |-> IF e = None THEN k ELSE ekey[e]]
          /\ edata' = [e \in Entries \cup {None} |-> IF e = None THEN v ELSE edata[e]]
          /\ UNCHANGED tree
       \/ /\ held'[TableOwner] # held[TableOwner]
          /\ ekey' = [ekey EXCEPT ![NewEntry] = k]
          /\ edata' = [edata EXCEPT ![NewEntry] = v]
          /\ tree' = IF Found(BucketOf[k], k) = {}
                     THEN [tree EXCEPT ![BucketOf[k]] = @ \cup {NewEntry}]
                     ELSE tree
    /\ UNCHANGED <<pc, ent, seen>>

\* mutant: the entry is linked without rb_probe's duplicate check
InsertNoProbe(t, k, v) ==
    /\ pc[t] = "idle"
    /\ Pool!MemGetChunk(TableOwner) \/ Pool!MemGetHeap(TableOwner)
    /\ \/ /\ held'[TableOwner] = held[TableOwner]
          /\ UNCHANGED <<tree, ekey, edata>>
       \/ /\ held'[TableOwner] # held[TableOwner]
          /\ ekey' = [ekey EXCEPT ![NewEntry] = k]
          /\ edata' = [edata EXCEPT ![NewEntry] = v]
          /\ tree' = [tree EXCEPT ![BucketOf[k]] = @ \cup {NewEntry}]
    /\ UNCHANGED <<pc, ent, seen>>

\* mutant: a duplicate key replaces the data of the linked entry
InsertOverwrite(t, k, v) ==
    /\ pc[t] = "idle"
    /\ Pool!MemGetChunk(TableOwner) \/ Pool!MemGetHeap(TableOwner)
    /\ \/ /\ held'[TableOwner] = held[TableOwner]
          /\ UNCHANGED <<tree, ekey, edata>>
       \/ /\ held'[TableOwner] # held[TableOwner]
          /\ ekey' = [ekey EXCEPT ![NewEntry] = k]
          /\ IF Found(BucketOf[k], k) = {}
             THEN /\ edata' = [edata EXCEPT ![NewEntry] = v]
                  /\ tree' = [tree EXCEPT ![BucketOf[k]] = @ \cup {NewEntry}]
             ELSE /\ edata' = [e \in Entries |->
                                 IF e \in Found(BucketOf[k], k) \/ e = NewEntry
                                 THEN v ELSE edata[e]]
                  /\ UNCHANGED tree
    /\ UNCHANGED <<pc, ent, seen>>

\* rbthash_insert: rbthash_init_entry (mem_get, copy key and data) then
\* rbthash_insert_entry (rb_probe under the bucket lock; an entry with an
\* equal key stays and the new one is neither linked nor freed).  A failed
\* XT_CALLOC of the key copy puts the entry back at once, which leaves the
\* same state as a NULL from mem_get.
Insert(t, k, v) ==
    /\ pc[t] = "idle"
    /\ Pool!MemGetChunk(TableOwner) \/ Pool!MemGetHeap(TableOwner)
    /\ \/ /\ held'[TableOwner] = held[TableOwner]        \* mem_get returned NULL
          /\ UNCHANGED <<tree, ekey, edata>>
       \/ /\ held'[TableOwner] # held[TableOwner]
          /\ ekey' = [ekey EXCEPT ![NewEntry] = k]
          /\ edata' = [edata EXCEPT ![NewEntry] = v]
          /\ tree' = IF Found(BucketOf[k], k) = {}
                     THEN [tree EXCEPT ![BucketOf[k]] = @ \cup {NewEntry}]
                     ELSE tree
    /\ UNCHANGED <<pc, ent, seen>>

\* rbthash_get, under the bucket lock: rb_find (a miss returns NULL and
\* changes nothing)
GetFind(t, k) ==
    /\ pc[t] = "idle"
    /\ \E e \in Found(BucketOf[k], k) :
          /\ pc' = [pc EXCEPT ![t] = "get_read"]
          /\ ent' = [ent EXCEPT ![t] = e]
          /\ seen' = [seen EXCEPT ![t] = <<ekey[e], edata[e]>>]
    /\ UNCHANGED <<poolVars, tree, ekey, edata>>

\* rbthash_get, after UNLOCK: return entry->data
GetRead(t) ==
    /\ pc[t] = "get_read"
    /\ pc' = [pc EXCEPT ![t] = "idle"]
    /\ ent' = [ent EXCEPT ![t] = None]
    /\ seen' = [seen EXCEPT ![t] = <<None, None>>]
    /\ UNCHANGED <<poolVars, tree, ekey, edata>>

\* rbthash_remove, under the bucket lock: rb_delete
RemoveDelete(t, k) ==
    /\ pc[t] = "idle"
    /\ \E e \in Found(BucketOf[k], k) :
          /\ tree' = [tree EXCEPT ![BucketOf[k]] = @ \ {e}]
          /\ pc' = [pc EXCEPT ![t] = "rm_put"]
          /\ ent' = [ent EXCEPT ![t] = e]
    /\ UNCHANGED <<poolVars, ekey, edata, seen>>

\* rbthash_remove, after UNLOCK: XT_FREE the key copy, mem_put the entry
RemovePut(t) ==
    LET e == ent[t] IN
    /\ pc[t] = "rm_put"
    /\ Pool!MemPutChunk(TableOwner, e) \/ Pool!MemPutHeap(TableOwner, e)
    /\ ekey' = [ekey EXCEPT ![e] = None]
    /\ pc' = [pc EXCEPT ![t] = "idle"]
    /\ ent' = [ent EXCEPT ![t] = None]
    /\ UNCHANGED <<tree, edata, seen>>

\* the other stage's table takes entries from and returns them to the
\* shared pool (pipeline_init gives every stage's obj_tbl pl->obj_tbl_pool)
SharedPoolUse ==
    /\ \/ Pool!MemGetChunk(OtherTable) \/ Pool!MemGetHeap(OtherTable)
       \/ \E p \in Entries : Pool!MemPutChunk(OtherTable, p) \/ Pool!MemPutHeap(OtherTable, p)
    /\ UNCHANGED <<tree, ekey, edata, pc, ent, seen>>

Next == SharedPoolUse \/ \E t \in Threads :
          \/ GetRead(t) \/ RemovePut(t)
          \/ \E k \in Keys : \/ GetFind(t, k) \/ RemoveDelete(t, k)
                             \/ \E v \in Values : Insert(t, k, v)

Spec == Init /\ [][Next]_vars

-----------------------------------------------------------------------------
(* Properties. *)

TypeOK ==
    /\ Pool!TypeOK
    /\ tree \in [Buckets -> SUBSET Entries]
    /\ ekey \in [Entries -> Keys \cup {None}]
    /\ edata \in [Entries -> Values \cup {None}]
    /\ pc \in [Threads -> {"idle", "get_read", "rm_put"}]
    /\ ent \in [Threads -> Entries \cup {None}]
    /\ seen \in [Threads -> (Keys \cup {None}) \X (Values \cup {None})]

(* rb_probe keeps a key in at most one entry of its bucket, and every      *)
(* linked entry sits in the bucket its key hashes to, so rb_find and       *)
(* rb_delete find the one entry of a key.                                  *)
UniqueKeys ==
    \A b \in Buckets : \A e, f \in tree[b] :
        /\ BucketOf[ekey[e]] = b
        /\ (ekey[e] = ekey[f] => e = f)

\* the map the trees represent: a key's data, or None when it is absent
AMap == [k \in Keys |-> IF Found(BucketOf[k], k) = {} THEN None
                        ELSE edata[CHOOSE e \in Found(BucketOf[k], k) : TRUE]]

AbstractMap == INSTANCE Map WITH amap <- AMap, NoValue <- None

(* rbthash_insert and rbthash_remove implement the map of include/         *)
(* rbthash.h: each step changes the represented map as an insert of an     *)
(* absent key or a removal does, and no other way.                         *)
Refinement == AbstractMap!MSpec

(* The entry pool stays consistent while two tables take and return its  *)
(* chunks: see MemPool!FreeListConsistent.                                 *)
PoolConsistent == Pool!FreeListConsistent

(* mem_get/mem_put on the shared pool implement the allocator interface:  *)
(* an entry one table holds is never handed to the other.                  *)
PoolRefinement == Pool!Refinement

=============================================================================
