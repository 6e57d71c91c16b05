------------------------------ MODULE MemPool ------------------------------
(***************************************************************************)
(* The slab pool of src/common/mem.c.  mem_pool_new carves `count` chunks *)
(* out of one block and threads them on a free list; mem_get takes the    *)
(* first chunk of the list, or falls back to MALLOC when no chunk is cold; *)
(* mem_put uses __is_member to tell a chunk (put back at the head of the  *)
(* list) from a heap object (FREE).  Every operation runs under the pool  *)
(* lock, so each is one atomic step; the callers are the threads that own *)
(* the objects they got.                                                   *)
(***************************************************************************)
EXTENDS Naturals, Sequences, FiniteSets, SequencesExt, Xlist

CONSTANTS
    Clients,        \* threads calling mem_get / mem_put
    Chunks,         \* the chunks of the pool's block (count of them)
    HeapPtrs,       \* addresses MALLOC may return
    MallocMayFail   \* whether MALLOC may return NULL

ASSUME Chunks # {} /\ Chunks \cap HeapPtrs = {}

Ptrs == Chunks \cup HeapPtrs

VARIABLES
    list,           \* mem_pool->list: the free chunks, head first
    inUse,          \* the in_use word in front of each chunk
    hotCount,       \* mem_pool->hot_count
    coldCount,      \* mem_pool->cold_count
    heap,           \* objects MALLOC returned and FREE has not released
    held            \* held[c]: the objects thread c got and has not put back

vars == <<list, inUse, hotCount, coldCount, heap, held>>

\* __is_member: 1 for a chunk of the block, 0 for an address outside it
IsMember(p) == IF p \in Chunks THEN 1 ELSE 0

\* mem_pool_new: every chunk on the list in address order, all cold
Init ==
    /\ list = SetToSeq(Chunks)
    /\ inUse = [p \in Chunks |-> FALSE]
    /\ hotCount = 0
    /\ coldCount = Cardinality(Chunks)
    /\ heap = {}
    /\ held = [c \in Clients |-> {}]

\* mutant: the chunk is not unlinked from the free list
MemGetChunkNoUnlink(c) ==
    /\ coldCount > 0
    /\ inUse' = [inUse EXCEPT ![Head(list)] = TRUE]
    /\ hotCount' = hotCount + 1
    /\ coldCount' = coldCount - 1
    /\ held' = [held EXCEPT ![c] = @ \cup {Head(list)}]
    /\ UNCHANGED <<list, heap>>

\* mem_get, cold chunk available: unlink the head, mark it in use
MemGetChunk(c) ==
    /\ coldCount > 0
    /\ list' = XlistDel(list, Head(list))
    /\ inUse' = [inUse EXCEPT ![Head(list)] = TRUE]
    /\ hotCount' = hotCount + 1
    /\ coldCount' = coldCount - 1
    /\ held' = [held EXCEPT ![c] = @ \cup {Head(list)}]
    /\ UNCHANGED heap

\* mutant: cold_count is decremented on the MALLOC path too
MemGetHeapCountAlways(c) ==
    /\ coldCount = 0
    /\ \E p \in HeapPtrs \ heap :
          /\ heap' = heap \cup {p}
          /\ held' = [held EXCEPT ![c] = @ \cup {p}]
    /\ coldCount' = coldCount - 1
    /\ UNCHANGED <<list, inUse, hotCount>>

\* mem_get, pool exhausted: MALLOC a new object, or NULL
MemGetHeap(c) ==
    /\ coldCount = 0
    /\ \/ \E p \in HeapPtrs \ heap :
             /\ heap' = heap \cup {p}
             /\ held' = [held EXCEPT ![c] = @ \cup {p}]
       \/ MallocMayFail /\ UNCHANGED <<heap, held>>
    /\ UNCHANGED <<list, inUse, hotCount, coldCount>>

\* mutant: hot_count is not decremented when a chunk comes back
MemPutChunkNoHot(c, p) ==
    /\ p \in held[c]
    /\ IsMember(p) = 1
    /\ inUse[p]
    /\ coldCount' = coldCount + 1
    /\ inUse' = [inUse EXCEPT ![p] = FALSE]
    /\ list' = XlistAdd(list, p)
    /\ held' = [held EXCEPT ![c] = @ \ {p}]
    /\ UNCHANGED <<heap, hotCount>>

\* mem_put of a chunk in use: clear in_use, push it on the head of the list
MemPutChunk(c, p) ==
    /\ p \in held[c]
    /\ IsMember(p) = 1
    /\ inUse[p]
    /\ hotCount' = hotCount - 1
    /\ coldCount' = coldCount + 1
    /\ inUse' = [inUse EXCEPT ![p] = FALSE]
    /\ list' = XlistAdd(list, p)
    /\ held' = [held EXCEPT ![c] = @ \ {p}]
    /\ UNCHANGED heap

\* mem_put of an object from the heap: FREE it
MemPutHeap(c, p) ==
    /\ p \in held[c]
    /\ IsMember(p) = 0
    /\ heap' = heap \ {p}
    /\ held' = [held EXCEPT ![c] = @ \ {p}]
    /\ UNCHANGED <<list, inUse, hotCount, coldCount>>

Next == \E c \in Clients :
            \/ MemGetChunk(c) \/ MemGetHeap(c)
            \/ \E p \in Ptrs : MemPutChunk(c, p) \/ MemPutHeap(c, p)

Spec == Init /\ [][Next]_vars

-----------------------------------------------------------------------------
(* Properties. *)

TypeOK ==
    /\ list \in Seq(Chunks)
    /\ inUse \in [Chunks -> BOOLEAN]
    /\ hotCount \in Nat /\ coldCount \in Nat
    /\ heap \subseteq HeapPtrs
    /\ held \in [Clients -> SUBSET Ptrs]

(* The counters mem_get tests and the free list it unlinks from agree:    *)
(* cold_count is the list's length, hot + cold is the chunk count, each    *)
(* chunk is on the list at most once, and exactly the chunks not in use    *)
(* are on it.                                                              *)
FreeListConsistent ==
    /\ coldCount = Len(list)
    /\ hotCount + coldCount = Cardinality(Chunks)
    /\ IsInjective(list)
    /\ \A p \in Chunks : inUse[p] <=> p \notin Range(list)

\* mem_get/mem_put implement the allocator interface of include/mem.h
Abstract == INSTANCE Allocator WITH owned <- held

(* The pool implements the allocator interface: every step of mem_get and *)
(* mem_put is a step of Allocator under the mapping owned <- held.         *)
Refinement == Abstract!ASpec

=============================================================================
