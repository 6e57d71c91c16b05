----------------------------- MODULE Allocator -----------------------------
(***************************************************************************)
(* What an object pool promises its callers (include/mem.h): mem_get hands *)
(* a caller an object that no other caller holds, or fails; mem_put gives  *)
(* back an object the caller holds.  Nothing is said about where objects  *)
(* come from.                                                              *)
(***************************************************************************)
CONSTANTS Clients, Ptrs

VARIABLE owned          \* owned[c]: the objects caller c holds

InUse == UNION {owned[c] : c \in Clients}

AInit == owned = [c \in Clients |-> {}]

\* a fresh object, or failure (the caller sees NULL)
AGet(c) == \/ \E p \in Ptrs \ InUse : owned' = [owned EXCEPT ![c] = @ \cup {p}]
           \/ UNCHANGED owned

APut(c, p) == /\ p \in owned[c]
              /\ owned' = [owned EXCEPT ![c] = @ \ {p}]

ANext == \E c \in Clients : AGet(c) \/ \E p \in Ptrs : APut(c, p)

ASpec == AInit /\ [][ANext]_owned

=============================================================================
