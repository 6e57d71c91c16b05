------------------------------- MODULE Xlist --------------------------------
(***************************************************************************)
(* The circular doubly linked lists of src/include/xlist.h, as sequences  *)
(* read from head->next onwards.  A node is on at most one list at a time *)
(* through a given link field, so a list never holds an element twice.   *)
(***************************************************************************)
EXTENDS Sequences

\* xlist_add: link the node right after the head
XlistAdd(l, x) == <<x>> \o l

\* xlist_add_tail: link the node right before the head, i.e. last
XlistAddTail(l, x) == Append(l, x)

\* xlist_del (and xlist_del_init): unlink the node from its neighbours
XlistDel(l, x) == SelectSeq(l, LAMBDA y : y # x)

\* xlist_empty: head->next is the head itself
XlistEmpty(l) == l = <<>>

\* xlist_get_tail: the last node, only asked of a non-empty list here
XlistGetTail(l) == l[Len(l)]

=============================================================================
