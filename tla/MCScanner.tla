------------------------------ MODULE MCScanner -----------------------------
(* A root holding a directory A and a file f, with a file g in A; one      *)
(* entry may be removed while the scanner runs.                            *)
EXTENDS Scanner, TLC

CONSTANTS A, f, g, Dot, DotDot

MCNodes == {Root, A, f, g}
MCParent == (A :> Root) @@ (f :> Root) @@ (g :> A)
=============================================================================
