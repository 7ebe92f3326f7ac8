--------------------------- MODULE MCSharedVector ---------------------------
(***************************************************************************)
(* Three vectors that share up to three buffers.  One element is enough,   *)
(* vectors differ in length.                                               *)
(***************************************************************************)
EXTENDS SharedVector, TLC

Symmetric == Permutations(Handle) \cup Permutations(Buffer)
=============================================================================
