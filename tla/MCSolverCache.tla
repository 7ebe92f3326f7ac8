--------------------------- MODULE MCSolverCache ---------------------------
(* SolverCache with three futures on two packages and two calls of solve,   *)
(* of which the last one, or the first one, may be cancelled.               *)
EXTENDS SolverCache

LastSolve == {2}
FirstSolve == {1}
=============================================================================
