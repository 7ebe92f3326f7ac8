------------------------------ MODULE Resolve ------------------------------
(***************************************************************************)
(* What Solver::solve promises (src/src/solver/mod.rs, "# Returns"): one   *)
(* answer, which is a solution of the problem, or "unsolvable" when the    *)
(* root's requirements and constraints have no solution, or the provider's *)
(* cancellation.  With soft requirements the dependencies of all that was  *)
(* chosen are met, but the rules of a package (one version, its lock) only *)
(* bind solvables that a requirement brought in.                           *)
(***************************************************************************)
EXTENDS Provider

VARIABLES prob, kind, solution

Init == prob \in Problem /\ kind = "none" /\ solution = {}

Answer(k) == kind = "none" /\ kind' = k /\ UNCHANGED prob

Solution ==
  /\ Answer("solution")
  /\ solution' \subseteq Solvable
  /\ \A x \in solution' \cup {Root} : DependenciesMet(prob, x, solution')
  /\ prob.soft = << >> => PackageRulesMet(prob, solution')

NoSolution(k) == Answer(k) /\ solution' = {}

Unsolvable == NoSolution("unsolvable") /\ ~HasSolution(prob)

Cancelled == NoSolution("cancelled")

Next == Solution \/ Unsolvable \/ Cancelled

Spec == Init /\ [][Next]_<<prob, kind, solution>>
============================================================================
