----------------------------- MODULE MCPackages -----------------------------
(***************************************************************************)
(* The solver on problems about what a package says of itself (a lock,     *)
(* excluded candidates, several versions allowed), with a provider that    *)
(* answers out of order and may cancel, and with soft requirements.        *)
(* Package b has three candidates, so its at-most-one encoding needs two   *)
(* helper variables.                                                       *)
(***************************************************************************)
EXTENDS Report

MCName == {"a", "b", "c"}
MCCandidates == [a |-> <<"a2", "a1">>, b |-> <<"b3", "b2", "b1">>, c |-> <<"c1">>]
MCSolvable == UNION {ToSet(MCCandidates[n]) : n \in MCName}

MCVsMatch == [a_any |-> {"a1", "a2"}, a_1 |-> {"a1"}, b_any |-> {"b1", "b2", "b3"},
              b_1 |-> {"b1"}, b_le2 |-> {"b1", "b2"}, b_ge2 |-> {"b2", "b3"},
              c_any |-> {"c1"}, c_0 |-> {}]
MCVersionSet == DOMAIN MCVsMatch
MCVsName == [v \in MCVersionSet |->
               CASE v \in {"a_any", "a_1"} -> "a" [] v \in {"c_any", "c_0"} -> "c"
                 [] OTHER -> "b"]
MCRequirement == MCVersionSet
MCReqVs == [r \in MCRequirement |-> <<r>>]
NoConditions == << >>

Deps(reqs, cons) ==
  [known |-> TRUE, requirements |-> [i \in DOMAIN reqs |-> Always(reqs[i])], constrains |-> cons]
Leaf == Deps(<< >>, << >>)

Plain(deps, hint) ==
  [deps |-> [x \in MCSolvable \cup {Root} |-> IF x \in DOMAIN deps THEN deps[x] ELSE Leaf],
   locked |-> [n \in MCName |-> None], excluded |-> [n \in MCName |-> << >>],
   multiple |-> {}, hint |-> hint, soft |-> << >>, async |-> FALSE, cancels |-> FALSE]

\* The root wants some a; only the versions of a want b.
PackageProblems ==
  {[Plain([root |-> root, a2 |-> a2, a1 |-> a1, b3 |-> b3, b2 |-> b2], hint)
      EXCEPT !.locked["b"] = locked, !.excluded["b"] = excluded, !.multiple = multiple] :
     root \in {Deps(<<"a_any">>, << >>), Deps(<<"a_any", "b_any">>, << >>)},
     a2 \in {Deps(<<"b_ge2", "b_le2">>, << >>), Deps(<<"b_1", "b_ge2">>, << >>)},
     a1 \in {Leaf, Deps(<<"b_any">>, <<"b_1">>)},
     b3 \in {Leaf, Deps(<<"a_1">>, << >>)},
     b2 \in {Leaf, Deps(<< >>, <<"a_1">>)},
     locked \in {None, "b1", "b3"}, excluded \in {<< >>, <<"b2">>, <<"b3", "b1">>},
     multiple \in {{}, {"b"}}, hint \in {{}, MCSolvable}}

\* The ones with the most requests in flight at once and a conflict to learn
\* from, with a provider that answers in any order and may cancel.
AsyncProblems ==
  {[p EXCEPT !.async = TRUE, !.cancels = TRUE] :
     p \in {q \in PackageProblems :
              /\ Len(q.deps[Root].requirements) = 1
              /\ q.deps["a1"] # Leaf
              /\ q.deps["b3"] # Leaf
              /\ q.deps["b2"] = Leaf
              /\ q.excluded["b"] = << >>
              /\ q.locked["b"] \in {None, "b1"}}}

\* Each soft requirement is a run of the loop on top of the trail that the runs
\* before it left behind.
SoftProblems ==
  {[Plain([root |-> root, a1 |-> a1, b2 |-> b2, b1 |-> b1, c1 |-> c1], hint)
      EXCEPT !.soft = wishes] :
     root \in {Leaf, Deps(<<"a_any">>, << >>), Deps(<<"b_1">>, << >>)},
     a1 \in {Leaf, Deps(<<"b_1">>, << >>)},
     b2 \in {Leaf, Deps(<<"c_any">>, << >>), Deps(<<"c_0">>, << >>),
             Deps(<< >>, <<"a_1">>), Deps(<<"a_1">>, << >>)},
     b1 \in {Leaf, Deps(<<"c_any">>, << >>)},
     c1 \in {Leaf, Deps(<<"b_1">>, << >>), Deps(<<"b_le2">>, << >>), Deps(<< >>, <<"a_1">>)},
     hint \in {{}, MCSolvable},
     wishes \in {<<"b2", "c1">>, <<"c1", "b2">>, <<"b2", "b1">>, <<"a1">>}}

MCProblems == PackageProblems \cup AsyncProblems \cup SoftProblems

(***************************************************************************)
(* One problem, in which the solver never has a choice.                    *)
(***************************************************************************)

\* b2 is wished for, then c1, which requires b1.
TwoVersionsProblem ==
  {[Plain([c1 |-> Deps(<<"b_1">>, << >>)], {}) EXCEPT !.soft = <<"b2", "c1">>]}

R == INSTANCE Resolve WITH kind <- result.kind, solution <- result.solution

\* Solver implements Resolve: every answer of solve is right.
Implements == R!Spec
=============================================================================
