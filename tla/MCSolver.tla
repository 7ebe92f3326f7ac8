------------------------------ MODULE MCSolver ------------------------------
(***************************************************************************)
(* The solver on four families of problems over five packages of two      *)
(* versions.  With thresholds of 2 every requirement that admits both      *)
(* versions is shared through a gate, and every constraint that excludes   *)
(* both through a violation variable; the others are encoded directly.     *)
(***************************************************************************)
EXTENDS Report

MCName == {"a", "b", "c", "d", "e"}
MCCandidates == [a |-> <<"a2", "a1">>, b |-> <<"b2", "b1">>, c |-> <<"c2", "c1">>,
                 d |-> <<"d2", "d1">>, e |-> <<"e2", "e1">>]
MCSolvable == UNION {ToSet(MCCandidates[n]) : n \in MCName}

MCVsMatch == [a_any |-> {"a1", "a2"}, a_1 |-> {"a1"},
              b_any |-> {"b1", "b2"}, b_1 |-> {"b1"}, b_2 |-> {"b2"}, b_0 |-> {},
              c_any |-> {"c1", "c2"}, c_1 |-> {"c1"}, c_2 |-> {"c2"}, c_0 |-> {},
              d_1 |-> {"d1"}, d_2 |-> {"d2"}, e_any |-> {"e1", "e2"}]
MCVersionSet == DOMAIN MCVsMatch
MCVsName == [v \in MCVersionSet |->
               CASE v \in {"a_any", "a_1"} -> "a"
                 [] v \in {"b_any", "b_1", "b_2", "b_0"} -> "b"
                 [] v \in {"c_any", "c_1", "c_2", "c_0"} -> "c"
                 [] v \in {"d_1", "d_2"} -> "d"
                 [] v = "e_any" -> "e"]
\* Every version set is a requirement, and so are two unions of version sets.
MCRequirement == MCVersionSet \cup {"b_1|c_1", "a_1|d_1"}
MCReqVs == [r \in MCRequirement |-> CASE r = "b_1|c_1" -> <<"b_1", "c_1">>
                                      [] r = "a_1|d_1" -> <<"a_1", "d_1">>
                                      [] OTHER -> <<r>>]
NoConditions == << >>

Deps(reqs, cons) ==
  [known |-> TRUE, requirements |-> [i \in DOMAIN reqs |-> Always(reqs[i])], constrains |-> cons]
Leaf == Deps(<< >>, << >>)
Unknown == [Leaf EXCEPT !.known = FALSE]

Prob(deps, hint) ==
  [deps |-> [x \in MCSolvable \cup {Root} |-> IF x \in DOMAIN deps THEN deps[x] ELSE Leaf],
   locked |-> [n \in MCName |-> None], excluded |-> [n \in MCName |-> << >>],
   multiple |-> {}, hint |-> hint, soft |-> << >>, async |-> FALSE, cancels |-> FALSE]

\* Requirements and constraints between three packages, every kind of clause,
\* with the dependencies of the candidates known at once or only when chosen.
MixedProblems ==
  {Prob([root |-> root, a2 |-> a2, a1 |-> a1, b2 |-> b2, b1 |-> b1, c1 |-> c1], hint) :
     root \in {Deps(<<"a_any">>, <<"c_2">>), Deps(<<"b_any", "a_any">>, << >>)},
     a2 \in {Leaf, Unknown, Deps(<<"b_any">>, << >>), Deps(<<"b_2", "c_1">>, << >>),
             Deps(<< >>, <<"b_0">>)},
     a1 \in {Leaf, Deps(<<"b_any">>, <<"b_1">>), Deps(<<"b_1|c_1">>, << >>)},
     b2 \in {Leaf, Deps(<<"c_any">>, << >>), Deps(<<"a_1">>, << >>)},
     b1 \in {Deps(<<"c_1">>, << >>), Deps(<<"c_0">>, << >>)},
     c1 \in {Leaf, Deps(<< >>, <<"a_1">>), Deps(<< >>, <<"b_2">>)},
     hint \in {{}, MCSolvable}}

\* Conflicts that appear several decisions after their causes: b2 does not go
\* with a2, which only a chain through c and d shows, and e is decided freely.
DeepProblems ==
  {Prob([root |-> root, a2 |-> Deps(<< >>, <<"c_2">>), a1 |-> a1,
         b2 |-> Deps(<<"c_any", "d_2">>, << >>), b1 |-> b1,
         c2 |-> Deps(<<"d_1">>, << >>), c1 |-> c1], hint) :
     root \in {Deps(<<"e_any", "a_any", "b_any">>, << >>), Deps(<<"b_any", "a_any">>, << >>)},
     a1 \in {Leaf, Deps(<<"c_1">>, << >>)},
     b1 \in {Leaf, Deps(<<"c_any", "d_2">>, << >>)},
     c1 \in {Leaf, Deps(<< >>, <<"a_1">>)},
     hint \in {{}, MCSolvable \ {"e1", "e2"}}}

\* a2 is encoded after e was decided, so that its gate on b is assigned above
\* the level of a2 and lost when b2 turns out not to go with a2.
GateProblems ==
  {Prob([root |-> Deps(<<"a_any", "e_any">>, << >>), a2 |-> a2,
         b2 |-> Deps(<<"c_2", "d_2">>, << >>), b1 |-> b1,
         c2 |-> Deps(<<"a_1|d_1">>, << >>)], hint) :
     a2 \in {Deps(<<"b_any">>, << >>), Deps(<<"b_any", "c_any">>, << >>)},
     b1 \in {Leaf, Deps(<<"c_2", "d_2">>, << >>), Deps(<< >>, <<"c_2">>)},
     hint \in {{"b1", "b2", "c1", "c2"}, {"b2", "c2"}, {}}}

\* Solvables that require or rule out their own package, themselves included.
SelfProblems ==
  {Prob([root |-> Deps(<<"b_any", "a_any">>, << >>), a2 |-> a2, a1 |-> a1, b2 |-> b2], hint) :
     a2 \in {Deps(<<"a_any">>, << >>), Deps(<<"a_1">>, << >>), Deps(<<"b_1|c_1">>, <<"a_1">>)},
     a1 \in {Leaf, Deps(<<"a_1">>, <<"a_1">>)},
     b2 \in {Leaf, Deps(<<"b_any">>, <<"b_1">>), Deps(<<"a_1">>, <<"b_0">>)},
     hint \in {{}, MCSolvable}}

MCProblems == MixedProblems \cup DeepProblems \cup GateProblems \cup SelfProblems

\* e wants a1 or b1, which want each other and different versions of c.
CyclicProblem ==
  {Prob([root |-> Deps(<<"e_any">>, << >>), e2 |-> Deps(<<"a_1">>, << >>), e1 |-> Deps(<<"b_1">>, << >>),
         a1 |-> Deps(<<"b_1", "c_1">>, << >>), b1 |-> Deps(<<"a_1", "c_2">>, << >>)], {})}

R == INSTANCE Resolve WITH kind <- result.kind, solution <- result.solution

\* Solver implements Resolve: every answer of solve is right.
Implements == R!Spec
=============================================================================
