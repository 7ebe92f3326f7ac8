---------------------------- MODULE MCConditions ----------------------------
(***************************************************************************)
(* The solver on problems with conditional requirements.  Some conditions  *)
(* name a version of a package, so that other candidates stand for their   *)
(* complement, and some any version, so that no candidate does.            *)
(*                                                                         *)
(* In the passing families nothing rules out the candidates that stand for *)
(* a complement, and nothing is decided between a candidate and the        *)
(* encoding of a condition it meets; the problems at the end show why.     *)
(***************************************************************************)
EXTENDS Report, Snapshot

MCName == {"a", "b", "c", "d", "e", "f"}
MCCandidates == [a |-> <<"a2", "a1">>, b |-> <<"b2", "b1">>, c |-> <<"c2", "c1">>,
                 d |-> <<"d2", "d1">>, e |-> <<"e2", "e1">>, f |-> <<"f2", "f1">>]
MCSolvable == UNION {ToSet(MCCandidates[n]) : n \in MCName}

MCVsMatch == [a_any |-> {"a1", "a2"}, a_1 |-> {"a1"}, b_any |-> {"b1", "b2"}, b_0 |-> {},
              c_any |-> {"c1", "c2"}, c_1 |-> {"c1"}, c_2 |-> {"c2"},
              d_any |-> {"d1", "d2"}, d_1 |-> {"d1"}, d_2 |-> {"d2"},
              e_any |-> {"e1", "e2"}, e_1 |-> {"e1"}, f_2 |-> {"f2"}]
MCVersionSet == DOMAIN MCVsMatch
MCVsName == [v \in MCVersionSet |->
               CASE v \in {"a_any", "a_1"} -> "a"
                 [] v \in {"b_any", "b_0"} -> "b"
                 [] v \in {"c_any", "c_1", "c_2"} -> "c"
                 [] v \in {"d_any", "d_1", "d_2"} -> "d"
                 [] v \in {"e_any", "e_1"} -> "e"
                 [] v = "f_2" -> "f"]
MCRequirement == MCVersionSet \cup {"a_1|d_1"}
MCReqVs == [r \in MCRequirement |-> IF r = "a_1|d_1" THEN <<"a_1", "d_1">> ELSE <<r>>]

\* In the order in which the provider has interned them.  The problems do not reach
\* all of them, and the names that some reach have a hole at "f".
MCNameIndex == [a |-> 0, b |-> 1, c |-> 2, d |-> 3, f |-> 4, e |-> 5]
MCVersionSetIndex ==
  LET interned == <<"f_2", "a_any", "b_any", "c_any", "b_0", "c_1", "d_any",
                    "c_2", "d_1", "a_1", "d_2", "e_any", "e_1">>
  IN [v \in MCVersionSet |-> (CHOOSE i \in DOMAIN interned : interned[i] = v) - 1]

\* The conditions by name, and the arena they are interned in.
c_2 == 1
c_any == 2
d_1 == 3
d_any == 4
c_2_and_d_1 == 5
c_2_or_d_any == 6
c_any_and_either == 7     \* c_any and (c_2 or d_any)
f_2 == 8
MCConditions == <<Atom("c_2"), Atom("c_any"), Atom("d_1"), Atom("d_any"),
                  Binary("And", c_2, d_1), Binary("Or", c_2, d_any),
                  Binary("And", c_any, c_2_or_d_any), Atom("f_2")>>

Deps(reqs, cons) == [known |-> TRUE, requirements |-> reqs, constrains |-> cons]
Requires(reqs) == Deps([i \in DOMAIN reqs |-> Always(reqs[i])], << >>)
Leaf == Requires(<< >>)

Plain(deps, hint) ==
  [deps |-> [x \in MCSolvable \cup {Root} |-> IF x \in DOMAIN deps THEN deps[x] ELSE Leaf],
   locked |-> [n \in MCName |-> None], excluded |-> [n \in MCName |-> << >>],
   multiple |-> {}, hint |-> hint, soft |-> << >>, async |-> FALSE, cancels |-> FALSE]

\* a2 wants b under a condition on c and d, met at once, later, after a conflict
\* or never; b2 may not go with what met it.
FiringProblems ==
  {Plain([root |-> root, a2 |-> Deps(<<If("b_any", condition)>>, << >>),
          b2 |-> b2, b1 |-> Requires(<<"c_1">>), c2 |-> c2, d2 |-> d2], hint) :
     root \in {Requires(<<"a_any", "c_any">>), Requires(<<"a_any", "c_any", "d_any">>)},
     condition \in {c_2, c_any, d_any, c_2_and_d_1, c_any_and_either},
     b2 \in {Leaf, Requires(<<"d_1">>), Deps(<< >>, <<"c_1">>)},
     c2 \in {Leaf, Deps(<<If("d_2", d_1)>>, << >>)},
     d2 \in {Leaf, Requires(<<"c_1">>)},
     hint \in {{}, MCSolvable}}

\* Several requirements wait at once, some of them for the same condition, and
\* what one brings in meets the condition of another.
WaitingProblems ==
  {Plain([root |-> Requires(<<"a_any">>),
          a2 |-> Deps(<<If("b_any", c_2_and_d_1), If("e_any", c_2_or_d_any), Always(req),
                        If("d_1", c_any)>>, << >>),
          b2 |-> b2, c2 |-> c2, c1 |-> Deps(<<If("e_1", c_2_or_d_any)>>, << >>),
          e2 |-> e2], hint) :
     req \in {"c_any", "d_any", "a_1|d_1"},
     b2 \in {Leaf, Requires(<<"c_1">>)},
     c2 \in {Leaf, Deps(<<If("e_1", c_2_or_d_any)>>, << >>)},
     e2 \in {Leaf, Deps(<<If("b_any", c_any_and_either)>>, << >>)},
     hint \in {{}, MCSolvable}}

\* c2 meets the first disjunct, but what that brings in needs c1; then d meets the
\* second one, if there can be a d at all.
ChangingProblems ==
  {Plain([root |-> root, a2 |-> Deps(<<If("b_any", c_2_or_d_any)>>, << >>), a1 |-> a1,
          b2 |-> b2, b1 |-> Requires(<<"c_1">>), c1 |-> Requires(<<"d_any">>), d2 |-> d, d1 |-> d],
         hint) :
     root \in {Requires(<<"a_any", "c_any">>), Requires(<<"c_any", "a_any">>)},
     a1 \in {Leaf, Requires(<<"b_0">>)},
     b2 \in {Requires(<<"c_1">>), Deps(<< >>, <<"c_1">>)},
     d \in {Leaf, Requires(<<"b_0">>)},
     hint \in {{}, MCSolvable}}

AsyncProblems ==
  {[p EXCEPT !.async = TRUE] : p \in {q \in WaitingProblems :
     q.deps["b2"] # Leaf /\ q.deps["c2"] # Leaf /\ q.deps["e2"] # Leaf /\ q.hint = {}}}

MCProblems == FiringProblems \cup WaitingProblems \cup ChangingProblems \cup AsyncProblems

(***************************************************************************)
(* One problem each.                                                       *)
(***************************************************************************)

\* a2 wants b when f2 is chosen.  The condition is encoded after e was decided;
\* what it implies is assigned above f2 and lost when b2 turns out not to work.
StrandedProblem ==
  {Plain([root |-> Requires(<<"a_any", "e_any", "f_2">>),
          a2 |-> Deps(<<If("b_any", f_2)>>, << >>),
          b2 |-> Requires(<<"c_2", "d_2">>), c2 |-> Requires(<<"a_1|d_1">>)],
         {"b2", "c2"})}

\* e1 cannot do with c2, but both are required; c1 is no candidate of any
\* requirement and only stands for the complement of c2.
UnrootedProblem ==
  {Plain([root |-> Requires(<<"e_1", "c_2">>), e1 |-> Deps(<<If("b_0", c_2)>>, << >>)], {})}

R == INSTANCE Resolve WITH kind <- result.kind, solution <- result.solution

\* Solver implements Resolve: every answer of solve is right.
Implements == R!Spec

\* Snapshots are taken of the problem before it is solved, and of the problem with
\* an excluded candidate whose dependencies are unknown, however the unions are
\* hashed.  What solvables are hinted at does not matter to them.
Snapshots ==
  IF pc # "run_sat" \/ starting_level # 0 \/ prob.hint # {} \/ prob.async THEN {}
  ELSE {<<p, hashed, FromProvider(p, hashed, start)>> : start \in Starts(prob), hashed \in HashOrders,
          p \in {prob, [prob EXCEPT !.excluded["d"] = <<"d1">>, !.deps["d1"].known = FALSE]}}

\* None of the expect("missing ...") of SnapshotProvider fires: the walk over a
\* provider has seen everything that an answer of its snapshot leads to
\* (DependencySnapshot::from_provider_async).
SnapshotIsClosed == \A s \in Snapshots : ClosedSnapshot(s[1], s[3])

\* A snapshot gives the answers it was taken of, up to the order of a union, which is
\* that of a hash set, and of the candidates of the packages that Mapping::iter leaves
\* out, also after requirements were added whose ids follow its own (SnapshotProvider,
\* add_package_requirement).
SnapshotReplays ==
  \A s \in Snapshots :
    LET sp == NewProvider(s[3]) IN AnswersAlike(s[1], s[2], sp) /\ AddedApart(sp)
=============================================================================
