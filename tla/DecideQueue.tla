---------------------------- MODULE DecideQueue ----------------------------
(***************************************************************************)
(* The incremental queue behind Solver::decide                             *)
(* (src/src/solver/decide_queue.rs), on top of its synchronisation with    *)
(* the trail (TrailSync).  The queue q is a record                         *)
(*                                                                         *)
(*   clauses     the registered requires clauses, in registration order    *)
(*   queue       the clauses that may be eligible; hot_queue its hot part  *)
(*   hot_names   the packages whose activity was ever bumped               *)
(*   states      the cached walk of each requirement                       *)
(*   registered  the requirements whose candidates have occurrence lists   *)
(*                                                                         *)
(* A clause is eligible when its parent is installed, its condition holds  *)
(* and no candidate is installed.  The occurrence lists are read off the   *)
(* clauses.  The solver's side is any sequence of pushes, pops, restarts,  *)
(* registrations and bumps; the queue never reads a level, so all entries  *)
(* are at level 1.                                                         *)
(***************************************************************************)
EXTENDS DecisionTracker, FiniteSets, SequencesExt

CONSTANTS RootVariable,   \* VariableId::root
          Name,           \* package names
          Requirement,    \* requirement ids
          Sorted,         \* Requirement -> its version sets in order, each with
                          \* the package's name and its sorted candidates
          Encodings,      \* sequences of requires clauses the encoder may add
          ActivityAdds,   \* values of the activity_add parameter
          MaxBumps,       \* bound on the literals of a learnt clause that bump
          MaxTrail        \* bound on the length of the trail

RequiresClause == [parent : Variable, requirement : Requirement,
                   condition : SUBSET [variable : Variable, negate : BOOLEAN]]

ASSUME DecideQueueAssumption ==
  /\ RootVariable \in Variable
  /\ \A r \in Requirement : Sorted[r] \in Seq([name : Name, candidates : Seq(Variable)])
  /\ Encodings \subseteq Seq(RequiresClause)
  /\ ActivityAdds \subseteq Int /\ MaxBumps \in Nat /\ MaxTrail \in Nat

VARIABLES t,               \* the decision tracker
          mirror,          \* the trail's variables at the previous sync
          q,               \* the rest of the decide queue
          encoding,        \* the requires clauses still to be encoded
          activity_add,    \* the parameter of the solver
          name_activity, max_activity,
          decision         \* what the last decide() answered

vars == <<t, mirror, q, encoding, activity_add, name_activity, max_activity, decision>>
activity == <<activity_add, name_activity, max_activity>>

\* The synchronisation with the trail, without its history variables.
Trail == INSTANCE TrailSync WITH MaxLevel <- 1, touched <- {}, synced <- << >>

Dirty == [kind |-> "Dirty"]
Undecided == [made |-> FALSE, clause |-> 0, candidate |-> RootVariable]
NothingEligible == [Undecided EXCEPT !.made = TRUE]

\* with_activity_params and set_standard_activity_params: the shortcuts that
\* only look at hot clauses are for positive bumps.
hot_only == activity_add > 0

Init ==
  /\ t = Clear
  /\ mirror = << >>
  /\ q = [clauses |-> << >>, queue |-> {}, hot_queue |-> {}, hot_names |-> {},
          states |-> [r \in Requirement |-> Dirty], registered |-> {}]
  /\ encoding \in Encodings
  /\ activity_add \in ActivityAdds
  /\ name_activity = [n \in Name |-> 0]
  /\ max_activity = 0
  /\ decision = Undecided

NamesOf(r) == {Sorted[r][i].name : i \in DOMAIN Sorted[r]}

\* The candidates of a requirement by position: the version set, then the place
\* in its sorted list.
Positions == [r \in Requirement |->
  UNION {{<<i, j>> : j \in DOMAIN Sorted[r][i].candidates} : i \in DOMAIN Sorted[r]}]
At(r, p) == Sorted[r][p[1]].candidates[p[2]]
CandidatesOf == [r \in Requirement |-> {At(r, p) : p \in Positions[r]}]

ConditionHolds(map, c) ==
  \A l \in c.condition : IF l.negate THEN IsTrue(map, l.variable) ELSE IsFalse(map, l.variable)

\* ClausePosition: by the first registration of the parent, then in the order of
\* the parent's own list.
ParentPosition(k, i) == CHOOSE j \in 1 .. i : /\ k.clauses[j].parent = k.clauses[i].parent
                                              /\ \A m \in 1 .. j - 1 :
                                                   k.clauses[m].parent # k.clauses[i].parent
Before(k, i, j) == \/ ParentPosition(k, i) < ParentPosition(k, j)
                   \/ ParentPosition(k, i) = ParentPosition(k, j) /\ i < j
\* The clauses of a set in that order: the n-th has n - 1 of them before it.
InOrder(k, ids) ==
  [n \in 1 .. Cardinality(ids) |->
     CHOOSE i \in ids : Cardinality({j \in ids : Before(k, j, i)}) = n - 1]

\* enqueue_clause for every id of a set.
Enqueue(k, map, ids) ==
  LET awake == {i \in ids : IsTrue(map, k.clauses[i].parent)}
  IN [k EXCEPT !.queue = @ \cup awake,
               !.hot_queue = @ \cup {i \in awake : k.clauses[i].hot}]

----------------------------------------------------------------------------
(* register_clause and mark_name_hot                                        *)

RegisterClause(k, map, c) ==
  LET hot == NamesOf(c.requirement) \cap k.hot_names # {}
      added == [k EXCEPT !.clauses =
                  Append(@, [parent |-> c.parent, requirement |-> c.requirement,
                             condition |-> c.condition, hot |-> hot])]
  IN Enqueue(added, map, {Len(added.clauses)})

\* Mutant of MarkNamesHot: a clause that is queued already is not promoted.
MarkHotUnpromoted(k, names) ==
  LET ids == {i \in DOMAIN k.clauses :
                NamesOf(k.clauses[i].requirement) \cap (names \ k.hot_names) # {}}
  IN [k EXCEPT !.hot_names = @ \cup names,
               !.clauses = [i \in DOMAIN k.clauses |->
                             [k.clauses[i] EXCEPT !.hot = @ \/ i \in ids]]]

\* mark_name_hot for every name of a set: a name that is hot already is skipped,
\* and what one name promotes does not depend on the others.
MarkNamesHot(k, names) ==
  LET ids == {i \in DOMAIN k.clauses :
                NamesOf(k.clauses[i].requirement) \cap (names \ k.hot_names) # {}}
  IN [k EXCEPT !.hot_names = @ \cup names,
               !.clauses = [i \in DOMAIN k.clauses |->
                             [k.clauses[i] EXCEPT !.hot = @ \/ i \in ids]],
               !.hot_queue = @ \cup (ids \cap k.queue)]

----------------------------------------------------------------------------
(* sync: route_touched for every routed variable.  What one of them wakes   *)
(* and dirties depends on the map and on the states before, so their order  *)
(* does not matter and they are routed at once.                             *)

\* Mutant of Touched: only the candidate that a frontier names is listed.
TouchedFirstOnly(k, V) ==
  {r \in k.registered : k.states[r].kind = "Frontier" => k.states[r].candidate \in V}

\* The requirements whose occurrence lists hold a variable of V, and those of
\* them whose satisfying candidate is not installed any more.
Touched(k, V) == {r \in k.registered : CandidatesOf[r] \cap V # {}}
Broken(k, map, V) ==
  {r \in Touched(k, V) : k.states[r].kind = "Satisfied" /\ ~IsTrue(map, k.states[r].by)}

\* Mutant of RouteTouched: a broken requirement is dirtied, its clauses sleep on.
RouteDirtiesOnly(k, map, V) ==
  LET stale == Broken(k, map, V) \cup {r \in Touched(k, V) : k.states[r].kind = "Frontier"}
      woken == {i \in DOMAIN k.clauses :
                  \/ k.clauses[i].parent \in V
                  \/ \E l \in k.clauses[i].condition : l.variable \in V}
  IN Enqueue([k EXCEPT !.states = [r \in Requirement |-> IF r \in stale THEN Dirty ELSE @[r]]],
             map, woken)

RouteTouched(k, map, V) ==
  LET broken == Broken(k, map, V)
      stale == broken \cup {r \in Touched(k, V) : k.states[r].kind = "Frontier"}
      woken == {i \in DOMAIN k.clauses :
                  \/ k.clauses[i].parent \in V
                  \/ k.clauses[i].requirement \in broken
                  \/ \E l \in k.clauses[i].condition : l.variable \in V}
  IN Enqueue([k EXCEPT !.states = [r \in Requirement |-> IF r \in stale THEN Dirty ELSE @[r]]],
             map, woken)

----------------------------------------------------------------------------
(* eval_requirement, inspect and next_decision                              *)

Installed(map, r) == {p \in Positions[r] : IsTrue(map, At(r, p))}
Open(map, r) == {p \in Positions[r] : IsUndecided(map, At(r, p))}
FirstOf(P) == CHOOSE p \in P : \A o \in P : p[1] < o[1] \/ (p[1] = o[1] /\ p[2] <= o[2])

\* The walk over the sorted candidates: the first installed one, or the first that
\* is undecided, with the number of undecided ones in the same version set.
Walk(map, r) ==
  LET first == FirstOf(Open(map, r))
  IN IF Installed(map, r) # {}
     THEN [kind |-> "Satisfied", by |-> At(r, FirstOf(Installed(map, r)))]
     ELSE [kind |-> "Frontier", candidate |-> At(r, first), name |-> Sorted[r][first[1]].name,
           count |-> Cardinality({o \in Open(map, r) : o[1] = first[1]})]

EvalRequirement(k, map, r) == IF k.states[r] = Dirty THEN Walk(map, r) ELSE k.states[r]

\* The clauses that inspect evaluates, and those it finds eligible.
Active(k, map, i) == /\ IsTrue(map, k.clauses[i].parent)
                     /\ ConditionHolds(map, k.clauses[i])
Inspect(k, map, i) == /\ Active(k, map, i)
                      /\ EvalRequirement(k, map, k.clauses[i].requirement).kind = "Frontier"
Frontier(k, map, i) == EvalRequirement(k, map, k.clauses[i].requirement)
Explicit(k, i) == k.clauses[i].parent = RootVariable

\* A later clause replaces the best one if it is strictly more active and has
\* strictly fewer candidates left; a root requirement is only replaced by one.
Replaces(k, map, i, best) ==
  /\ Explicit(k, best) => Explicit(k, i)
  /\ name_activity[Frontier(k, map, i).name] > name_activity[Frontier(k, map, best).name]
  /\ Frontier(k, map, i).count < Frontier(k, map, best).count

\* Mutant of Unbeatable: two candidates left count as unbeatable too.
UnbeatableTooEarly(k, map, i) ==
  \/ Frontier(k, map, i).count <= 2
  \/ hot_only /\ name_activity[Frontier(k, map, i).name] = max_activity

Unbeatable(k, map, i) ==
  \/ Frontier(k, map, i).count = 1
  \/ hot_only /\ name_activity[Frontier(k, map, i).name] = max_activity

\* The second half of next_decision: the (hot) clauses after the first eligible
\* one, until one is found that no other can replace.
Consider(k, map, first) ==
  LET Visit(acc, i) ==
        IF acc.stop \/ (Explicit(k, acc.best) /\ ~Explicit(k, i)) THEN acc
        ELSE LET best == IF Inspect(k, map, i) /\ Replaces(k, map, i, acc.best)
                         THEN i ELSE acc.best
             IN [best |-> best, stop |-> Unbeatable(k, map, best),
                 inspected |-> acc.inspected \cup {i}]
      later == {i \in IF hot_only THEN k.hot_queue ELSE k.queue : Before(k, first, i)}
  IN FoldLeft(Visit, [best |-> first, stop |-> Unbeatable(k, map, first), inspected |-> {}],
              InOrder(k, later))

\* What inspecting a set of clauses leaves behind: cached walks, registered
\* occurrences, and the ineligible ones dequeued.
AfterInspecting(k, map, ids) ==
  LET walked == {k.clauses[i].requirement : i \in {j \in ids : Active(k, map, j)}}
      out == {i \in ids : ~Inspect(k, map, i)}
  IN [k EXCEPT !.states = [r \in Requirement |->
                             IF r \in walked THEN EvalRequirement(k, map, r) ELSE @[r]],
               !.registered = @ \cup walked,
               !.queue = @ \ out, !.hot_queue = @ \ out]

NextDecision(k, map) ==
  LET eligible == {i \in k.queue : Inspect(k, map, i)}
      first == InOrder(k, eligible)[1]
      prefix == {i \in k.queue : i = first \/ Before(k, i, first)}
      considered == Consider(k, map, first)
  IN IF eligible = {}
     THEN [queue |-> AfterInspecting(k, map, k.queue), decision |-> NothingEligible]
     ELSE [queue |-> AfterInspecting(k, map, prefix \cup considered.inspected),
           decision |-> [made |-> TRUE, clause |-> considered.best,
                         candidate |-> Frontier(k, map, considered.best).candidate]]

----------------------------------------------------------------------------
(* The actions                                                              *)

\* try_add_decision; the root comes first (run_sat).  Unit propagation takes every
\* entry before the next decide, and the queue does not see when.
Push(d) ==
  /\ Len(t.stack) < MaxTrail
  /\ t.stack = << >> => d.variable = RootVariable /\ d.value
  /\ IsUndecided(t.map, d.variable)
  /\ t' = MarkPropagated(TryAddDecision(t, d, 1))
  /\ decision' = Undecided
  /\ UNCHANGED <<mirror, q, encoding, activity>>

Pop ==
  /\ ~UndoLastPanics(t)
  /\ t' = UndoLast(t)
  /\ decision' = Undecided
  /\ UNCHANGED <<mirror, q, encoding, activity>>

\* undo_until(0): run_sat starts over with an empty trail.
Restart ==
  /\ t.stack # << >>
  /\ t' = UndoUntil(t, 0)
  /\ decision' = Undecided
  /\ UNCHANGED <<mirror, q, encoding, activity>>

\* SolverState::add_requires_clause.
AddRequiresClause ==
  /\ encoding # << >>
  /\ q' = RegisterClause(q, t.map, Head(encoding))
  /\ encoding' = Tail(encoding)
  /\ decision' = Undecided
  /\ UNCHANGED <<t, mirror, activity>>

\* What analyze does with the packages of the learnt clause, decay included.
\* The product with activity_decay (0.95) is a halving that rounds down.
Bump(acc, n) ==
  LET score == acc.name_activity[n] + activity_add
  IN [name_activity |-> [acc.name_activity EXCEPT ![n] = score],
      max_activity |-> IF score > acc.max_activity THEN score ELSE acc.max_activity]
DecayActivityScores(x) == x \div 2

LearnClause(names) ==
  LET bumped == FoldLeft(Bump, [name_activity |-> name_activity,
                                max_activity |-> max_activity], names)
  IN /\ q' = MarkNamesHot(q, ToSet(names))
     /\ name_activity' = [n \in Name |-> DecayActivityScores(bumped.name_activity[n])]
     /\ max_activity' = DecayActivityScores(bumped.max_activity)
     /\ decision' = Undecided
     /\ UNCHANGED <<t, mirror, encoding, activity_add>>

\* Propagation has ended without a conflict: no clause is falsified.
Propagated ==
  \A i \in DOMAIN q.clauses : Active(q, t.map, i) =>
    \E v \in CandidatesOf[q.clauses[i].requirement] : ~IsFalse(t.map, v)

\* Solver::decide: take_sync_floor, sync, next_decision.
Decide ==
  /\ Propagated
  /\ LET routed == Trail!Routed(t.sync_floor)
         next == NextDecision(RouteTouched(q, t.map, routed), t.map)
     IN q' = next.queue /\ decision' = next.decision
  /\ mirror' = Trail!SyncedMirror(t.sync_floor)
  /\ t' = TakeSyncFloor(t)
  /\ UNCHANGED <<encoding, activity>>

Next ==
  \/ \E d \in Decision : Push(d)
  \/ Pop
  \/ Restart
  \/ AddRequiresClause
  \/ \E names \in BoundedSeq(Name, MaxBumps) : LearnClause(names)
  \/ Decide

Spec == Init /\ [][Next]_vars

----------------------------------------------------------------------------
(* Properties                                                               *)

\* Eligibility from first principles, without the caches.
EligibleClauses ==
  {i \in DOMAIN q.clauses :
     /\ Active(q, t.map, i)
     /\ \A v \in CandidatesOf[q.clauses[i].requirement] : ~IsTrue(t.map, v)}

\* No entry was pushed or popped since the queue last synced.
InSync == t.sync_floor = Len(t.stack) /\ Len(mirror) = Len(t.stack)

\* No clause sleeps through the change that makes it eligible: once the queue
\* has synced, every eligible clause is queued, whatever was dequeued before
\* and however its parent, its candidates and its condition changed since
\* (debug_assert_invariants, "eligible requires clause is not queued").
EligibleIsQueued == InSync => EligibleClauses \subseteq q.queue

\* The hot flags follow the hot names, and the hot queue holds the hot clauses
\* of the queue and nothing else, through registrations, promotions, wake-ups
\* and dequeues (debug_assert_invariants).
HotInLockstep ==
  /\ \A i \in DOMAIN q.clauses :
       q.clauses[i].hot = (NamesOf(q.clauses[i].requirement) \cap q.hot_names # {})
  /\ q.hot_queue = {i \in q.queue : q.clauses[i].hot}

\* A cached walk is what a fresh walk would find, as soon as the queue is in
\* sync: a satisfied requirement names an installed candidate, a frontier is the
\* first undecided candidate with the right count (eval_requirement).
CachesAreFresh ==
  InSync => \A r \in Requirement :
    LET cached == q.states[r]
    IN /\ cached.kind = "Satisfied" =>
            cached.by \in CandidatesOf[r] /\ IsTrue(t.map, cached.by)
       /\ cached.kind = "Frontier" => cached = Walk(t.map, r)

\* The shortcuts of next_decision (the hot queue, the early stops, the queue
\* itself) change nothing: it answers what a scan of all eligible clauses in
\* position order answers, and nothing only when nothing is eligible.
Scan ==
  LET fresh == [q EXCEPT !.states = [r \in Requirement |-> Dirty]]
      Better(best, i) == IF Replaces(fresh, t.map, i, best) THEN i ELSE best
      order == InOrder(q, EligibleClauses)
      best == FoldLeft(Better, order[1], Tail(order))
  IN IF order = << >> THEN NothingEligible
     ELSE [made |-> TRUE, clause |-> best,
           candidate |-> Frontier(fresh, t.map, best).candidate]
DecidesAsTheScan == decision.made => decision = Scan
============================================================================
