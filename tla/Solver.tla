------------------------------- MODULE Solver -------------------------------
(***************************************************************************)
(* Solver::solve and the CDCL loop (src/src/solver/mod.rs): run_sat for    *)
(* the root, then for every soft requirement that is still undecided.      *)
(*                                                                         *)
(* pc names the place in the code:                                         *)
(*   run_sat      the entry of run_sat                                     *)
(*   loop         the head of its loop                                     *)
(*   encode       block_on(Encoder::encode..), one task answered per step  *)
(*   assertions, learned, next, visit                                      *)
(*                propagate_impl: decide_assertions, decide_learned, the   *)
(*                outer loop over decisions, the walk over watch lists     *)
(*   conflict     propagate returned Err(Conflict)                         *)
(*   analyze, pop Solver::analyze: a clause is visited, the trail popped   *)
(*   decide       resolve_dependencies: the next decision                  *)
(*   expand       run_sat after resolve_dependencies                       *)
(*   unsolvable   run_sat_process_unsolvable                               *)
(*   returned     run_sat returned Ok                                      *)
(*   done         solve returned                                           *)
(* Which eligible clause decides next is the choice of DecideQueue; here   *)
(* any eligible clause may.                                                *)
(***************************************************************************)
EXTENDS Encoder

CONSTANT Problems         \* the problems to be solved

ASSUME SolverAssumption == Problems \subseteq Problem

VARIABLES prob,            \* the problem and the provider's answers
          st,              \* SolverState and the running Encoder
          pc,              \* the place in the code
          level, starting_level, root_solvable,   \* locals of run_sat
          caller,          \* who called the encoder or propagate
          soft,            \* soft requirements taken so far
          pos,             \* position in a list of assertions
          cursor,          \* place in a watch list
          conflict,        \* the clause (and variable) of the last Err
          an,              \* locals of analyze
          result           \* what solve returned

vars == <<prob, st, pc, level, starting_level, root_solvable, caller, soft,
          pos, cursor, conflict, an, result>>
run == <<starting_level, root_solvable, soft>>

NoCursor == [literal |-> Pos(RootVar), previous |-> NoNode, current |-> NoNode]
NoConflict == [variable |-> RootVar, clause |-> 0]
NoAnalysis == [clause |-> 0, first |-> TRUE, variable |-> RootVar, value |-> FALSE,
               level |-> 0, seen |-> {}, causes |-> 0, learnt |-> << >>,
               back_track_to |-> 0, highest |-> 1, why |-> << >>, panicked |-> FALSE]
NoResult == [kind |-> "none", solution |-> {}, core |-> << >>]

Init == /\ prob \in Problems
        /\ st = InitialState
        /\ pc = "run_sat"
        /\ level = 0
        /\ starting_level = 0
        /\ root_solvable = Root
        /\ caller = "install"
        /\ soft = 0
        /\ pos = 1
        /\ cursor = NoCursor
        /\ conflict = NoConflict
        /\ an = NoAnalysis
        /\ result = NoResult

dt == st.decision_tracker
map == Map(st)

\* A panic ends the program.
Panicked == st.panicked \/ an.panicked
At(place) == pc = place /\ ~Panicked

----------------------------------------------------------------------------
(* run_sat                                                                  *)

RunSat ==
  /\ At("run_sat")
  /\ starting_level' = TopLevel(dt)
  /\ level' = TopLevel(dt)
  /\ pc' = "loop"
  /\ UNCHANGED <<prob, st, root_solvable, caller, soft, pos, cursor, conflict, an, result>>

\* A new Encoder, which has found no conflict yet.
NewEncoder(s) == [s EXCEPT !.conflicting_clauses = << >>]

\* The loop was reset: install the root or the soft requirement one level up
\* and encode it.
InstallRootSolvable ==
  /\ At("loop") /\ level = starting_level
  /\ level' = starting_level + 1
  /\ LET installed == Satisfy(Pos(VarOf(root_solvable)), InstallRootClause)
     IN st' = QueueSolvable(Assign(NewEncoder(st), installed, starting_level + 1), root_solvable)
  /\ caller' = "install"
  /\ pc' = "encode"
  /\ UNCHANGED <<prob, run, pos, cursor, conflict, an, result>>

StartPropagate ==
  /\ pc' = "assertions"
  /\ pos' = 1
  /\ cursor' = NoCursor

ContinueLoop ==
  /\ At("loop") /\ level # starting_level
  /\ StartPropagate
  /\ caller' = "run_sat"
  /\ UNCHANGED <<prob, st, level, run, conflict, an, result>>

\* The names whose candidates a task's answer needs.
Needs(task) ==
  LET NamesOf(version_sets) == {VsName[vs] : vs \in version_sets}
      Conjuncts(dnf) == UNION {ToSet(dnf[i]) : i \in DOMAIN dnf}
  IN CASE task.kind = "Candidates"    -> {task.what}
       [] task.kind = "Requirement"   -> NamesOf(ToSet(ReqVs[task.what]) \cup Conjuncts(task.fired))
       [] task.kind = "Constraint"    -> NamesOf({task.what})
       [] task.kind = "ConditionData" ->
            NamesOf(Conjuncts(ConvertConditionsToDnf(task.what.condition)))
       [] OTHER -> {}

\* A synchronous provider answers in request order.  An asynchronous one may
\* answer in any order, but a task that needs the candidates of a package is
\* woken after the Candidates task of that package that was queued before it.
Answerable(i) ==
  IF prob.async
  THEN \A j \in 1 .. i - 1 :
         st.tasks[j].kind = "Candidates" => st.tasks[j].what \notin Needs(st.tasks[i])
  ELSE i = 1

EncodeTask ==
  /\ At("encode")
  /\ \E i \in DOMAIN st.tasks :
       /\ Answerable(i)
       /\ st' = Handle(prob, [st EXCEPT !.tasks = RemoveAt(@, i),
                                        !.cached = @ \cup Needs(st.tasks[i])],
                       st.tasks[i], level)
  /\ UNCHANGED <<prob, pc, level, run, caller, pos, cursor, conflict, an, result>>

\* No task is left: add the forbid and at-least-one clauses and return the
\* conflicting clauses.
Encoded == AddPendingAtLeastOneClauses(AddPendingForbidClauses(st, level), level)

EncodeReturnsConflict ==
  /\ At("encode") /\ st.tasks = << >>
  /\ Encoded.conflicting_clauses # << >>
  /\ \/ /\ caller = "install"
        /\ st' = Encoded
        /\ conflict' = [variable |-> RootVar, clause |-> Encoded.conflicting_clauses[1]]
        /\ pc' = "unsolvable"
        /\ UNCHANGED level
     \/ /\ caller = "expand"
        /\ st' = UndoTo(Encoded, starting_level)
        /\ level' = starting_level
        /\ pc' = "loop"
        /\ UNCHANGED conflict
  /\ UNCHANGED <<prob, run, caller, pos, cursor, an, result>>

EncodeReturns ==
  /\ At("encode") /\ st.tasks = << >>
  /\ Encoded.conflicting_clauses = << >>
  /\ st' = Encoded
  /\ \/ /\ caller = "install"
        /\ StartPropagate
        /\ caller' = "run_sat"
     \/ /\ caller = "expand"
        /\ pc' = "loop"
        /\ UNCHANGED <<caller, pos, cursor>>
  /\ UNCHANGED <<prob, level, run, conflict, an, result>>

\* Solvables that are part of the partial solution and not yet encoded, in
\* trail order.
NewSolvables ==
  LET fresh == Keep(Trail(st), {d \in ToSet(Trail(st)) :
                 /\ d.value
                 /\ d.variable.origin = "Solvable"
                 /\ d.variable.id \notin st.clauses_added_for_solvable})
  IN [i \in DOMAIN fresh |-> fresh[i].variable.id]

\* force_stuck_gates: an undecided gate with an installed requirer.
IsStuck(req) ==
  /\ IsUndecided(map, GateVar(req))
  /\ \E i \in DOMAIN st.gate_requirers[req] : IsTrue(map, st.gate_requirers[req][i][1])

\* Mutant of StuckGates: stranded gates are not looked for.
NoStuckGates == << >>

StuckGates == Keep(st.gates, {req \in ToSet(st.gates) : IsStuck(req)})
ForceStuckGates ==
  LET Reason(req) ==
        LET requirers == st.gate_requirers[req]
        IN Keep(requirers, {r \in ToSet(requirers) : IsTrue(map, r[1])})[1][2]
      Force(s, req) == Assign(s, Satisfy(Pos(GateVar(req)), Reason(req)), level)
  IN FoldLeft(Force, st, StuckGates)

\* What has become part of the partial solution is encoded, with the deferred
\* requirements whose condition holds now.
Expand ==
  /\ At("expand")
  /\ LET fired == DrainedEntries(st)
     IN /\ st' = FoldLeft(QueueDeferredRequirement,
                          QueueAll(NewEncoder(DrainAll(ForceStuckGates)), NewSolvables), fired)
        /\ IF NewSolvables # << >> \/ fired # << >> THEN pc' = "encode" /\ caller' = "expand"
           ELSE IF StuckGates # << >> THEN pc' = "loop" /\ UNCHANGED caller
           ELSE pc' = "returned" /\ UNCHANGED caller
  /\ UNCHANGED <<prob, level, run, pos, cursor, conflict, an, result>>

----------------------------------------------------------------------------
(* propagate_impl                                                           *)

Fail(variable, clause) ==
  /\ conflict' = [variable |-> variable, clause |-> clause]
  /\ pc' = "conflict"

\* should_cancel_with_value is asked at the start of propagate and before every
\* request to the provider that the cache cannot answer.
AsksProvider(task) ==
  \/ task.kind = "Dependencies" /\ task.who # Root
  \/ ~(Needs(task) \subseteq st.cached)

Cancel ==
  /\ prob.cancels
  /\ \/ At("assertions") /\ pos = 1
     \/ At("encode") /\ \E i \in DOMAIN st.tasks : AsksProvider(st.tasks[i])
  /\ result' = [NoResult EXCEPT !.kind = "cancelled"]
  /\ pc' = "done"
  /\ UNCHANGED <<prob, st, level, run, caller, pos, cursor, conflict, an>>

\* One round of decide_assertions or decide_learned: assign what the unit
\* clause says, or fail.
AssertUnit(d) ==
  IF TryAddResult(dt, d) = "conflict"
  THEN Fail(d.variable, d.derived_from) /\ UNCHANGED <<st, pos>>
  ELSE /\ st' = [st EXCEPT !.decision_tracker = TryAddDecision(dt, d, level)]
       /\ pos' = pos + 1
       /\ UNCHANGED <<pc, conflict>>

DecideAssertions ==
  /\ At("assertions")
  /\ IF pos <= Len(st.negative_assertions)
     THEN LET a == st.negative_assertions[pos] IN AssertUnit(Satisfy(Neg(a[1]), a[2]))
     ELSE pc' = "learned" /\ pos' = 1 /\ UNCHANGED <<st, conflict>>
  /\ UNCHANGED <<prob, level, run, caller, cursor, an, result>>

DecideLearned ==
  /\ At("learned")
  /\ IF pos <= Len(st.learnt_clause_ids)
     THEN LET id == st.learnt_clause_ids[pos]
              lits == st.clauses[id].lits
          IN IF Len(lits) > 1
             THEN pos' = pos + 1 /\ UNCHANGED <<st, pc, conflict>>
             ELSE AssertUnit(Satisfy(lits[1], id))
     ELSE pc' = "next" /\ pos' = 1 /\ UNCHANGED <<st, conflict>>
  /\ UNCHANGED <<prob, level, run, caller, cursor, an, result>>

NextDecisionToPropagate ==
  /\ At("next")
  /\ IF HasUnpropagated(dt)
     THEN /\ cursor' = CursorOf(st.watches, st.clauses, Falsified(NextUnpropagated(dt)))
          /\ st' = [st EXCEPT !.decision_tracker = MarkPropagated(dt)]
          /\ pc' = "visit"
     ELSE pc' = "decide" /\ UNCHANGED <<st, cursor>>
  /\ UNCHANGED <<prob, level, run, caller, pos, conflict, an, result>>

\* The clause under the cursor, its other watched literal and the literal its
\* watch may move to (next_unwatched_literal; a binary clause has none).
Visited == cursor.current.clause
VisitedClause == st.clauses[Visited]
OtherWatch == VisitedClause.watched[3 - cursor.current.index]
Unwatched ==
  IF VisitedClause.kind \in {"Requires", "Learnt"}
  THEN Keep(VisitedClause.lits,
            {l \in ToSet(VisitedClause.lits) : l # OtherWatch /\ ~LitFalse(map, l)})
  ELSE << >>

\* WatchMapCursor::update
MoveWatch(l) ==
  [st EXCEPT !.watches = UpdatedHeads(st.watches, st.clauses, cursor, l),
             !.clauses = UpdatedClauses(st.watches, st.clauses, cursor, l)]

EndOfList == Visited = NoClause

\* Mutant of EndOfWatchers: propagation ends after one entry of the trail.
OneEntryPropagated ==
  /\ At("visit") /\ EndOfList
  /\ pc' = "decide"
  /\ cursor' = NoCursor
  /\ UNCHANGED <<prob, st, level, run, caller, pos, conflict, an, result>>

EndOfWatchers ==
  /\ At("visit") /\ EndOfList
  /\ pc' = "next"
  /\ cursor' = NoCursor
  /\ UNCHANGED <<prob, st, level, run, caller, pos, conflict, an, result>>

VisitClause ==
  /\ At("visit") /\ ~EndOfList
  /\ LET unit == Satisfy(OtherWatch, Visited)
         advance == cursor' = Advance(st.clauses, cursor)
     IN \/ /\ LitTrue(map, OtherWatch)
           /\ advance /\ UNCHANGED <<st, pc, conflict>>
        \/ /\ ~LitTrue(map, OtherWatch) /\ Unwatched # << >>
           /\ st' = MoveWatch(Unwatched[1])
           /\ cursor' = CursorAfterUpdate(st.clauses, cursor)
           /\ UNCHANGED <<pc, conflict>>
        \/ /\ IsUndecided(map, OtherWatch.variable) /\ Unwatched = << >>
           /\ st' = [st EXCEPT !.decision_tracker = TryAddDecision(dt, unit, level)]
           /\ advance /\ UNCHANGED <<pc, conflict>>
        \/ /\ LitFalse(map, OtherWatch) /\ Unwatched = << >>
           /\ Fail(OtherWatch.variable, Visited) /\ cursor' = NoCursor /\ UNCHANGED st
  /\ UNCHANGED <<prob, level, run, caller, pos, an, result>>

----------------------------------------------------------------------------
(* analyze_unsolvable                                                       *)

\* Conflict::add_clause, for several clauses.
AddToConflict(core, ids) ==
  FoldLeft(LAMBDA q, id : IF id \in ToSet(q) THEN q ELSE Append(q, id), core, ids)

\* Mutant of Causes: a learnt clause counts as no cause at all.
LearntHasNoCause ==
  [c \in DOMAIN st.clauses |-> IF st.clauses[c].kind = "Learnt" THEN << >> ELSE <<c>>]

\* analyze_unsolvable_clause: the clauses that are not learnt, reached from a
\* clause through learnt_why.
Causes ==
  LET cause[c \in DOMAIN st.clauses] ==
        LET why == st.clauses[c].why
        IN IF st.clauses[c].kind # "Learnt" THEN <<c>>
           ELSE FlattenSeq([i \in DOMAIN why |-> cause[why[i]]])
  IN cause

LitVars(c) == {st.clauses[c].lits[i].variable : i \in DOMAIN st.clauses[c].lits}

\* What the assertions of analyze_unsolvable rule out: an involved variable that
\* run_sat itself installed, or a reason with another true literal.
Unexplained(d) ==
  \/ d.derived_from = InstallRootClause
  \/ \E l \in ToSet(st.clauses[d.derived_from].lits) :
        LitTrue(map, l) /\ l.variable # d.variable

\* The clauses of the Conflict: those that explain, backwards along the trail,
\* every variable involved in the conflicting clause.
AnalyzeUnsolvable(clause) ==
  LET Explain(acc, d) ==
        IF d.variable = RootVar \/ d.variable \notin acc.involved THEN acc
        ELSE [involved |-> acc.involved \cup LitVars(d.derived_from),
              core |-> AddToConflict(acc.core, Causes[d.derived_from]),
              panics |-> acc.panics \/ Unexplained(d)]
  IN FoldLeft(Explain,
              [involved |-> LitVars(clause), core |-> AddToConflict(<< >>, Causes[clause]),
               panics |-> TopLevel(dt) # 1],
              Reverse(Trail(st)))

ReturnUnsolvable ==
  /\ LET analysis == AnalyzeUnsolvable(conflict.clause)
     IN /\ result' = [NoResult EXCEPT !.kind = "unsolvable", !.core = analysis.core]
        /\ st' = [st EXCEPT !.panicked = analysis.panics]
  /\ pc' = "done"

ProcessUnsolvable ==
  /\ At("unsolvable")
  /\ IF starting_level = 0
     THEN ReturnUnsolvable
     ELSE /\ st' = Assign(UndoTo(st, starting_level),
                          Satisfy(Neg(VarOf(root_solvable)), InstallRootClause),
                          starting_level + 1)
          /\ pc' = "returned"
          /\ UNCHANGED result
  /\ UNCHANGED <<prob, level, run, caller, pos, cursor, conflict, an>>

----------------------------------------------------------------------------
(* What becomes of a conflict                                               *)

\* Mutant of RunSatConflict: start over even when nothing was decided.
AlwaysStartOver ==
  /\ At("conflict") /\ caller = "run_sat"
  /\ st' = UndoTo(st, starting_level)
  /\ level' = starting_level
  /\ pc' = "loop"
  /\ UNCHANGED <<prob, run, caller, pos, cursor, conflict, an, result>>

\* propagate called from run_sat: the first level is unsolvable, any other
\* partial solution was invalidated by new clauses and is thrown away.
RunSatConflict ==
  /\ At("conflict") /\ caller = "run_sat"
  /\ IF level = starting_level + 1
     THEN pc' = "unsolvable" /\ UNCHANGED <<st, level>>
     ELSE /\ st' = UndoTo(st, starting_level)
          /\ level' = starting_level
          /\ pc' = "loop"
  /\ UNCHANGED <<prob, run, caller, pos, cursor, conflict, an, result>>

\* propagate called from propagate_and_learn.
LearnFromConflict ==
  /\ At("conflict") /\ caller = "learn"
  /\ IF level = 1
     THEN ReturnUnsolvable /\ UNCHANGED an
     ELSE /\ UNCHANGED st
          /\ an' = [NoAnalysis EXCEPT !.clause = conflict.clause, !.level = level,
                                      !.variable = conflict.variable]
          /\ pc' = "analyze"
          /\ UNCHANGED result
  /\ UNCHANGED <<prob, level, run, caller, pos, cursor, conflict>>

----------------------------------------------------------------------------
(* analyze                                                                  *)

\* Mutants of Ignores: a literal of the root level is left out; the variable
\* just resolved on is blamed again.
IgnoresRootLevel(a, v) ==
  (~a.first /\ v = a.variable) \/ v \in a.seen \/ LevelOf(map, v) = 1
IgnoresSeenOnly(a, v) == v \in a.seen \ {a.variable}

\* The variable whose value was propagated and the variables already seen.
Ignores(a, v) == (~a.first /\ v = a.variable) \/ v \in a.seen

\* One literal of the clause under analysis.
Blame(a, l) ==
  LET v == l.variable
      vl == LevelOf(map, v)
  IN IF Ignores(a, v) THEN a
     ELSE IF vl = a.level
     THEN [a EXCEPT !.seen = @ \cup {v}, !.causes = @ + 1]
     ELSE IF a.level <= 1 \/ IsUndecided(map, v) THEN [a EXCEPT !.panicked = TRUE]
     ELSE [a EXCEPT !.seen = @ \cup {v},
                    !.learnt = Append(@, [variable |-> v, negate |-> IsTrue(map, v)]),
                    !.highest = IF vl > a.back_track_to THEN Len(a.learnt) + 1 ELSE @,
                    !.back_track_to = IF vl > @ THEN vl ELSE @]

VisitCause ==
  /\ At("analyze")
  /\ LET blamed == FoldLeft(Blame, an, st.clauses[an.clause].lits)
     IN an' = [blamed EXCEPT !.why = Append(@, an.clause), !.first = FALSE,
                             !.panicked = @ \/ an.clause = InstallRootClause]
  /\ pc' = "pop"
  /\ UNCHANGED <<prob, st, level, run, caller, pos, cursor, conflict, result>>

LastEntry == Trail(st)[Len(Trail(st))]
Popped == [st EXCEPT !.decision_tracker = UndoLast(dt),
                     !.panicked = UndoLastPanics(dt)]

\* undo_last until a variable is popped that the analysis has seen.
PopTrail ==
  /\ At("pop")
  /\ st' = Popped
  /\ an' = [an EXCEPT !.variable = LastEntry.variable, !.value = LastEntry.value,
                      !.clause = LastEntry.derived_from,
                      !.level = TopLevel(Popped.decision_tracker),
                      !.causes = IF LastEntry.variable \in an.seen /\ @ > 0
                                 THEN @ - 1 ELSE @]
  /\ pc' = IF LastEntry.variable \notin an.seen THEN "pop"
           ELSE IF an.causes <= 1 THEN "learn" ELSE "analyze"
  /\ UNCHANGED <<prob, level, run, caller, pos, cursor, conflict, result>>

\* The learnt clause: the literal of the highest level first, the asserting
\* literal last; it is watched on these two.
AssertingLiteral == [variable |-> an.variable, negate |-> an.value]
LearntLiterals ==
  LET n == Len(an.learnt)
      swapped == [i \in 1 .. n |->
                    IF i = 1 THEN an.learnt[an.highest]
                    ELSE IF i = an.highest THEN an.learnt[1] ELSE an.learnt[i]]
  IN Append(swapped, AssertingLiteral)

\* Mutant of BacktrackLevel: one level too far.
BacktrackTooFar == IF an.back_track_to > 1 THEN an.back_track_to - 1 ELSE 1

BacktrackLevel == IF an.back_track_to > 1 THEN an.back_track_to ELSE 1

Learn ==
  /\ At("learn")
  /\ LET lits == LearntLiterals
         watched == IF Len(lits) = 1 THEN << >> ELSE <<lits[1], lits[Len(lits)]>>
         added == AddClause(st, "Learnt", lits, watched)
         noted == [added EXCEPT !.clauses[NewClause(st)].why = an.why,
                                !.learnt_clause_ids = Append(@, NewClause(st))]
     IN st' = Assign(UndoTo(noted, BacktrackLevel),
                     Satisfy(AssertingLiteral, NewClause(st)), BacktrackLevel)
  /\ level' = BacktrackLevel
  /\ StartPropagate
  /\ UNCHANGED <<prob, run, caller, conflict, an, result>>

----------------------------------------------------------------------------
(* resolve_dependencies and decide                                          *)

CandidatesOf(c) ==
  SubSeq(st.clauses[c].lits, Len(st.clauses[c].condition) + 2, Len(st.clauses[c].lits))

\* A requires clause whose parent is installed, whose condition holds and that no
\* candidate satisfies.
Eligible ==
  {c \in DOMAIN st.clauses :
     /\ st.clauses[c].kind = "Requires"
     /\ LitFalse(map, st.clauses[c].lits[1])
     /\ \A l \in ToSet(st.clauses[c].condition) : LitFalse(map, l)
     /\ \A l \in ToSet(CandidatesOf(c)) : ~LitTrue(map, l)}
OpenCandidates(c) ==
  Keep(CandidatesOf(c), {l \in ToSet(CandidatesOf(c)) : IsUndecided(map, l.variable)})

Decide ==
  /\ At("decide")
  /\ \E c \in Eligible :
       IF OpenCandidates(c) = << >>
       THEN st' = [st EXCEPT !.panicked = TRUE] /\ UNCHANGED <<level, caller, pc, pos, cursor>>
       ELSE /\ st' = Assign([st EXCEPT !.decision_tracker = TakeSyncFloor(dt)],
                            Satisfy(OpenCandidates(c)[1], c), level + 1)
            /\ level' = level + 1
            /\ caller' = "learn"
            /\ StartPropagate
  /\ UNCHANGED <<prob, run, conflict, an, result>>

NothingToDecide ==
  /\ At("decide") /\ Eligible = {}
  /\ st' = [st EXCEPT !.decision_tracker = TakeSyncFloor(dt)]
  /\ pc' = "expand"
  /\ UNCHANGED <<prob, level, run, caller, pos, cursor, conflict, an, result>>

----------------------------------------------------------------------------
(* solve                                                                    *)

\* Mutant of ChosenSolvables: the root is listed too.
ChosenWithRoot ==
  {d.variable.id : d \in {e \in ToSet(Trail(st)) : e.value /\ e.variable.origin \in {"Root", "Solvable"}}}

ChosenSolvables ==
  {d.variable.id : d \in {e \in ToSet(Trail(st)) : e.value /\ e.variable.origin = "Solvable"}}

NextSoftRequirement ==
  /\ At("returned") /\ soft < Len(prob.soft)
  /\ soft' = soft + 1
  /\ IF IsUndecided(map, SolvableVar(prob.soft[soft + 1]))
     THEN root_solvable' = prob.soft[soft + 1] /\ pc' = "run_sat"
     ELSE UNCHANGED <<root_solvable, pc>>
  /\ UNCHANGED <<prob, st, level, starting_level, caller, pos, cursor, conflict, an, result>>

ReturnSolution ==
  /\ At("returned") /\ soft = Len(prob.soft)
  /\ result' = [NoResult EXCEPT !.kind = "solution", !.solution = ChosenSolvables]
  /\ pc' = "done"
  /\ UNCHANGED <<prob, st, level, run, caller, pos, cursor, conflict, an>>

Next ==
  \/ RunSat \/ InstallRootSolvable \/ ContinueLoop
  \/ EncodeTask \/ EncodeReturnsConflict \/ EncodeReturns \/ Expand
  \/ Cancel \/ DecideAssertions \/ DecideLearned \/ NextDecisionToPropagate
  \/ EndOfWatchers \/ VisitClause
  \/ RunSatConflict \/ LearnFromConflict \/ ProcessUnsolvable
  \/ VisitCause \/ PopTrail \/ Learn
  \/ Decide \/ NothingToDecide
  \/ NextSoftRequirement \/ ReturnSolution

Spec == Init /\ [][Next]_vars

----------------------------------------------------------------------------
(* Properties                                                               *)

\* Every variable has its type: the trail is well-formed, and what solve returns
\* are solvables of the provider, never the root (chosen_solvables).
TypeOK ==
  /\ prob \in Problem
  /\ pc \in {"run_sat", "loop", "encode", "assertions", "learned", "next", "visit",
             "conflict", "analyze", "pop", "learn", "decide", "expand",
             "unsolvable", "returned", "done"}
  /\ st.decision_tracker \in Tracker
  /\ level \in Nat /\ starting_level \in Nat
  /\ root_solvable \in Solvable \cup {Root}
  /\ result.solution \subseteq Solvable

\* No expect, unwrap, unreachable or assert of the loop, of analyze, of
\* analyze_unsolvable or of the encoder ever fires, wherever the encoder
\* assigns variables between two propagations (mod.rs, encoding.rs).
NoPanic == ~Panicked

\* When propagation ends without a conflict no clause is falsified, whether it
\* was there before or was encoded after its literals had been assigned: the
\* partial solution the next decision extends satisfies every clause
\* (propagate_impl, and the conflicts the encoder reports itself).
FalsifiedClause(c) ==
  /\ c # InstallRootClause
  /\ \A l \in ToSet(st.clauses[c].lits) : LitFalse(map, l)
NoFalsifiedClause ==
  pc = "decide" => \A c \in DOMAIN st.clauses : ~FalsifiedClause(c)

\* An assignment of the clause's variables, as the set of the true ones.
HoldsIn(A, c) == \E l \in ToSet(st.clauses[c].lits) : (l.variable \in A) # l.negate

\* A learnt clause is a consequence of the clauses analyze visited for it:
\* every assignment that satisfies those satisfies it (analyze).
LearntClausesFollow ==
  (pc = "assertions" /\ caller = "learn" /\ pos = 1 /\ st.learnt_clause_ids # << >>) =>
    LET c == Last(st.learnt_clause_ids)
        why == ToSet(st.clauses[c].why)
    IN \A A \in SUBSET UNION {LitVars(w) : w \in why} :
         (\A w \in why : HoldsIn(A, w)) => HoldsIn(A, c)

\* The Conflict that solve returns really is one: no assignment with the root
\* installed satisfies all of its clauses (analyze_unsolvable).
ConflictIsACore ==
  result.kind = "unsolvable" =>
    LET core == ToSet(result.core) \ {InstallRootClause}
    IN \A A \in SUBSET ((UNION {LitVars(w) : w \in core}) \cup {RootVar}) :
         RootVar \in A => \E w \in core : ~HoldsIn(A, w)

\* Every assignment that did not open its level follows from its reason: the
\* reason clause holds its literal, and all other literals of it were false
\* before.  analyze and analyze_unsolvable read the trail this way, whoever
\* made the assignment: propagation, the encoder or force_stuck_gates.
OpensLevel(i) ==
  i = 1 \/ LevelOf(map, Trail(st)[i].variable) > LevelOf(map, Trail(st)[i - 1].variable)
ReasonsExplainTrail ==
  \A i \in DOMAIN Trail(st) : ~OpensLevel(i) =>
    LET d == Trail(st)[i]
        own == [variable |-> d.variable, negate |-> ~d.value]
        others == ToSet(st.clauses[d.derived_from].lits) \ {own}
        earlier == {Falsified(Trail(st)[j]) : j \in 1 .. i - 1}
    IN own \in ToSet(st.clauses[d.derived_from].lits) /\ others \subseteq earlier

\* Backtracking marks all that is left of the trail as propagated (undo_last
\* sets propagate_index), so what survives it must have been propagated: at a
\* conflict the entries not yet propagated are above the level the solver can
\* go back to.
BacktrackForgetsNothing ==
  pc = "conflict" =>
    LET survives == IF caller = "learn" THEN level - 1 ELSE starting_level
    IN \A i \in DOMAIN Trail(st) :
         LevelOf(map, Trail(st)[i].variable) <= survives => i <= dt.propagate_index

\* The disjunctive normal form says what the condition says, whichever version
\* sets are met (convert_conditions_to_dnf); looked at once, before the start.
DnfMeansCondition ==
  (pc = "run_sat" /\ starting_level = 0) =>
    LET atoms == {e.version_set : e \in {f \in ToSet(Conditions) : f.op = "Requirement"}}
    IN \A c \in ConditionId, met \in SUBSET atoms :
        LET dnf == ConvertConditionsToDnf(c)
        IN ConditionHolds(c, met) <=> \E i \in DOMAIN dnf : DisjunctHolds(dnf[i], met)

\* The places in which disjunct d of conditional requirement r of x is: asked
\* for, waiting under its condition, or encoded as a clause.
Asked(x, r, d) ==
  {i \in DOMAIN st.tasks :
     /\ st.tasks[i].who = x
     /\ \/ st.tasks[i].kind = "ConditionData" /\ st.tasks[i].what = r
        \/ /\ st.tasks[i].kind = "Requirement" /\ st.tasks[i].what = r.requirement
           /\ d \in ToSet(st.tasks[i].fired)}
Waiting(x, r, d) ==
  LET entry == [who |-> x, requirement |-> r.requirement, condition |-> r.condition,
                disjunct |-> d]
      keys == st.deferred_requirements
  IN UNION {{<<k, i>> : i \in {j \in DOMAIN keys[k].entries : keys[k].entries[j] = entry}} :
              k \in DOMAIN keys}
EncodedAs(x, r, d) ==
  {c \in DOMAIN st.clauses :
     /\ st.clauses[c].kind = "Requires"
     /\ st.clauses[c].condition = ConditionLits(d)
     /\ st.clauses[c].lits = <<Neg(VarOf(x))>> \o ConditionLits(d) \o CandidateLits(r.requirement)}

\* No disjunct of a condition is lost or encoded twice, however often the solver
\* starts over between the moment it is put off and the moment it holds: it is
\* in exactly one place (on_condition_data_available, drain_fired_deferred).
ConditionalEncodedOnce ==
  \A x \in st.clauses_added_for_solvable :
    \/ ~prob.deps[x].known
    \/ \E i \in DOMAIN st.tasks : st.tasks[i].kind = "Dependencies" /\ st.tasks[i].who = x
    \/ \A r \in ToSet(prob.deps[x].requirements) : r.condition # NoCondition =>
         \A d \in ToSet(ConvertConditionsToDnf(r.condition)) :
           Cardinality(Asked(x, r, d)) + Cardinality(Waiting(x, r, d))
             + Cardinality(EncodedAs(x, r, d)) = 1

\* "either we do not select A1 or we do not match the condition or we select one
\* of the matching Bs" (conditions.rs), of what is returned as a solution.
ConditionalRequirementsMet ==
  result.kind = "solution" =>
    LET met == {vs \in VersionSet : result.solution \cap VsMatch[vs] # {}} IN
      \A x \in result.solution \cup {Root} :
        \A r \in ToSet(prob.deps[x].requirements) :
          r.condition # NoCondition /\ ConditionHolds(r.condition, met)
            => Satisfies(result.solution, r.requirement)

\* Candidates::allow_multiple: by default only one version of each package can
\* be selected.
OneVersionPerPackage ==
  \A n \in Name \ prob.multiple :
    Cardinality(result.solution \cap ToSet(Candidates[n])) <= 1

\* The nodes met on a walk along the list of a literal, at most one more than
\* there are clauses.
Walk(heads, clauses, literal) ==
  LET Step(walk, c) ==
        LET node == Last(walk)
        IN IF node = NoNode THEN walk
           ELSE Append(walk, NodeIn(clauses, literal, clauses[node.clause].next_watches[node.index]))
  IN FoldLeft(Step, <<NodeIn(clauses, literal, heads[literal])>>, clauses)

\* Every list ends, and together they hold every clause once for each literal that
\* it watches, so that no watcher is lost and none is visited twice.
ListsAreExact(heads, clauses) ==
  LET lists == {<<l, Walk(heads, clauses, l)>> : l \in {m \in DOMAIN heads : heads[m] # NoClause}}
      Linked(l, walk) == {<<l, walk[i].clause>> : i \in 1 .. Len(walk) - 1}
  IN /\ \A x \in lists : Last(x[2]) = NoNode /\ IsInjective(x[2])
     /\ UNION {Linked(x[1], x[2]) : x \in lists}
          = UNION {{<<l, c>> : l \in ToSet(clauses[c].watched)} : c \in DOMAIN clauses}

\* Between two walks the watch lists are exact: the list of a literal links every
\* clause that watches it once, and no other clause, whatever watches were moved
\* and whichever clauses the encoder and analyze put in front (WatchMap,
\* WatchMapCursor).
WatchListsExact ==
  pc = "decide" => ListsAreExact(st.watches, st.clauses)

\* solve returns, whatever it learns, throws away and encodes on the way.
Termination == <>(pc = "done")
=============================================================================
