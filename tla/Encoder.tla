------------------------------ MODULE Encoder ------------------------------
(***************************************************************************)
(* The encoder (src/src/solver/encoding.rs): it asks the provider for      *)
(* dependencies and candidates and turns the answers into clauses, and     *)
(* assigns what the clauses imply under the decisions already made.        *)
(*                                                                         *)
(* Every operator maps the solver state before a call to the state after   *)
(* it.  A task is a request whose answer is handled by one on_* handler;   *)
(* Handle(p, s, task, level) is that handler as a whole.                   *)
(***************************************************************************)
EXTENDS SolverState

CONSTANTS ConstrainsAuxThreshold,   \* CONSTRAINS_AUX_ENCODING_THRESHOLD
          RequiresAuxThreshold      \* REQUIRES_AUX_ENCODING_THRESHOLD

ASSUME ThresholdAssumption ==
  ConstrainsAuxThreshold \in Nat \ {0} /\ RequiresAuxThreshold \in Nat \ {0}

\* fired: the disjuncts a conditional requirement is encoded for.
Task(kind, who, what) == [kind |-> kind, who |-> who, what |-> what, fired |-> << >>]
Enqueue(s, task) == [s EXCEPT !.tasks = Append(s.tasks, task)]
Report(s, clause) ==
  [s EXCEPT !.conflicting_clauses = Append(s.conflicting_clauses, clause)]

----------------------------------------------------------------------------
(* Requests                                                                 *)

QueueSolvable(s, x) ==
  IF x \in s.clauses_added_for_solvable THEN s
  ELSE Enqueue([s EXCEPT !.clauses_added_for_solvable = @ \cup {x}],
               Task("Dependencies", x, None))

QueuePackage(s, n) ==
  IF n \in s.clauses_added_for_package THEN s
  ELSE Enqueue([s EXCEPT !.clauses_added_for_package = @ \cup {n}],
               Task("Candidates", None, n))

QueueAll(s, xs) == FoldLeft(QueueSolvable, s, xs)

\* The packages of a requirement, and its candidates for the disjuncts of its
\* condition that hold.
VersionSetNames(req) == [i \in DOMAIN ReqVs[req] |-> VsName[ReqVs[req][i]]]
QueueFired(s, x, req, fired) ==
  Enqueue(FoldLeft(QueuePackage, s, VersionSetNames(req)),
          [Task("Requirement", x, req) EXCEPT !.fired = fired])

QueueDeferredRequirement(s, entry) ==
  QueueFired(s, entry.who, entry.requirement, <<entry.disjunct>>)

----------------------------------------------------------------------------
(* on_dependencies_available                                                *)

AddExclusionClause(s, x) ==
  LET v == VarOf(x)
      added == AddClause(s, "Excluded", <<Neg(v)>>, << >>)
      asserted == [added EXCEPT !.negative_assertions = Append(@, <<v, NewClause(s)>>)]
  IN IF IsTrue(Map(s), v) THEN Report(asserted, NewClause(s)) ELSE asserted

\* queue_conditional_requirement
RequirementTask(x, r) ==
  IF r.condition = NoCondition THEN Task("Requirement", x, r.requirement)
  ELSE Task("ConditionData", x, r)

OnDependencies(p, s, x) ==
  LET deps == p.deps[x]
      direct == Keep(deps.requirements,
                     {r \in ToSet(deps.requirements) : r.condition = NoCondition})
      names == FlattenSeq([i \in DOMAIN direct |-> VersionSetNames(direct[i].requirement)])
               \o [i \in DOMAIN deps.constrains |-> VsName[deps.constrains[i]]]
      requests ==
        [i \in DOMAIN deps.requirements |-> RequirementTask(x, deps.requirements[i])]
        \o [i \in DOMAIN deps.constrains |->
              Task("Constraint", x, deps.constrains[i])]
  IN IF ~deps.known THEN AddExclusionClause(s, x)
     ELSE LET queued == FoldLeft(QueuePackage, s, names)
          IN [queued EXCEPT !.tasks = @ \o requests]

----------------------------------------------------------------------------
(* on_condition_data_available                                              *)

\* Mutant of OnConditionData: the disjuncts that do not hold yet are dropped.
DropsUnmet(s, x, r) ==
  LET disjuncts == ConvertConditionsToDnf(r.condition)
      fired == Keep(disjuncts, {d \in ToSet(disjuncts) : HoldsNow(s, d)})
  IN IF fired = << >> THEN s ELSE QueueFired(s, x, r.requirement, fired)

OnConditionData(s, x, r) ==
  LET disjuncts == ConvertConditionsToDnf(r.condition)
      fired == Keep(disjuncts, {d \in ToSet(disjuncts) : HoldsNow(s, d)})
      Defer(t, d) ==
        IF HoldsNow(s, d) THEN t
        ELSE PushDeferred(t, [who |-> x, requirement |-> r.requirement,
                              condition |-> r.condition, disjunct |-> d])
      deferred == FoldLeft(Defer, s, disjuncts)
  IN IF fired = << >> THEN deferred ELSE QueueFired(deferred, x, r.requirement, fired)

----------------------------------------------------------------------------
(* on_candidates_available                                                  *)

\* Mutant of AddLockedClauses: the first candidate is taken for the locked one.
LocksAllButFirst(s, locked, cands) ==
  LET Lock(t, other) ==
        IF other = cands[1] THEN t
        ELSE AddClause(t, "Lock", <<Neg(SolvableVar(other)), Neg(RootVar)>>,
                       <<Neg(RootVar), Neg(SolvableVar(other))>>)
  IN FoldLeft(Lock, s, cands)

AddLockedClauses(s, locked, cands) ==
  LET Lock(t, other) ==
        IF other = locked THEN t
        ELSE AddClause(t, "Lock", <<Neg(SolvableVar(other)), Neg(RootVar)>>,
                       <<Neg(RootVar), Neg(SolvableVar(other))>>)
  IN FoldLeft(Lock, s, cands)

OnCandidates(p, s, n) ==
  LET noted == IF n \in p.multiple
               THEN [s EXCEPT !.allow_multiple_names = @ \cup {n}] ELSE s
      locked == IF p.locked[n] = None THEN noted
                ELSE AddLockedClauses(noted, p.locked[n], Candidates[n])
  IN FoldLeft(AddExclusionClause, locked, p.excluded[n])

----------------------------------------------------------------------------
(* on_requirement_candidates_available                                      *)

\* register_forbid_target for candidate c of a requirement.
RegisterForbidTarget(s, c) ==
  LET n == NameOf(c)
      v == SolvableVar(c)
      pending == s.pending_forbid_clauses
  IN IF \/ n \in s.allow_multiple_names
        \/ \E i \in DOMAIN pending : v \in ToSet(pending[i][2])
     THEN s
     ELSE IF \E i \in DOMAIN pending : pending[i][1] = n
     THEN LET at == CHOOSE i \in DOMAIN pending : pending[i][1] = n
          IN [s EXCEPT !.pending_forbid_clauses[at][2] = Append(@, v)]
     ELSE [s EXCEPT !.pending_forbid_clauses = Append(@, <<n, <<v>> >>)]

CandidateLits(req) ==
  LET cands == RequirementCandidates(req)
  IN [i \in DOMAIN cands |-> Pos(SolvableVar(cands[i]))]

NotFalse(s, lits) == Keep(lits, {l \in ToSet(lits) : ~LitFalse(Map(s), l)})

\* The literals that stand for "the disjunct does not hold": the candidates its
\* version sets do not match, or that no candidate at all is selected.
Complement(vs) ==
  IF NonMatching(vs) = << >> THEN <<Neg(AtLeastOneVar(VsName[vs]))>>
  ELSE [i \in DOMAIN NonMatching(vs) |-> Pos(SolvableVar(NonMatching(vs)[i]))]
ConditionLits(disjunct) ==
  FlattenSeq([i \in DOMAIN disjunct |-> Complement(disjunct[i])])

\* What the literals of a disjunct need: at most one of the candidates, or an
\* at-least-one variable.
RegisterCondition(s, disjunct) ==
  LET Register(t, vs) ==
        IF NonMatching(vs) # << >> THEN FoldLeft(RegisterForbidTarget, t, NonMatching(vs))
        ELSE IF VsName[vs] \in t.at_least_one_tracker \cup ToSet(t.new_at_least_one_packages)
        THEN t
        ELSE [t EXCEPT !.new_at_least_one_packages = Append(@, VsName[vs])]
  IN FoldLeft(Register, s, disjunct)

\* WatchedLiterals::requires: watch the parent and the first other literal that
\* is not false; when all are false, the first one, and the clause conflicts
\* unless the parent is false.
AddRequiresClause(s, parent, condition, req) ==
  LET others == condition \o CandidateLits(req)
      second == (NotFalse(s, others) \o others)[1]
      added == AddClause(s, "Requires", <<Neg(parent)>> \o others,
                         IF others = << >> THEN << >> ELSE <<Neg(parent), second>>)
  IN [added EXCEPT !.clauses[NewClause(s)].requirement = req,
                   !.clauses[NewClause(s)].condition = condition]

\* Mutant of RequiresConflicts: a requires clause born falsified goes unreported.
NeverConflicts(s, parent, condition, req) == FALSE

RequiresConflicts(s, parent, condition, req) ==
  LET others == condition \o CandidateLits(req)
  IN others # << >> /\ NotFalse(s, others) = << >> /\ ~IsFalse(Map(s), parent)

\* The disjunction on the gate of a requirement, once per requirement.
AddGate(s, req, level) ==
  LET gate == GateVar(req)
      added == AddRequiresClause([s EXCEPT !.gates = Append(@, req)], gate, << >>, req)
  IN IF RequiresConflicts(s, gate, << >>, req)
     THEN Assign(added, Satisfy(Neg(gate), NewClause(s)), level)
     ELSE added

\* The implication (gate \/ ~parent), once per requirer, honouring what is
\* already assigned.
AddImplication(s, parent, req, level) ==
  LET gate == GateVar(req)
      lits == <<Pos(gate), Neg(parent)>>
      tracked == [AddClause(s, "AnyOf", lits, lits)
                    EXCEPT !.gate_requirers[req] = Append(@, <<parent, NewClause(s)>>)]
      map == Map(s)
  IN IF IsTrue(map, parent) /\ IsFalse(map, gate) THEN Report(tracked, NewClause(s))
     ELSE IF IsTrue(map, parent) /\ IsUndecided(map, gate)
     THEN Assign(tracked, Satisfy(Pos(gate), NewClause(s)), level)
     ELSE IF IsUndecided(map, parent) /\ IsFalse(map, gate)
     THEN Assign(tracked, Satisfy(Neg(parent), NewClause(s)), level)
     ELSE tracked

AddSharedRequires(s, parent, req, level) ==
  AddImplication(IF req \in ToSet(s.gates) THEN s ELSE AddGate(s, req, level), parent, req, level)

AddDirectRequires(s, parent, condition, req) ==
  LET added == AddRequiresClause(s, parent, condition, req)
      id == NewClause(s)
  IN IF RequiresConflicts(s, parent, condition, req) THEN Report(added, id)
     ELSE IF CandidateLits(req) = << >> /\ condition = << >>
     THEN [added EXCEPT !.negative_assertions = Append(@, <<parent, id>>)]
     ELSE added

\* fired = << >>: an unconditional requirement, shared through a gate when it has
\* many candidates.  Otherwise a clause for every disjunct that fired.
OnRequirement(p, s, x, req, fired, level) ==
  LET cands == RequirementCandidates(req)
      Prefetch(t, c) == IF c \in p.hint THEN QueueSolvable(t, c) ELSE t
      fetched == FoldLeft(Prefetch, FoldLeft(RegisterForbidTarget, s, cands), cands)
      Conditional(t, d) == AddDirectRequires(t, VarOf(x), ConditionLits(d), req)
  IN IF fired # << >>
     THEN FoldLeft(Conditional, FoldLeft(RegisterCondition, fetched, fired), fired)
     ELSE IF x # Root /\ Len(cands) >= RequiresAuxThreshold
     THEN AddSharedRequires(fetched, VarOf(x), req, level)
     ELSE AddDirectRequires(fetched, VarOf(x), << >>, req)

----------------------------------------------------------------------------
(* on_constraint_candidates_available                                       *)

\* A binary clause (~parent \/ ~other), in conflict when other is true and
\* parent is not false.
AddBinaryConstraint(s, kind, parent, other) ==
  LET lits == <<Neg(parent), Neg(other)>>
      added == AddClause(s, kind, lits, lits)
  IN IF ~IsFalse(Map(s), parent) /\ IsTrue(Map(s), other)
     THEN Report(added, NewClause(s)) ELSE added

\* The clauses (~candidate \/ violation), once per version set.
AddViolation(s, vs, level) ==
  LET aux == ViolationVar(vs)
      Exclude(t, c) ==
        LET lits == <<Neg(SolvableVar(c)), Pos(aux)>>
            added == AddClause(t, "ConstrainsExcluded", lits, lits)
        IN IF IsTrue(Map(t), SolvableVar(c))
           THEN Assign(added, Satisfy(Pos(aux), NewClause(t)), level)
           ELSE added
  IN FoldLeft(Exclude, [s EXCEPT !.constrains_aux_vars = @ \cup {vs}], NonMatching(vs))

OnConstraint(s, x, vs, level) ==
  LET forbidden == NonMatching(vs)
      Pairwise(t, c) == AddBinaryConstraint(t, "Constrains", VarOf(x), SolvableVar(c))
      shared == IF vs \in s.constrains_aux_vars THEN s ELSE AddViolation(s, vs, level)
  IN IF Len(forbidden) < ConstrainsAuxThreshold
     THEN FoldLeft(Pairwise, s, forbidden)
     ELSE AddBinaryConstraint(shared, "ConstrainsParent", VarOf(x), ViolationVar(vs))

----------------------------------------------------------------------------
\* on_task_result
Handle(p, s, task, level) ==
  CASE task.kind = "Dependencies" -> OnDependencies(p, s, task.who)
    [] task.kind = "Candidates"   -> OnCandidates(p, s, task.what)
    [] task.kind = "ConditionData" -> OnConditionData(s, task.who, task.what)
    [] task.kind = "Requirement"  -> OnRequirement(p, s, task.who, task.what, task.fired, level)
    [] task.kind = "Constraint"   -> OnConstraint(s, task.who, task.what, level)

----------------------------------------------------------------------------
(* add_pending_forbid_clauses                                               *)

\* One (~a \/ b) clause of the at-most-one encoding of a package.
AddForbidClause(s, a, b, level) ==
  LET na == Neg(a)
      added == AddClause(s, "ForbidMultipleInstances", <<na, b>>, <<na, b>>)
      id == NewClause(s)
      map == Map(s)
      Open(l) == IsUndecided(map, l.variable)
  IN IF LitFalse(map, na) /\ LitFalse(map, b) THEN Report(added, id)
     ELSE IF LitFalse(map, na) /\ Open(b) THEN Assign(added, Satisfy(b, id), level)
     ELSE IF Open(na) /\ LitFalse(map, b) THEN Assign(added, Satisfy(na, id), level)
     ELSE added

\* Bit number `bit` of index as a literal of that bit's helper variable.
BitLiteral(n, index, bit) ==
  IF (index \div 2^bit) % 2 = 1 THEN Pos(ForbidVar(n, bit)) ELSE Neg(ForbidVar(n, bit))

\* AtMostOnceTracker::add: variable number i (from 0) of the package implies
\* the binary code of i on the helpers; a new helper is introduced, with
\* clauses for the earlier variables, when the codes run out.
AddToTracker(s, n, v, level) ==
  LET tracker == s.at_most_one_trackers[n]
      count == Len(tracker.variables)
      fresh == IF count > 2^tracker.helpers - 1 THEN 1 ELSE 0
      helpers == tracker.helpers + fresh
      older == IF fresh = 0 THEN << >>
               ELSE [i \in 1 .. count |->
                       <<tracker.variables[i], BitLiteral(n, i - 1, helpers - 1)>>]
      own == [bit \in 1 .. helpers |-> <<v, BitLiteral(n, count, bit - 1)>>]
      Add(t, pair) == AddForbidClause(t, pair[1], pair[2], level)
      Tracked(h) == [s EXCEPT !.at_most_one_trackers[n] =
                       [variables |-> Append(tracker.variables, v), helpers |-> h]]
  IN IF v \in ToSet(tracker.variables) THEN s
     ELSE IF count = 0 THEN Tracked(0)
     ELSE FoldLeft(Add, Tracked(helpers), older \o own)

\* (selected \/ ~v): the at-least-one variable of a package follows from v.
AddSelectedClause(s, n, v) ==
  LET lits == <<Pos(AtLeastOneVar(n)), Neg(v)>> IN AddClause(s, "AnyOf", lits, lits)

AddPendingForbidClauses(s, level) ==
  LET Package(t, entry) ==
        LET n == entry[1]
            Add(u, v) ==
              LET tracked == AddToTracker(u, n, v, level)
              IN IF n \in u.at_least_one_tracker
                    /\ v \notin ToSet(u.at_most_one_trackers[n].variables)
                 THEN AddSelectedClause(tracked, n, v) ELSE tracked
        IN FoldLeft(Add, t, entry[2])
  IN [FoldLeft(Package, s, s.pending_forbid_clauses)
        EXCEPT !.pending_forbid_clauses = << >>]

AddPendingAtLeastOneClauses(s, level) ==
  LET Package(t, n) ==
        LET Add(u, v) ==
              LET added == AddSelectedClause(u, n, v)
              IN IF IsTrue(Map(u), v)
                 THEN Assign(added, Satisfy(Pos(AtLeastOneVar(n)), NewClause(u)), level)
                 ELSE added
        IN [FoldLeft(Add, t, t.at_most_one_trackers[n].variables)
              EXCEPT !.at_least_one_tracker = @ \cup {n}]
  IN [FoldLeft(Package, s, s.new_at_least_one_packages)
        EXCEPT !.new_at_least_one_packages = << >>]
============================================================================
