---------------------------- MODULE SolverState ----------------------------
(***************************************************************************)
(* The state the encoder and the CDCL loop share (struct SolverState in    *)
(* src/src/solver/mod.rs), as one record, with the operations on it that   *)
(* both use: adding a clause with its watches, assigning a literal.        *)
(*                                                                         *)
(* A variable is identified by its origin (VariableOrigin in               *)
(* src/src/solver/variable_map.rs); interning is a bijection between       *)
(* origins and ids.  A clause is its kind, its literals in the order       *)
(* try_fold_literals visits them, its watched literals (none for an        *)
(* assertion) with their places in the watch lists, the requirement and    *)
(* the literals of its condition if it is a requires clause and, when      *)
(* learnt, the clauses it was derived from.                                *)
(***************************************************************************)
EXTENDS Provider

Var(origin, id, i) == [origin |-> origin, id |-> id, i |-> i]
RootVar         == Var("Root", Root, 0)
SolvableVar(s)  == Var("Solvable", s, 0)
ForbidVar(n, i) == Var("ForbidMultiple", n, i)
ViolationVar(vs) == Var("ConstrainsViolation", vs, 0)
GateVar(req)    == Var("RequiresGate", req, 0)
AtLeastOneVar(n) == Var("AtLeastOne", n, 0)

\* intern_solvable_or_root
VarOf(x) == IF x = Root THEN RootVar ELSE SolvableVar(x)

Variable ==
  {RootVar} \cup {SolvableVar(s) : s \in Solvable}
    \cup (UNION {{ForbidVar(n, i) : i \in 0 .. Len(Candidates[n]) - 2} : n \in Name})
    \cup {ViolationVar(vs) : vs \in VersionSet}
    \cup {GateVar(r) : r \in Requirement}
    \cup {AtLeastOneVar(n) : n \in Name}

INSTANCE DecisionTracker WITH Variable <- Variable, Reason <- Nat

Pos(v) == [variable |-> v, negate |-> FALSE]
Neg(v) == [variable |-> v, negate |-> TRUE]
Literal == [variable : Variable, negate : BOOLEAN]

INSTANCE WatchMap

LitTrue(map, l)  == IF l.negate THEN IsFalse(map, l.variable)
                                ELSE IsTrue(map, l.variable)
LitFalse(map, l) == IF l.negate THEN IsTrue(map, l.variable)
                                ELSE IsFalse(map, l.variable)

\* The decision that makes the literal true, because of clause c.
Satisfy(l, c) == [variable |-> l.variable, value |-> ~l.negate, derived_from |-> c]
\* The literal that a decision turns false: the one whose watchers it wakes.
Falsified(d) == [variable |-> d.variable, negate |-> d.value]

InstallRootClause == 1    \* ClauseId::install_root()

----------------------------------------------------------------------------
(* The record.  tasks, conflicting_clauses, pending_forbid_clauses and      *)
(* new_at_least_one_packages are the Encoder's own: of the one that runs, or *)
(* of the last one.                                                         *)

Clause(kind, lits, watched, next_watches) ==
  [kind |-> kind, lits |-> lits, watched |-> watched, next_watches |-> next_watches,
   requirement |-> None, condition |-> << >>, why |-> << >>]

\* SolverState::default() plus the install-root clause that solve adds first.
InitialState ==
  [decision_tracker |-> Clear,
   clauses |-> <<Clause("InstallRoot", << >>, << >>, << >>)>>,
   watches |-> EmptyHeads,
   negative_assertions |-> << >>,          \* <<variable, clause>>
   learnt_clause_ids |-> << >>,
   clauses_added_for_solvable |-> {},
   clauses_added_for_package |-> {},
   allow_multiple_names |-> {},
   at_most_one_trackers |-> [n \in Name |-> [variables |-> << >>, helpers |-> 0]],
   constrains_aux_vars |-> {},             \* version sets with a variable
   gates |-> << >>,                        \* requirements with a gate, in order
   gate_requirers |-> [r \in Requirement |-> << >>],   \* <<variable, clause>>
   at_least_one_tracker |-> {},            \* names with a variable and its clauses
   deferred_requirements |-> << >>,        \* [condition, entries], in map order
   cached |-> {},                          \* names whose candidates the cache has
   tasks |-> << >>,
   conflicting_clauses |-> << >>,
   pending_forbid_clauses |-> << >>,       \* <<name, variables>>, in order
   new_at_least_one_packages |-> << >>,    \* names, in order
   panicked |-> FALSE]

Map(s) == s.decision_tracker.map
Trail(s) == s.decision_tracker.stack

\* add_clause: Clauses::alloc, then WatchMap::start_watching.
NewClause(s) == Len(s.clauses) + 1       \* the id that alloc hands out next
AddClause(s, kind, lits, watched) ==
  [s EXCEPT !.clauses = Append(@, Clause(kind, lits, watched,
                                         NextWatches(s.watches, NewClause(s), watched))),
            !.watches = WatchHeads(@, NewClause(s), watched)]

\* try_add_decision(..).expect(..)
Assign(s, d, level) ==
  IF TryAddResult(s.decision_tracker, d) = "conflict"
  THEN [s EXCEPT !.panicked = TRUE]
  ELSE [s EXCEPT !.decision_tracker = TryAddDecision(s.decision_tracker, d, level)]

\* Mutant of UndoTo: nothing is undone.
UndoesNothing(s, level) == s

UndoTo(s, level) ==
  IF UndoUntilPanics(s.decision_tracker, level)
  THEN [s EXCEPT !.panicked = TRUE]
  ELSE [s EXCEPT !.decision_tracker = UndoUntil(s.decision_tracker, level)]

----------------------------------------------------------------------------
(* Deferred conditional requirements: entries [who, requirement, condition, *)
(* disjunct] under the condition they wait for, one per disjunct.           *)

\* A conjunct holds when a candidate it matches is_positively_decided.
HoldsNow(s, disjunct) ==
  LET met == {vs \in VersionSet : \E c \in VsMatch[vs] : IsTrue(Map(s), SolvableVar(c))}
  IN DisjunctHolds(disjunct, met)

\* The places of a condition among the keys: one or none.
KeyOf(s, condition) ==
  {i \in DOMAIN s.deferred_requirements : s.deferred_requirements[i].condition = condition}

PushDeferred(s, entry) ==
  LET fresh == [condition |-> entry.condition, entries |-> <<entry>>]
  IN IF KeyOf(s, entry.condition) = {}
     THEN [s EXCEPT !.deferred_requirements = Append(@, fresh)]
     ELSE LET at == CHOOSE i \in KeyOf(s, entry.condition) : TRUE
          IN [s EXCEPT !.deferred_requirements[at].entries = Append(@, entry)]

Fired(s, entries) == Keep(entries, {e \in ToSet(entries) : HoldsNow(s, e.disjunct)})
FiredDeferredConditions(s) ==
  LET keys == s.deferred_requirements
      fired == Keep(keys, {d \in ToSet(keys) : Fired(s, d.entries) # << >>})
  IN [i \in DOMAIN fired |-> fired[i].condition]

\* IndexMap::swap_remove: the last entry takes the place of the removed one.
SwapRemove(q, at) == Front([q EXCEPT ![at] = Last(q)])

\* Mutant of DrainFiredDeferred: the key goes although entries still wait.
DrainsWholeKey(s, condition) ==
  LET at == CHOOSE i \in KeyOf(s, condition) : TRUE
  IN [s EXCEPT !.deferred_requirements = SwapRemove(@, at)]

\* The state without the entries that drain_fired_deferred returns.
DrainFiredDeferred(s, condition) ==
  LET at == CHOOSE i \in KeyOf(s, condition) : TRUE
      entries == s.deferred_requirements[at].entries
      kept == Keep(entries, {e \in ToSet(entries) : ~HoldsNow(s, e.disjunct)})
  IN IF kept = << >>
     THEN [s EXCEPT !.deferred_requirements = SwapRemove(@, at)]
     ELSE [s EXCEPT !.deferred_requirements[at].entries = kept]

\* All that is drained, condition by condition.
DrainedEntries(s) ==
  FlattenSeq([i \in DOMAIN s.deferred_requirements |->
                Fired(s, s.deferred_requirements[i].entries)])
DrainAll(s) == FoldLeft(DrainFiredDeferred, s, FiredDeferredConditions(s))
============================================================================
