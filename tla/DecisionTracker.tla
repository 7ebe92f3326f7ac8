-------------------------- MODULE DecisionTracker --------------------------
(***************************************************************************)
(* The assignment log of the solver (src/src/solver/decision_tracker.rs,   *)
(* decision_map.rs, decision.rs) as operators on a tracker record          *)
(*                                                                         *)
(*   map              variable -> signed level, 0 when undecided, positive *)
(*                    when true, negative when false                       *)
(*   stack            the trail: every assignment in the order it was made *)
(*   propagate_index  how many entries unit propagation has taken          *)
(*   sync_floor       the least trail length since the last                *)
(*                    take_sync_floor                                      *)
(*                                                                         *)
(* The code's vectors grow on demand and read "undecided" beyond their     *)
(* end; a total function over Variable reads the same.                     *)
(***************************************************************************)
EXTENDS Integers, Sequences

CONSTANTS Variable,     \* the variables of the SAT problem
          Reason        \* the clause ids an assignment is derived from

Decision == [variable : Variable, value : BOOLEAN, derived_from : Reason]

Tracker == [map : [Variable -> Int], stack : Seq(Decision),
            propagate_index : Nat, sync_floor : Nat]

----------------------------------------------------------------------------
(* DecisionAndLevel and DecisionMap                                         *)

WithValueAndLevel(value, level) == IF value THEN level ELSE -level
IsTrue(map, v)    == map[v] > 0
IsFalse(map, v)   == map[v] < 0
IsUndecided(map, v) == map[v] = 0
LevelOf(map, v)   == IF map[v] < 0 THEN -map[v] ELSE map[v]

----------------------------------------------------------------------------
(* DecisionTracker                                                          *)

Clear == [map |-> [v \in Variable |-> 0], stack |-> << >>,
          propagate_index |-> 0, sync_floor |-> 0]

\* The level of the last trail entry, 0 for an empty trail.
TopLevel(t) == IF t.stack = << >> THEN 0
               ELSE LevelOf(t.map, t.stack[Len(t.stack)].variable)

\* What try_add_decision answers: Ok(true), Ok(false) or Err(()).
TryAddResult(t, d) ==
  IF IsUndecided(t.map, d.variable) THEN "added"
  ELSE IF IsTrue(t.map, d.variable) = d.value THEN "same"
  ELSE "conflict"

\* What try_add_decision leaves behind, whatever it answers.
TryAddDecision(t, d, level) ==
  IF TryAddResult(t, d) = "added"
  THEN [t EXCEPT !.map[d.variable] = WithValueAndLevel(d.value, level),
                 !.stack = Append(t.stack, d)]
  ELSE t

\* Mutants of CutTo: the popped variable stays decided; the floor stays put.
CutKeepsMap(t, k) ==
  [map |-> t.map, stack |-> SubSeq(t.stack, 1, k), propagate_index |-> k,
   sync_floor |-> IF t.sync_floor < k THEN t.sync_floor ELSE k]
CutKeepsFloor(t, k) ==
  [map |-> [v \in Variable |->
              IF \E i \in k+1 .. Len(t.stack) : t.stack[i].variable = v
              THEN 0 ELSE t.map[v]],
   stack |-> SubSeq(t.stack, 1, k), propagate_index |-> k,
   sync_floor |-> t.sync_floor]

\* The trail cut back to its first k entries (k < Len(t.stack)): the effect of
\* Len(t.stack) - k calls of undo_last.
CutTo(t, k) ==
  [map |-> [v \in Variable |->
              IF \E i \in k+1 .. Len(t.stack) : t.stack[i].variable = v
              THEN 0 ELSE t.map[v]],
   stack |-> SubSeq(t.stack, 1, k),
   propagate_index |-> k,
   sync_floor |-> IF t.sync_floor < k THEN t.sync_floor ELSE k]

\* undo_last unwraps the last entry after popping: it must leave one.
UndoLastPanics(t) == Len(t.stack) <= 1
UndoLast(t) == CutTo(t, Len(t.stack) - 1)

\* How much of the trail the loop of undo_until keeps: it pops while the last
\* entry is above `level`.
KeptLength(t, level) ==
  CHOOSE k \in 0 .. Len(t.stack) :
    /\ k = 0 \/ LevelOf(t.map, t.stack[k].variable) <= level
    /\ \A i \in k+1 .. Len(t.stack) :
          LevelOf(t.map, t.stack[i].variable) > level

UndoUntilPanics(t, level) ==
  level > 0 /\ t.stack # << >> /\ KeptLength(t, level) = 0

UndoUntil(t, level) ==
  IF level = 0 THEN Clear
  ELSE IF KeptLength(t, level) = Len(t.stack) THEN t
  ELSE CutTo(t, KeptLength(t, level))

HasUnpropagated(t) == t.propagate_index < Len(t.stack)
NextUnpropagated(t) == t.stack[t.propagate_index + 1]
MarkPropagated(t) == [t EXCEPT !.propagate_index = t.propagate_index + 1]

\* Mutant of TakeSyncFloor: the index of the last entry, not the length.
TakeLastIndex(t) == [t EXCEPT !.sync_floor = Len(t.stack) - 1]

\* take_sync_floor returns t.sync_floor and leaves this behind.
TakeSyncFloor(t) == [t EXCEPT !.sync_floor = Len(t.stack)]

----------------------------------------------------------------------------
\* The map and the trail of a tracker agree: the decided variables are the
\* trail's, each once, with the trail's value, and levels never decrease.
Consistent(t) ==
  /\ \A i \in 1 .. Len(t.stack) :
       /\ IsTrue(t.map, t.stack[i].variable) <=> t.stack[i].value
       /\ ~IsUndecided(t.map, t.stack[i].variable)
  /\ \A v \in Variable :
       ~IsUndecided(t.map, v)
         => \E i \in 1 .. Len(t.stack) : t.stack[i].variable = v
  /\ \A i, j \in 1 .. Len(t.stack) :
       i < j => /\ t.stack[i].variable # t.stack[j].variable
                /\ LevelOf(t.map, t.stack[i].variable)
                     <= LevelOf(t.map, t.stack[j].variable)
============================================================================
