----------------------------- MODULE TrailSync -----------------------------
(***************************************************************************)
(* The protocol between the decision tracker and the decide queue: the     *)
(* solver pushes and pops trail entries, and DecideQueue::sync             *)
(* (src/src/solver/decide_queue.rs) compares its mirror of the trail with  *)
(* the current one, from the sync floor on, to find every variable whose   *)
(* assignment changed since the previous sync.                             *)
(*                                                                         *)
(* The solver's side is any sequence of tracker calls that respects what   *)
(* run_sat does: an entry is pushed at a level not below that of the last  *)
(* entry, and no backtrack but undo_until(0) empties the trail.            *)
(***************************************************************************)
EXTENDS DecisionTracker

CONSTANT MaxLevel       \* bound on the levels (u32 in the code)

ASSUME MaxLevelAssumption == MaxLevel \in Nat

VARIABLES t,            \* the decision tracker
          mirror,       \* the trail's variables at the previous sync
          touched,      \* the variables the last step routed (route_touched)
          synced        \* history: the trail at the previous sync

vars == <<t, mirror, touched, synced>>

\* The fields of the tracker, the mirror and the routed variables have their
\* types; lengths and indices are naturals (usize).
TypeOK == /\ t \in Tracker
          /\ mirror \in Seq(Variable)
          /\ touched \in SUBSET Variable
          /\ synced \in Seq(Decision)

Init == /\ t = Clear
        /\ mirror = << >>
        /\ touched = {}
        /\ synced = << >>

Assign(d, level) ==
  /\ level >= TopLevel(t)
  /\ t' = TryAddDecision(t, d, level)
  /\ touched' = {}
  /\ UNCHANGED <<mirror, synced>>

PopLast ==
  /\ ~UndoLastPanics(t)
  /\ t' = UndoLast(t)
  /\ touched' = {}
  /\ UNCHANGED <<mirror, synced>>

Backtrack(level) ==
  /\ ~UndoUntilPanics(t, level)
  /\ t' = UndoUntil(t, level)
  /\ touched' = {}
  /\ UNCHANGED <<mirror, synced>>

Propagate ==
  /\ HasUnpropagated(t)
  /\ t' = MarkPropagated(t)
  /\ touched' = {}
  /\ UNCHANGED <<mirror, synced>>

\* Mutant of Routed: only what was pushed is routed, not what was popped.
RoutesPushedOnly(floor) == {t.stack[i].variable : i \in floor+1 .. Len(t.stack)}

\* The variables sync passes to route_touched, given the floor.
Routed(floor) ==
  {mirror[i] : i \in floor+1 .. Len(mirror)}
    \cup {t.stack[i].variable : i \in floor+1 .. Len(t.stack)}

\* Mutant of SyncedMirror: the mirror is not truncated first.
MirrorNotTruncated(floor) ==
  mirror \o [i \in 1 .. Len(t.stack) - floor |-> t.stack[floor + i].variable]

\* mirror.truncate(floor), then one push per trail entry from the floor on.
SyncedMirror(floor) ==
  [i \in 1 .. Len(t.stack) |->
     IF i <= floor THEN mirror[i] ELSE t.stack[i].variable]

\* take_sync_floor followed by DecideQueue::sync.
Sync ==
  /\ t' = TakeSyncFloor(t)
  /\ touched' = Routed(t.sync_floor)
  /\ mirror' = SyncedMirror(t.sync_floor)
  /\ synced' = t.stack

Next == \/ \E d \in Decision, level \in 1 .. MaxLevel : Assign(d, level)
        \/ PopLast
        \/ \E level \in 0 .. MaxLevel : Backtrack(level)
        \/ Propagate
        \/ Sync

Spec == Init /\ [][Next]_vars

----------------------------------------------------------------------------
(* Properties                                                               *)

\* The decision map and the trail tell the same story: the decided variables
\* are exactly the trail's, each once, with the trail's value; levels never
\* decrease along the trail (decision_tracker.rs; undo_until and analyze pop
\* from the end and rely on it).
TrailConsistent == Consistent(t)

\* The promise of the field comment on sync_floor: the trail up to the floor
\* is unchanged since the previous sync, and the floor lies within both.
FloorPromise ==
  /\ t.sync_floor <= Len(t.stack)
  /\ t.sync_floor <= Len(synced)
  /\ \A i \in 1 .. t.sync_floor : t.stack[i] = synced[i]

\* The mirror holds the variables of the trail as of the previous sync.
MirrorIsSnapshot ==
  /\ Len(mirror) = Len(synced)
  /\ \A i \in 1 .. Len(mirror) : mirror[i] = synced[i].variable

\* The value a trail gives a variable.
ValueIn(trail, v, value) ==
  \E i \in 1 .. Len(trail) : trail[i].variable = v /\ trail[i].value = value

\* No missed wake-up: when the decide queue syncs, every variable whose value
\* differs between the previous and the current trail is routed, however many
\* pushes, pops and restarts happened in between (decide_queue.rs, sync).
SyncMissesNothing ==
  [][synced' # synced \/ mirror' # mirror =>
       \A v \in Variable, b \in BOOLEAN :
         (ValueIn(synced, v, b) # ValueIn(synced', v, b)) => v \in touched']_vars
============================================================================
