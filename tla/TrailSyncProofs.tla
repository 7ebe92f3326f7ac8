-------------------------- MODULE TrailSyncProofs --------------------------
(***************************************************************************)
(* Proofs about the synchronisation of the decide queue with the decision  *)
(* tracker, for any set of variables and reasons and any MaxLevel.         *)
(***************************************************************************)
EXTENDS TrailSync, DecisionTrackerProofs

----------------------------------------------------------------------------
(* The protocol                                                             *)

\* The inductive invariant. FloorPromise and MirrorIsSnapshot need each other:
\* what sync keeps of the mirror is right because the trail below the floor is
\* unchanged.
Inv == TypeOK /\ TrailConsistent /\ FloorPromise /\ MirrorIsSnapshot

\* Cutting the trail of the tracker keeps the invariant.
LEMMA CutStep ==
  ASSUME Inv, NEW k \in 0 .. Len(t.stack), t' = CutTo(t, k),
         touched' = {}, UNCHANGED <<mirror, synced>>
  PROVE  Inv'
<1> USE DEF Inv
<1>1. /\ t' \in Tracker /\ Len(t'.stack) = k
      /\ \A i \in 1 .. k : t'.stack[i] = t.stack[i]
      /\ t'.sync_floor <= k /\ t'.sync_floor <= t.sync_floor
  BY CutToProperties DEF TypeOK
<1>2. TypeOK'
  BY <1>1 DEF TypeOK
<1>3. TrailConsistent'
  BY CutConsistent DEF TypeOK, TrailConsistent
<1>4. FloorPromise'
  <2>1. t'.sync_floor \in Nat /\ t.sync_floor \in Nat /\ k \in Nat /\ Len(synced) \in Nat
    BY <1>1 DEF TypeOK, Tracker
  <2>2. \A i \in 1 .. t'.sync_floor : i \in 1 .. k /\ i \in 1 .. t.sync_floor
    BY <1>1, <2>1
  <2> QED BY <1>1, <2>1, <2>2 DEF FloorPromise
<1>5. MirrorIsSnapshot'
  BY DEF MirrorIsSnapshot
<1> QED BY <1>2, <1>3, <1>4, <1>5

\* clear keeps the invariant.
LEMMA ClearStep ==
  ASSUME Inv, t' = Clear, touched' = {}, UNCHANGED <<mirror, synced>>
  PROVE  Inv'
<1> USE DEF Inv
<1>1. t' \in Tracker /\ t'.stack = << >> /\ Len(t'.stack) = 0 /\ t'.sync_floor = 0
      /\ \A v \in Variable : t'.map[v] = 0
  BY ClearProperties
<1>2. TypeOK'
  BY <1>1 DEF TypeOK
<1>3. TrailConsistent'
  BY <1>1 DEF TrailConsistent, Consistent, IsUndecided
<1>4. FloorPromise'
  BY <1>1 DEF FloorPromise, TypeOK
<1>5. MirrorIsSnapshot'
  BY DEF MirrorIsSnapshot
<1> QED BY <1>2, <1>3, <1>4, <1>5

\* An assignment keeps the invariant.
LEMMA AssignStep ==
  ASSUME Inv, NEW d \in Decision, NEW level \in 1 .. MaxLevel, Assign(d, level)
  PROVE  Inv'
<1> USE DEF Inv
<1>1. level \in Nat /\ level \in Nat \ {0}
  BY MaxLevelAssumption
<1>2. t' = TryAddDecision(t, d, level) /\ level >= TopLevel(t)
  BY DEF Assign
<1>3. /\ t' \in Tracker /\ t'.sync_floor = t.sync_floor
      /\ t' = t \/ t'.stack = Append(t.stack, d)
  BY <1>1, <1>2, TryAddProperties DEF TypeOK
<1>4. TypeOK'
  BY <1>3 DEF TypeOK, Assign
<1>5. TrailConsistent'
  BY <1>1, <1>2, TryAddConsistent DEF TypeOK, TrailConsistent
<1>6. /\ Len(t.stack) \in Nat /\ Len(t'.stack) >= Len(t.stack)
      /\ \A i \in 1 .. Len(t.stack) : t'.stack[i] = t.stack[i]
  <2>1. t.stack \in Seq(Decision)
    BY DEF TypeOK, Tracker
  <2>2. CASE t' = t
    BY <2>1, <2>2
  <2>3. CASE t'.stack = Append(t.stack, d)
    BY <2>1, <2>3, AppendProperties
  <2> QED BY <1>3, <2>2, <2>3
<1>7. FloorPromise'
  <2>1. t.sync_floor \in Nat /\ Len(t'.stack) \in Nat
    BY <1>3 DEF TypeOK, Tracker
  <2>2. UNCHANGED synced
    BY DEF Assign
  <2> QED BY <1>3, <1>6, <2>1, <2>2 DEF FloorPromise
<1>8. MirrorIsSnapshot'
  BY DEF MirrorIsSnapshot, Assign
<1> QED BY <1>4, <1>5, <1>7, <1>8

\* A backtrack is a restart, a cut, or nothing.
LEMMA BacktrackStep ==
  ASSUME Inv, NEW level \in 0 .. MaxLevel, Backtrack(level)
  PROVE  Inv'
<1>1. /\ t' = UndoUntil(t, level) /\ touched' = {} /\ UNCHANGED <<mirror, synced>>
      /\ t \in Tracker /\ level \in Nat
  BY MaxLevelAssumption DEF Backtrack, Inv, TypeOK
<1>2. KeptLength(t, level) \in 0 .. Len(t.stack)
  BY <1>1, KeptLengthExists
<1>3. CASE level = 0
  BY <1>1, <1>3, ClearStep DEF UndoUntil
<1>4. CASE level # 0 /\ KeptLength(t, level) = Len(t.stack)
  <2>1. t' = t
    BY <1>1, <1>4 DEF UndoUntil
  <2> QED BY <1>1, <2>1 DEF Inv, TypeOK, TrailConsistent, Consistent, FloorPromise, MirrorIsSnapshot
<1>5. CASE level # 0 /\ KeptLength(t, level) # Len(t.stack)
  <2>1. t' = CutTo(t, KeptLength(t, level))
    BY <1>1, <1>5 DEF UndoUntil
  <2> QED BY <1>1, <1>2, <2>1, CutStep
<1> QED BY <1>3, <1>4, <1>5

\* Undoing one decision after a failed propagation is a cut by one entry.
LEMMA PopLastStep ==
  ASSUME Inv, PopLast
  PROVE  Inv'
<1>1. t.stack \in Seq(Decision)
  BY DEF Inv, TypeOK, Tracker
<1>2. Len(t.stack) - 1 \in 0 .. Len(t.stack)
  BY <1>1 DEF PopLast, UndoLastPanics
<1>3. /\ t' = CutTo(t, Len(t.stack) - 1)
      /\ touched' = {} /\ UNCHANGED <<mirror, synced>>
  BY DEF PopLast, UndoLast
<1> QED BY <1>2, <1>3, CutStep

\* Taking an entry for propagation keeps the invariant.
LEMMA PropagateStep ==
  ASSUME Inv, Propagate
  PROVE  Inv'
<1> USE DEF Inv
<1>1. /\ t \in Tracker
      /\ t = [map |-> t.map, stack |-> t.stack, sync_floor |-> t.sync_floor,
              propagate_index |-> t.propagate_index]
      /\ t.propagate_index + 1 \in Nat
  BY DEF TypeOK, Tracker
<1>2. /\ t' \in Tracker
      /\ t'.map = t.map /\ t'.stack = t.stack /\ t'.sync_floor = t.sync_floor
  BY <1>1 DEF Propagate, MarkPropagated, Tracker
<1>3. TypeOK'
  BY <1>2 DEF TypeOK, Propagate
<1>4. TrailConsistent' /\ FloorPromise' /\ MirrorIsSnapshot'
  BY <1>2 DEF TrailConsistent, Consistent, FloorPromise, MirrorIsSnapshot, Propagate
<1> QED BY <1>3, <1>4

\* The facts about the current state that both a sync and its consequences
\* rest on: where the floor lies, and what mirror and trail share below it.
LEMMA BelowTheFloor ==
  ASSUME Inv
  PROVE  /\ t.stack \in Seq(Decision) /\ synced \in Seq(Decision)
         /\ mirror \in Seq(Variable)
         /\ t.sync_floor \in Nat /\ Len(t.stack) \in Nat /\ Len(synced) \in Nat
         /\ t.sync_floor <= Len(t.stack) /\ t.sync_floor <= Len(synced)
         /\ Len(mirror) = Len(synced)
         /\ \A i \in 1 .. t.sync_floor : t.stack[i] = synced[i]
         /\ \A i \in 1 .. Len(synced) : mirror[i] = synced[i].variable
  BY DEF Inv, TypeOK, Tracker, FloorPromise, MirrorIsSnapshot

\* DecideQueue::sync keeps the invariant: the new mirror is the current trail.
LEMMA SyncStep ==
  ASSUME Inv, Sync
  PROVE  Inv'
<1>1. /\ t.stack \in Seq(Decision) /\ synced \in Seq(Decision)
      /\ mirror \in Seq(Variable)
      /\ t.sync_floor \in Nat /\ Len(t.stack) \in Nat /\ Len(synced) \in Nat
      /\ t.sync_floor <= Len(t.stack) /\ t.sync_floor <= Len(synced)
      /\ Len(mirror) = Len(synced)
      /\ \A i \in 1 .. t.sync_floor : t.stack[i] = synced[i]
      /\ \A i \in 1 .. Len(synced) : mirror[i] = synced[i].variable
  BY BelowTheFloor
<1>2. /\ t \in Tracker
      /\ t = [map |-> t.map, stack |-> t.stack, sync_floor |-> t.sync_floor,
              propagate_index |-> t.propagate_index]
  BY DEF Inv, TypeOK, Tracker
<1>3. /\ t' \in Tracker
      /\ t'.map = t.map /\ t'.stack = t.stack /\ t'.sync_floor = Len(t.stack)
  BY <1>1, <1>2 DEF Sync, TakeSyncFloor, Tracker
<1>4. \A i \in 1 .. Len(t.stack) : t.stack[i].variable \in Variable
  BY <1>1, EntryType
<1>5. \A i \in 1 .. Len(t.stack) :
        SyncedMirror(t.sync_floor)[i] = t.stack[i].variable
  <2> SUFFICES ASSUME NEW i \in 1 .. Len(t.stack), i <= t.sync_floor
               PROVE  mirror[i] = t.stack[i].variable
    BY <1>1 DEF SyncedMirror
  <2>1. i \in 1 .. t.sync_floor /\ i \in 1 .. Len(synced)
    BY <1>1
  <2> QED BY <1>1, <2>1
<1>6. /\ mirror' = SyncedMirror(t.sync_floor) /\ synced' = t.stack
      /\ touched' = Routed(t.sync_floor)
  BY DEF Sync
<1>7. mirror' = [i \in 1 .. Len(t.stack) |-> t.stack[i].variable]
  BY <1>5, <1>6 DEF SyncedMirror
<1>8. mirror' \in Seq(Variable) /\ Len(mirror') = Len(t.stack)
  BY <1>1, <1>4, <1>7
<1>9. touched' \subseteq Variable
  <2>1. \A i \in t.sync_floor+1 .. Len(mirror) : mirror[i] \in Variable
    BY <1>1, ElementOfSeq
  <2>2. \A i \in t.sync_floor+1 .. Len(t.stack) : t.stack[i].variable \in Variable
    BY <1>1, <1>4
  <2> QED BY <1>6, <2>1, <2>2 DEF Routed
<1>10. TypeOK'
  BY <1>1, <1>3, <1>6, <1>8, <1>9 DEF TypeOK
<1>11. TrailConsistent'
  BY <1>3 DEF Inv, TrailConsistent, Consistent
<1>12. FloorPromise'
  BY <1>1, <1>3, <1>6 DEF FloorPromise
<1>13. MirrorIsSnapshot'
  BY <1>6, <1>7, <1>8 DEF MirrorIsSnapshot
<1> QED BY <1>10, <1>11, <1>12, <1>13 DEF Inv

\* The invariant holds initially.
LEMMA InitInv == Init => Inv
<1> SUFFICES ASSUME Init PROVE Inv
  OBVIOUS
<1>1. /\ t \in Tracker /\ t.stack = << >> /\ Len(t.stack) = 0 /\ t.sync_floor = 0
      /\ \A v \in Variable : t.map[v] = 0
  BY ClearProperties DEF Init
<1>2. mirror = << >> /\ synced = << >> /\ touched = {}
  BY DEF Init
<1>3. TypeOK
  BY <1>1, <1>2 DEF TypeOK
<1>4. TrailConsistent
  BY <1>1 DEF TrailConsistent, Consistent, IsUndecided
<1>5. FloorPromise /\ MirrorIsSnapshot
  BY <1>1, <1>2 DEF FloorPromise, MirrorIsSnapshot
<1> QED BY <1>3, <1>4, <1>5 DEF Inv

\* Every step keeps the invariant.
LEMMA NextInv == Inv /\ [Next]_vars => Inv'
<1> SUFFICES ASSUME Inv, [Next]_vars PROVE Inv'
  OBVIOUS
<1>1. CASE \E d \in Decision, level \in 1 .. MaxLevel : Assign(d, level)
  BY <1>1, AssignStep
<1>2. CASE PopLast
  BY <1>2, PopLastStep
<1>3. CASE \E level \in 0 .. MaxLevel : Backtrack(level)
  BY <1>3, BacktrackStep
<1>4. CASE Propagate
  BY <1>4, PropagateStep
<1>5. CASE Sync
  BY <1>5, SyncStep
<1>6. CASE UNCHANGED vars
  BY <1>6 DEF vars, Inv, TypeOK, TrailConsistent, Consistent, FloorPromise, MirrorIsSnapshot
<1> QED BY <1>1, <1>2, <1>3, <1>4, <1>5, <1>6 DEF Next

\* Type correctness of tracker, mirror and routed set, for any instance.
THEOREM TypeCorrect == Spec => []TypeOK
<1>1. Inv => TypeOK
  BY DEF Inv
<1> QED BY <1>1, InitInv, NextInv, PTL DEF Spec

\* The decision map and the trail always agree, whatever sequence of pushes,
\* pops, backtracks and restarts the solver makes.
THEOREM TrailStaysConsistent == Spec => []TrailConsistent
<1>1. Inv => TrailConsistent
  BY DEF Inv
<1> QED BY <1>1, InitInv, NextInv, PTL DEF Spec

\* The promise of the comment on sync_floor holds at all times.
THEOREM FloorPromiseKept == Spec => []FloorPromise
<1>1. Inv => FloorPromise
  BY DEF Inv
<1> QED BY <1>1, InitInv, NextInv, PTL DEF Spec

\* The decide queue's mirror is the trail as of the last sync.
THEOREM MirrorIsTheLastSnapshot == Spec => []MirrorIsSnapshot
<1>1. Inv => MirrorIsSnapshot
  BY DEF Inv
<1> QED BY <1>1, InitInv, NextInv, PTL DEF Spec

\* A sync routes every variable whose value changed since the last one.
LEMMA SyncRoutesChanges ==
  ASSUME Inv, Sync, NEW v \in Variable, NEW b \in BOOLEAN,
         ValueIn(synced, v, b) # ValueIn(synced', v, b)
  PROVE  v \in touched'
<1>1. /\ t.sync_floor \in Nat /\ Len(t.stack) \in Nat /\ Len(synced) \in Nat
      /\ t.sync_floor <= Len(t.stack) /\ t.sync_floor <= Len(synced)
      /\ Len(mirror) = Len(synced)
      /\ \A i \in 1 .. t.sync_floor : t.stack[i] = synced[i]
      /\ \A i \in 1 .. Len(synced) : mirror[i] = synced[i].variable
  BY BelowTheFloor
<1>2. synced' = t.stack /\ touched' = Routed(t.sync_floor)
  BY DEF Sync
<1>3. CASE ValueIn(synced, v, b)
  <2>1. PICK i \in 1 .. Len(synced) : synced[i].variable = v /\ synced[i].value = b
    BY <1>3 DEF ValueIn
  <2>2. ~ (i <= t.sync_floor)
    <3> SUFFICES ASSUME i <= t.sync_floor PROVE FALSE
      OBVIOUS
    <3>1. i \in 1 .. t.sync_floor /\ i \in 1 .. Len(t.stack)
      BY <1>1
    <3>2. ValueIn(t.stack, v, b)
      BY <1>1, <2>1, <3>1 DEF ValueIn
    <3> QED BY <1>2, <1>3, <3>2 DEF ValueIn
  <2>3. i \in t.sync_floor+1 .. Len(mirror) /\ mirror[i] = v
    BY <1>1, <2>1, <2>2
  <2> QED BY <1>2, <2>3 DEF Routed
<1>4. CASE ~ValueIn(synced, v, b)
  <2>1. PICK i \in 1 .. Len(t.stack) : t.stack[i].variable = v /\ t.stack[i].value = b
    BY <1>2, <1>4 DEF ValueIn
  <2>2. ~ (i <= t.sync_floor)
    <3> SUFFICES ASSUME i <= t.sync_floor PROVE FALSE
      OBVIOUS
    <3>1. i \in 1 .. t.sync_floor /\ i \in 1 .. Len(synced)
      BY <1>1
    <3> QED BY <1>1, <1>4, <2>1, <3>1 DEF ValueIn
  <2>3. i \in t.sync_floor+1 .. Len(t.stack)
    BY <1>1, <2>2
  <2> QED BY <1>2, <2>1, <2>3 DEF Routed
<1> QED BY <1>3, <1>4

\* No missed wake-up: between two syncs no change of a variable's value escapes
\* the decide queue, however the trail was cut and regrown in between.
THEOREM NoChangeIsMissed == Spec => SyncMissesNothing
<1> DEFINE Step == synced' # synced \/ mirror' # mirror =>
                     \A v \in Variable, b \in BOOLEAN :
                       (ValueIn(synced, v, b) # ValueIn(synced', v, b))
                         => v \in touched'
<1>1. Inv /\ [Next]_vars => [Step]_vars
  <2> SUFFICES ASSUME Inv, Next, synced' # synced \/ mirror' # mirror
               PROVE  Step
    OBVIOUS
  <2>1. Sync
    BY DEF Next, Assign, PopLast, Backtrack, Propagate
  <2> QED BY <2>1, SyncRoutesChanges
<1>2. Spec => []Inv
  BY InitInv, NextInv, PTL DEF Spec
<1> QED BY <1>1, <1>2, PTL DEF Spec, SyncMissesNothing
============================================================================
