------------------------- MODULE DecideQueueProofs -------------------------
(***************************************************************************)
(* Proofs about the decide queue, for any variables, packages,             *)
(* requirements and encodings, any trail and any number of bumps: no       *)
(* eligible clause sleeps, the caches are what a fresh walk finds, the hot *)
(* queue is the hot part of the queue, and decide answers what a scan of   *)
(* all eligible clauses answers.                                           *)
(*                                                                         *)
(* The argument is about the assignment at the previous sync.  The queue   *)
(* does not keep it (the mirror holds variables, not values), so the       *)
(* invariant says that there is one: `old` agrees with the trail below the *)
(* sync floor, decides nothing that the mirror does not hold, explains     *)
(* every cached walk and lets every clause outside the queue sleep.        *)
(*                                                                         *)
(* The scan and the loop of next_decision go over two lists of clauses in  *)
(* the same order.  By induction over the clauses that both have come by,  *)
(* they hold the same best clause: a clause the loop does not look at is   *)
(* cold, so that with positive bumps its score is 0 and it replaces none,  *)
(* and one that comes after an early stop cannot be better.                *)
(***************************************************************************)
EXTENDS DecideQueue, DecisionTrackerProofs, FiniteSetTheorems

----------------------------------------------------------------------------
(* The inductive invariant                                                  *)

\* A registered clause (struct TrackedClause).
Tracked == [parent : Variable, requirement : Requirement,
            condition : SUBSET [variable : Variable, negate : BOOLEAN], hot : BOOLEAN]

\* The fields of the queue: a record with these and no others.
Fields(k) ==
  k = [clauses |-> k.clauses, queue |-> k.queue, hot_queue |-> k.hot_queue,
       hot_names |-> k.hot_names, states |-> k.states, registered |-> k.registered]

\* The queue and the clauses still to be encoded have their types.
Typed == /\ Fields(q)
         /\ q.clauses \in Seq(Tracked)
         /\ q.queue \subseteq DOMAIN q.clauses
         /\ encoding \in Seq(RequiresClause)

\* The assignments of a trail whose entries are all at level 1.
Assignment == [Variable -> {-1, 0, 1}]

\* A tracker x and a mirror m share the trail below the sync floor.
InStep(x, m) ==
  /\ x \in Tracker /\ x.map \in Assignment /\ Consistent(x)
  /\ m \in Seq(Variable)
  /\ x.sync_floor <= Len(x.stack) /\ x.sync_floor <= Len(m)
  /\ \A j \in 1 .. x.sync_floor : m[j] = x.stack[j].variable

\* `old` may be the assignment at the previous sync.
Snapshot(x, m, old) ==
  /\ old \in Assignment
  /\ \A v \in Variable : old[v] # 0 => \E j \in 1 .. Len(m) : m[j] = v
  /\ \A j \in 1 .. x.sync_floor : old[m[j]] = x.map[m[j]]

\* The variables of the previous sync's trail that were popped since.
Undone(x, m) == {m[j] : j \in x.sync_floor + 1 .. Len(m)}

\* Every cached walk is right under an assignment, and will be told of a change.
Cached(k, map) ==
  \A r \in Requirement :
    \/ k.states[r] = Dirty
    \/ /\ r \in k.registered
       /\ k.states[r].kind = "Satisfied"
       /\ k.states[r].by \in CandidatesOf[r] /\ IsTrue(map, k.states[r].by)
    \/ /\ r \in k.registered
       /\ k.states[r].kind = "Frontier" /\ k.states[r] = Walk(map, r)

\* Under an assignment clause i has a reason not to be queued.
Idle(k, map, i) ==
  \/ ~IsTrue(map, k.clauses[i].parent)
  \/ ~ConditionHolds(map, k.clauses[i])
  \/ k.states[k.clauses[i].requirement].kind = "Satisfied"

\* The assignment at the previous sync explains the caches and the sleepers; a
\* clause may also be registered while its parent is popped.
Explained(old) ==
  /\ Snapshot(t, mirror, old)
  /\ Cached(q, old)
  /\ \A i \in DOMAIN q.clauses \ q.queue :
       Idle(q, old, i) \/ q.clauses[i].parent \in Undone(t, mirror)

\* The inductive invariant; old is the assignment the queue last synced with.
Inv == /\ Typed
       /\ InStep(t, mirror)
       /\ HotInLockstep
       /\ \E old \in Assignment : Explained(old)

----------------------------------------------------------------------------
(* The trail and the snapshot                                               *)

\* What the parts of InStep say of the lengths and entries.
LEMMA StepFacts ==
  ASSUME NEW x, NEW m, InStep(x, m)
  PROVE  /\ x.stack \in Seq(Decision) /\ Len(x.stack) \in Nat /\ Len(m) \in Nat
         /\ x.sync_floor \in Nat
         /\ \A i \in 1 .. Len(x.stack) : x.stack[i].variable \in Variable
         /\ \A j \in 1 .. Len(m) : m[j] \in Variable
         /\ \A v \in Variable : x.map[v] \in {-1, 0, 1}
<1>1. /\ x.stack \in Seq(Decision) /\ x.sync_floor \in Nat /\ m \in Seq(Variable)
      /\ x.map \in Assignment
  BY DEF InStep, Tracker
<1>2. \A i \in 1 .. Len(x.stack) : x.stack[i].variable \in Variable
  BY <1>1, EntryType
<1>3. \A j \in 1 .. Len(m) : m[j] \in Variable
  BY <1>1, ElementOfSeq
<1> QED BY <1>1, <1>2, <1>3 DEF Assignment

\* undo_last keeps the shared part of the trail shared and a snapshot a snapshot.
LEMMA CutInStep ==
  ASSUME NEW x, NEW m, InStep(x, m), NEW k \in 0 .. Len(x.stack)
  PROVE  /\ InStep(CutTo(x, k), m)
         /\ CutTo(x, k).sync_floor <= x.sync_floor
         /\ \A old \in Assignment :
              Snapshot(x, m, old) => Snapshot(CutTo(x, k), m, old)
<1> DEFINE y == CutTo(x, k)
           n == Len(x.stack)
<1>1. /\ x.stack \in Seq(Decision) /\ n \in Nat /\ Len(m) \in Nat /\ x.sync_floor \in Nat
      /\ \A i \in 1 .. n : x.stack[i].variable \in Variable
      /\ \A v \in Variable : x.map[v] \in {-1, 0, 1}
      /\ \A j \in 1 .. Len(m) : m[j] \in Variable
  BY StepFacts
<1>2. x \in Tracker /\ Consistent(x)
  BY DEF InStep
<1>3. /\ y \in Tracker /\ Len(y.stack) = k
      /\ \A i \in 1 .. k : y.stack[i] = x.stack[i]
      /\ y.sync_floor <= k /\ y.sync_floor <= x.sync_floor
      /\ \A v \in Variable :
           IF \E i \in k+1 .. n : x.stack[i].variable = v
           THEN y.map[v] = 0 ELSE y.map[v] = x.map[v]
  BY <1>2, CutToProperties
<1>4. Consistent(y)
  BY <1>2, CutConsistent
<1> HIDE DEF y
<1>5. y.map \in [Variable -> Int] /\ y.sync_floor \in Nat
  BY <1>3 DEF Tracker
<1>6. \A v \in Variable : y.map[v] \in {-1, 0, 1}
  BY <1>1, <1>3
<1>7. y.map \in Assignment
  BY <1>5, <1>6 DEF Assignment
<1>8. /\ m \in Seq(Variable) /\ x.sync_floor <= Len(m)
      /\ \A j \in 1 .. x.sync_floor : m[j] = x.stack[j].variable
  BY DEF InStep
<1>9. \A j \in 1 .. y.sync_floor :
        j \in 1 .. k /\ j \in 1 .. x.sync_floor /\ j \in 1 .. n
  BY <1>1, <1>3, <1>5
<1>10. InStep(y, m)
  <2>1. \A j \in 1 .. y.sync_floor : m[j] = y.stack[j].variable
    BY <1>3, <1>8, <1>9
  <2>2. y.sync_floor <= Len(m)
    BY <1>1, <1>3, <1>5, <1>8
  <2> QED BY <1>3, <1>4, <1>7, <1>8, <2>1, <2>2 DEF InStep
<1>11. \A j \in 1 .. y.sync_floor : y.map[m[j]] = x.map[m[j]]
  <2> SUFFICES ASSUME NEW j \in 1 .. y.sync_floor
               PROVE  y.map[m[j]] = x.map[m[j]]
    OBVIOUS
  <2>1. m[j] = x.stack[j].variable /\ m[j] \in Variable
    BY <1>1, <1>8, <1>9
  <2>2. \A i \in k+1 .. n : i \in 1 .. n /\ j < i
    BY <1>1, <1>9
  <2>3. \A i \in k+1 .. n : x.stack[i].variable # x.stack[j].variable
    BY <1>2, <1>9, <2>2 DEF Consistent
  <2> QED BY <1>3, <2>1, <2>3
<1>12. ASSUME NEW old \in Assignment, Snapshot(x, m, old)
       PROVE  Snapshot(y, m, old)
  BY <1>9, <1>11, <1>12 DEF Snapshot
<1> QED BY <1>3, <1>10, <1>12 DEF y

\* A restart gives up the whole trail: nothing is shared any more.
LEMMA ClearInStep ==
  ASSUME NEW x, NEW m, InStep(x, m)
  PROVE  /\ InStep(Clear, m)
         /\ Clear.sync_floor <= x.sync_floor
         /\ \A old \in Assignment : Snapshot(x, m, old) => Snapshot(Clear, m, old)
<1>1. m \in Seq(Variable) /\ Len(m) \in Nat /\ x.sync_floor \in Nat
  BY StepFacts DEF InStep
<1>2. /\ Clear \in Tracker /\ Clear.stack = << >> /\ Clear.sync_floor = 0
      /\ \A v \in Variable : Clear.map[v] = 0
  BY ClearProperties
<1>3. Clear.map \in [Variable -> Int]
  BY <1>2 DEF Tracker
<1>4. Clear.map \in Assignment
  BY <1>2, <1>3 DEF Assignment
<1>5. Len(Clear.stack) = 0
  BY <1>2
<1>6. Consistent(Clear)
  BY <1>2, <1>5 DEF Consistent, IsUndecided
<1>7. InStep(Clear, m)
  BY <1>1, <1>2, <1>4, <1>5, <1>6 DEF InStep
<1>8. \A old \in Assignment : Snapshot(x, m, old) => Snapshot(Clear, m, old)
  BY <1>2 DEF Snapshot
<1> QED BY <1>1, <1>2, <1>7, <1>8

\* A new entry lies above the floor: what was shared stays shared.
LEMMA PushInStep ==
  ASSUME NEW x, NEW m, InStep(x, m), NEW d \in Decision, IsUndecided(x.map, d.variable)
  PROVE  LET y == MarkPropagated(TryAddDecision(x, d, 1))
         IN /\ InStep(y, m)
            /\ y.sync_floor = x.sync_floor
            /\ \A old \in Assignment : Snapshot(x, m, old) => Snapshot(y, m, old)
<1> DEFINE z == TryAddDecision(x, d, 1)
           y == MarkPropagated(z)
           n == Len(x.stack)
<1>1. /\ x.stack \in Seq(Decision) /\ n \in Nat /\ Len(m) \in Nat /\ x.sync_floor \in Nat
      /\ \A i \in 1 .. n : x.stack[i].variable \in Variable
      /\ \A v \in Variable : x.map[v] \in {-1, 0, 1}
      /\ \A j \in 1 .. Len(m) : m[j] \in Variable
  BY StepFacts
<1>2. x \in Tracker /\ Consistent(x) /\ x.map \in [Variable -> Int]
  BY DEF InStep, Tracker
<1>3. d.variable \in Variable /\ x.map[d.variable] = 0
  BY DEF IsUndecided, Decision
<1>4. /\ z \in Tracker /\ z.sync_floor = x.sync_floor
      /\ \/ z = x
         \/ /\ z.stack = Append(x.stack, d)
            /\ z.map = [x.map EXCEPT ![d.variable] = IF d.value THEN 1 ELSE -1]
  BY <1>2, TryAddProperties
<1>5. TopLevel(x) <= 1
  <2>1. CASE x.stack = << >>
    BY <2>1 DEF TopLevel
  <2>2. CASE x.stack # << >>
    <3>1. n \in 1 .. n
      BY <1>1, <2>2, EmptySeq
    <3>2. x.map[x.stack[n].variable] \in {-1, 0, 1}
      BY <1>1, <3>1
    <3> QED BY <2>2, <3>2 DEF TopLevel, LevelOf
  <2> QED BY <2>1, <2>2
<1>6. TopLevel(x) \in Int
  <2>1. CASE x.stack = << >>
    BY <2>1 DEF TopLevel
  <2>2. CASE x.stack # << >>
    <3>1. n \in 1 .. n
      BY <1>1, <2>2, EmptySeq
    <3>2. x.map[x.stack[n].variable] \in {-1, 0, 1}
      BY <1>1, <3>1
    <3> QED BY <2>2, <3>2 DEF TopLevel, LevelOf
  <2> QED BY <2>1, <2>2
<1>7. Consistent(z)
  <2>1. 1 \in Nat \ {0} /\ 1 >= TopLevel(x)
    BY <1>5, <1>6
  <2> QED BY <1>2, <2>1, TryAddConsistent
<1> HIDE DEF z
<1>8. /\ z = [map |-> z.map, stack |-> z.stack, sync_floor |-> z.sync_floor,
              propagate_index |-> z.propagate_index]
      /\ z.map \in [Variable -> Int] /\ z.stack \in Seq(Decision) /\ z.sync_floor \in Nat
      /\ z.propagate_index + 1 \in Nat
  BY <1>4 DEF Tracker
<1>9. /\ y \in Tracker
      /\ y.map = z.map /\ y.stack = z.stack /\ y.sync_floor = z.sync_floor
  BY <1>8 DEF MarkPropagated, Tracker
<1> HIDE DEF y
<1>10. Consistent(y)
  BY <1>7, <1>9 DEF Consistent
<1>11. \A v \in Variable : z.map[v] \in {-1, 0, 1}
  <2>1. CASE z = x
    BY <1>1, <2>1
  <2>2. CASE z.map = [x.map EXCEPT ![d.variable] = IF d.value THEN 1 ELSE -1]
    <3>1. PICK e \in {-1, 1} : z.map = [x.map EXCEPT ![d.variable] = e]
      BY <2>2
    <3>2. \A v \in Variable : z.map[v] = IF v = d.variable THEN e ELSE x.map[v]
      BY <1>2, <3>1
    <3> QED BY <1>1, <3>2
  <2> QED BY <1>4, <2>1, <2>2
<1>12. y.map \in Assignment
  BY <1>8, <1>9, <1>11 DEF Assignment
<1>13. /\ Len(z.stack) \in Nat /\ Len(z.stack) >= n
       /\ \A i \in 1 .. n : z.stack[i] = x.stack[i]
  <2>1. CASE z = x
    BY <1>1, <2>1
  <2>2. CASE z.stack = Append(x.stack, d)
    BY <1>1, <2>2, AppendProperties
  <2> QED BY <1>4, <2>1, <2>2
<1>14. /\ m \in Seq(Variable) /\ x.sync_floor <= Len(m) /\ x.sync_floor <= n
       /\ \A j \in 1 .. x.sync_floor : m[j] = x.stack[j].variable
  BY DEF InStep
<1>15. InStep(y, m)
  <2>1. \A j \in 1 .. x.sync_floor : m[j] = y.stack[j].variable
    BY <1>1, <1>9, <1>13, <1>14
  <2>2. x.sync_floor <= Len(y.stack)
    BY <1>1, <1>9, <1>13, <1>14
  <2> QED BY <1>4, <1>9, <1>10, <1>12, <1>14, <2>1, <2>2 DEF InStep
<1>16. \A j \in 1 .. x.sync_floor : y.map[m[j]] = x.map[m[j]]
  <2> SUFFICES ASSUME NEW j \in 1 .. x.sync_floor PROVE y.map[m[j]] = x.map[m[j]]
    OBVIOUS
  <2>1. j \in 1 .. n /\ m[j] = x.stack[j].variable
    BY <1>1, <1>14
  <2>2. x.map[x.stack[j].variable] # 0 /\ x.stack[j].variable \in Variable
    BY <1>1, <1>2, <2>1 DEF Consistent, IsUndecided
  <2>3. m[j] # d.variable /\ m[j] \in Variable
    BY <1>3, <2>1, <2>2
  <2> QED BY <1>2, <1>4, <1>9, <2>3
<1>17. ASSUME NEW old \in Assignment, Snapshot(x, m, old)
       PROVE  Snapshot(y, m, old)
  BY <1>4, <1>9, <1>16, <1>17 DEF Snapshot
<1> QED BY <1>4, <1>9, <1>15, <1>17 DEF y, z

\* A variable that sync does not route has the value it had at the previous sync.
LEMMA UnroutedKeepsValue ==
  ASSUME InStep(t, mirror), NEW old \in Assignment, Snapshot(t, mirror, old),
         NEW v \in Variable, v \notin Trail!Routed(t.sync_floor)
  PROVE  old[v] = t.map[v]
<1>1. /\ t.stack \in Seq(Decision) /\ Len(t.stack) \in Nat /\ Len(mirror) \in Nat
      /\ t.sync_floor \in Nat
  BY StepFacts
<1>2. /\ \A i \in t.sync_floor + 1 .. Len(t.stack) : t.stack[i].variable # v
      /\ \A j \in t.sync_floor + 1 .. Len(mirror) : mirror[j] # v
  BY DEF Trail!Routed
<1>3. /\ t.sync_floor <= Len(t.stack) /\ t.sync_floor <= Len(mirror)
      /\ \A j \in 1 .. t.sync_floor : mirror[j] = t.stack[j].variable
      /\ Consistent(t)
  BY DEF InStep
<1>4. /\ old[v] # 0 => \E j \in 1 .. Len(mirror) : mirror[j] = v
      /\ \A j \in 1 .. t.sync_floor : old[mirror[j]] = t.map[mirror[j]]
  BY DEF Snapshot
<1>5. CASE \E j \in 1 .. t.sync_floor : mirror[j] = v
  BY <1>4, <1>5
<1>6. CASE ~ \E j \in 1 .. t.sync_floor : mirror[j] = v
  <2>1. old[v] = 0
    BY <1>1, <1>2, <1>4, <1>6
  <2>2. \A i \in 1 .. Len(t.stack) : t.stack[i].variable # v
    BY <1>1, <1>2, <1>3, <1>6
  <2>3. t.map[v] = 0
    BY <1>3, <2>2 DEF Consistent, IsUndecided
  <2> QED BY <2>1, <2>3
<1> QED BY <1>5, <1>6

\* A variable that is not installed was not at the previous sync either, unless
\* it was popped since.
LEMMA NotInstalledBefore ==
  ASSUME NEW x, NEW m, InStep(x, m), NEW old \in Assignment, Snapshot(x, m, old),
         NEW v \in Variable, ~IsTrue(x.map, v), v \notin Undone(x, m)
  PROVE  ~IsTrue(old, v)
<1>1. Len(m) \in Nat /\ x.sync_floor \in Nat
  BY StepFacts
<1>2. SUFFICES ASSUME IsTrue(old, v) PROVE FALSE
  OBVIOUS
<1>3. PICK j \in 1 .. Len(m) : m[j] = v
  BY <1>2 DEF Snapshot, IsTrue, Assignment
<1>4. j \in 1 .. x.sync_floor
  BY <1>1, <1>3 DEF Undone
<1>5. old[v] = x.map[v]
  BY <1>3, <1>4 DEF Snapshot
<1> QED BY <1>2, <1>5 DEF IsTrue

\* After a sync the mirror is the trail, and the current assignment the snapshot.
LEMMA SyncInStep ==
  ASSUME InStep(t, mirror)
  PROVE  LET y == TakeSyncFloor(t)
             m == Trail!SyncedMirror(t.sync_floor)
         IN InStep(y, m) /\ Snapshot(y, m, t.map)
<1> DEFINE y == TakeSyncFloor(t)
           m == Trail!SyncedMirror(t.sync_floor)
           n == Len(t.stack)
<1>1. /\ t.stack \in Seq(Decision) /\ n \in Nat /\ Len(mirror) \in Nat
      /\ t.sync_floor \in Nat
      /\ \A i \in 1 .. n : t.stack[i].variable \in Variable
  BY StepFacts
<1>2. /\ t.sync_floor <= n /\ Consistent(t) /\ t \in Tracker /\ t.map \in Assignment
      /\ \A j \in 1 .. t.sync_floor : mirror[j] = t.stack[j].variable
  BY DEF InStep
<1>3. \A i \in 1 .. n : m[i] = t.stack[i].variable
  BY <1>1, <1>2 DEF Trail!SyncedMirror
<1>4. m = [i \in 1 .. n |-> t.stack[i].variable]
  BY <1>3 DEF Trail!SyncedMirror
<1> HIDE DEF m
<1>5. m \in Seq(Variable) /\ Len(m) = n
  BY <1>1, <1>4
<1>6. t = [map |-> t.map, stack |-> t.stack, sync_floor |-> t.sync_floor,
           propagate_index |-> t.propagate_index]
  BY <1>2 DEF Tracker
<1>7. /\ y \in Tracker /\ y.map = t.map /\ y.stack = t.stack /\ y.sync_floor = n
  BY <1>1, <1>2, <1>6 DEF TakeSyncFloor, Tracker
<1> HIDE DEF y
<1>8. Consistent(y)
  BY <1>2, <1>7 DEF Consistent
<1>9. InStep(y, m)
  BY <1>1, <1>2, <1>3, <1>5, <1>7, <1>8 DEF InStep
<1>10. \A v \in Variable : t.map[v] # 0 => \E j \in 1 .. Len(m) : m[j] = v
  BY <1>2, <1>3, <1>5 DEF Consistent, IsUndecided
<1>11. Snapshot(y, m, t.map)
  BY <1>2, <1>7, <1>10 DEF Snapshot
<1> QED BY <1>9, <1>11 DEF y, m

----------------------------------------------------------------------------
(* The walk over the candidates                                             *)

\* A set of positions has a first one.
LEMMA FirstOfExists ==
  ASSUME NEW P, P \subseteq Nat \X Nat, P # {}
  PROVE  FirstOf(P) \in P
<1> DEFINE Rows == {p[1] : p \in P}
<1>1. Rows \subseteq Nat /\ Rows # {}
  OBVIOUS
<1>2. PICK row \in Rows : \A y \in Rows : row <= y
  BY <1>1, LeastNatural
<1> DEFINE Columns == {p[2] : p \in {o \in P : o[1] = row}}
<1>3. Columns \subseteq Nat /\ Columns # {}
  OBVIOUS
<1>4. PICK column \in Columns : \A y \in Columns : column <= y
  <2> HIDE DEF Columns
  <2> QED BY <1>3, LeastNatural
<1>5. PICK p \in P : p[1] = row /\ p[2] = column
  OBVIOUS
<1>6. \A o \in P : p[1] < o[1] \/ (p[1] = o[1] /\ p[2] <= o[2])
  <2> SUFFICES ASSUME NEW o \in P PROVE p[1] < o[1] \/ (p[1] = o[1] /\ p[2] <= o[2])
    OBVIOUS
  <2>1. o[1] \in Nat /\ p[1] \in Nat /\ o[1] \in Rows
    OBVIOUS
  <2>2. row <= o[1]
    BY <1>2, <2>1
  <2>3. CASE o[1] = row
    BY <1>4, <1>5, <2>3
  <2>4. CASE o[1] # row
    BY <1>5, <2>1, <2>2, <2>4
  <2> QED BY <2>3, <2>4
<1>7. \E z \in P : \A o \in P : z[1] < o[1] \/ (z[1] = o[1] /\ z[2] <= o[2])
  BY <1>6
<1> QED BY <1>7 DEF FirstOf

\* Positions are pairs of naturals, and the candidates there are variables.
LEMMA PositionsType ==
  ASSUME NEW r \in Requirement
  PROVE  /\ Positions[r] \subseteq Nat \X Nat
         /\ \A p \in Positions[r] : At(r, p) \in Variable
<1>1. Sorted[r] \in Seq([name : Name, candidates : Seq(Variable)])
  BY DecideQueueAssumption
<1> SUFFICES ASSUME NEW p \in Positions[r]
             PROVE  p \in Nat \X Nat /\ At(r, p) \in Variable
  OBVIOUS
<1>2. PICK i \in DOMAIN Sorted[r] : p \in {<<i, j>> : j \in DOMAIN Sorted[r][i].candidates}
  BY DEF Positions
<1>3. PICK j \in DOMAIN Sorted[r][i].candidates : p = <<i, j>>
  BY <1>2
<1>4. Sorted[r][i].candidates \in Seq(Variable) /\ i \in Nat
  <2>1. i \in 1 .. Len(Sorted[r])
    BY <1>1
  <2>2. Sorted[r][i] \in [name : Name, candidates : Seq(Variable)]
    BY <1>1, <2>1, ElementOfSeq
  <2> QED BY <2>1, <2>2
<1>5. j \in Nat /\ Sorted[r][i].candidates[j] \in Variable
  BY <1>4
<1>6. p[1] = i /\ p[2] = j
  BY <1>3
<1> QED BY <1>3, <1>4, <1>5, <1>6 DEF At

\* The candidates of a requirement are variables.
LEMMA CandidatesType ==
  ASSUME NEW r \in Requirement PROVE CandidatesOf[r] \subseteq Variable
  BY PositionsType DEF CandidatesOf

\* A walk answers Satisfied or Frontier, and Satisfied with an installed candidate.
LEMMA WalkAnswers ==
  ASSUME NEW r \in Requirement, NEW map
  PROVE  \/ /\ Walk(map, r).kind = "Satisfied"
            /\ Walk(map, r).by \in CandidatesOf[r] /\ IsTrue(map, Walk(map, r).by)
         \/ Walk(map, r).kind = "Frontier"
<1>1. CASE Installed(map, r) # {}
  <2>1. Installed(map, r) \subseteq Positions[r]
    BY DEF Installed
  <2>2. Installed(map, r) \subseteq Nat \X Nat
    BY <2>1, PositionsType
  <2>3. FirstOf(Installed(map, r)) \in Installed(map, r)
    BY <1>1, <2>2, FirstOfExists
  <2>4. /\ At(r, FirstOf(Installed(map, r))) \in CandidatesOf[r]
        /\ IsTrue(map, At(r, FirstOf(Installed(map, r))))
    BY <2>1, <2>3 DEF CandidatesOf, Installed
  <2>5. Walk(map, r) = [kind |-> "Satisfied", by |-> At(r, FirstOf(Installed(map, r)))]
    BY <1>1 DEF Walk
  <2> QED BY <2>4, <2>5
<1>2. CASE Installed(map, r) = {}
  BY <1>2 DEF Walk
<1> QED BY <1>1, <1>2

\* The walk only reads the candidates of its requirement.
LEMMA WalkReadsCandidates ==
  ASSUME NEW r \in Requirement, NEW old, NEW map,
         \A v \in CandidatesOf[r] : old[v] = map[v]
  PROVE  Walk(old, r) = Walk(map, r)
<1>1. \A p \in Positions[r] : old[At(r, p)] = map[At(r, p)]
  BY DEF CandidatesOf
<1>2. Installed(old, r) = Installed(map, r)
  BY <1>1 DEF Installed, IsTrue
<1>3. Open(old, r) = Open(map, r)
  BY <1>1 DEF Open, IsUndecided
<1> QED BY <1>2, <1>3 DEF Walk

\* A condition only reads its own variables.
LEMMA ConditionReadsVariables ==
  ASSUME NEW c, NEW old, NEW map, \A l \in c.condition : old[l.variable] = map[l.variable]
  PROVE  ConditionHolds(old, c) <=> ConditionHolds(map, c)
  BY DEF ConditionHolds, IsTrue, IsFalse

----------------------------------------------------------------------------
(* The operations of the queue, field by field                              *)

\* enqueue_clause adds to the queue and to its hot part, and to nothing else.
LEMMA EnqueueFields ==
  ASSUME NEW k, Fields(k), NEW map, NEW ids
  PROVE  LET e == Enqueue(k, map, ids)
             awake == {i \in ids : IsTrue(map, k.clauses[i].parent)}
         IN /\ Fields(e)
            /\ e.clauses = k.clauses /\ e.states = k.states
            /\ e.registered = k.registered /\ e.hot_names = k.hot_names
            /\ e.queue = k.queue \cup awake
            /\ e.hot_queue = k.hot_queue \cup {i \in awake : k.clauses[i].hot}
<1> DEFINE awake == {i \in ids : IsTrue(map, k.clauses[i].parent)}
           hots == {i \in awake : k.clauses[i].hot}
           e == Enqueue(k, map, ids)
<1>1. e = [k EXCEPT !.queue = @ \cup awake, !.hot_queue = @ \cup hots]
  BY Zenon DEF Enqueue
<1> HIDE DEF e, awake, hots
<1>2. /\ Fields(e)
      /\ e.clauses = k.clauses /\ e.states = k.states
      /\ e.registered = k.registered /\ e.hot_names = k.hot_names
      /\ e.queue = k.queue \cup awake /\ e.hot_queue = k.hot_queue \cup hots
  BY <1>1 DEF Fields
<1> QED BY <1>2, Zenon DEF e, awake, hots

\* HotInLockstep of a queue record.
Hot(k) ==
  /\ \A i \in DOMAIN k.clauses :
       k.clauses[i].hot = (NamesOf(k.clauses[i].requirement) \cap k.hot_names # {})
  /\ k.hot_queue = {i \in k.queue : k.clauses[i].hot}

\* enqueue_clause keeps the hot queue in lockstep.
LEMMA EnqueueHot ==
  ASSUME NEW k, Fields(k), Hot(k), NEW map, NEW ids
  PROVE  Hot(Enqueue(k, map, ids))
<1> DEFINE e == Enqueue(k, map, ids)
           awake == {i \in ids : IsTrue(map, k.clauses[i].parent)}
<1>1. /\ e.clauses = k.clauses /\ e.hot_names = k.hot_names
      /\ e.queue = k.queue \cup awake
      /\ e.hot_queue = k.hot_queue \cup {i \in awake : k.clauses[i].hot}
  BY EnqueueFields
<1> HIDE DEF e, awake
<1>2. e.hot_queue = {i \in e.queue : e.clauses[i].hot}
  BY <1>1, Zenon DEF Hot
<1>3. \A i \in DOMAIN e.clauses :
        e.clauses[i].hot = (NamesOf(e.clauses[i].requirement) \cap e.hot_names # {})
  BY <1>1, Zenon DEF Hot
<1> QED BY <1>2, <1>3, Zenon DEF Hot, e

\* What route_touched leaves behind: some walks are forgotten, some clauses woken.
LEMMA RouteFields ==
  ASSUME NEW k, Fields(k), NEW map, NEW V
  PROVE  LET e == RouteTouched(k, map, V)
             broken == Broken(k, map, V)
             stale == broken \cup {r \in Touched(k, V) : k.states[r].kind = "Frontier"}
             woken == {i \in DOMAIN k.clauses :
                         \/ k.clauses[i].parent \in V
                         \/ k.clauses[i].requirement \in broken
                         \/ \E l \in k.clauses[i].condition : l.variable \in V}
         IN /\ Fields(e)
            /\ e.clauses = k.clauses /\ e.registered = k.registered
            /\ e.states = [r \in Requirement |-> IF r \in stale THEN Dirty ELSE k.states[r]]
            /\ e.queue = k.queue \cup {i \in woken : IsTrue(map, k.clauses[i].parent)}
<1> DEFINE broken == Broken(k, map, V)
           stale == broken \cup {r \in Touched(k, V) : k.states[r].kind = "Frontier"}
           woken == {i \in DOMAIN k.clauses :
                       \/ k.clauses[i].parent \in V
                       \/ k.clauses[i].requirement \in broken
                       \/ \E l \in k.clauses[i].condition : l.variable \in V}
           states == [r \in Requirement |-> IF r \in stale THEN Dirty ELSE k.states[r]]
           d == [k EXCEPT !.states = states]
           e == RouteTouched(k, map, V)
<1>1. e = Enqueue(d, map, woken)
  BY DEF RouteTouched
<1> HIDE DEF e, woken, states
<1>2. /\ Fields(d) /\ d.clauses = k.clauses /\ d.registered = k.registered
      /\ d.states = states /\ d.queue = k.queue
      /\ d.hot_queue = k.hot_queue /\ d.hot_names = k.hot_names
  BY DEF Fields
<1> HIDE DEF d
<1>3. /\ Fields(e)
      /\ e.clauses = k.clauses /\ e.registered = k.registered /\ e.states = states
      /\ e.queue = k.queue \cup {i \in woken : IsTrue(map, k.clauses[i].parent)}
  BY <1>1, <1>2, EnqueueFields
<1> QED BY <1>3 DEF e, woken, states

\* route_touched keeps the hot queue in lockstep.
LEMMA RouteHot ==
  ASSUME NEW k, Fields(k), Hot(k), NEW map, NEW V
  PROVE  Hot(RouteTouched(k, map, V))
<1>1. PICK states, woken :
        RouteTouched(k, map, V) = Enqueue([k EXCEPT !.states = states], map, woken)
  BY Zenon DEF RouteTouched
<1> DEFINE d == [k EXCEPT !.states = states]
<1>2. /\ Fields(d) /\ d.clauses = k.clauses /\ d.queue = k.queue
      /\ d.hot_queue = k.hot_queue /\ d.hot_names = k.hot_names
  BY DEF Fields
<1> HIDE DEF d
<1>3. Hot(d)
  BY <1>2, Zenon DEF Hot
<1>4. Hot(Enqueue(d, map, woken))
  BY <1>2, <1>3, EnqueueHot, Zenon
<1> QED BY <1>1, <1>4, Zenon DEF d

\* What inspecting any set of clauses leaves behind.
LEMMA InspectFields ==
  ASSUME NEW k, Fields(k), NEW map, NEW ids
  PROVE  LET e == AfterInspecting(k, map, ids)
             walked == {k.clauses[i].requirement : i \in {j \in ids : Active(k, map, j)}}
         IN /\ Fields(e)
            /\ e.clauses = k.clauses /\ e.registered = k.registered \cup walked
            /\ e.states = [r \in Requirement |->
                             IF r \in walked THEN EvalRequirement(k, map, r) ELSE k.states[r]]
            /\ e.queue = k.queue \ {i \in ids : ~Inspect(k, map, i)}
<1> DEFINE walked == {k.clauses[i].requirement : i \in {j \in ids : Active(k, map, j)}}
           out == {i \in ids : ~Inspect(k, map, i)}
           states == [r \in Requirement |->
                        IF r \in walked THEN EvalRequirement(k, map, r) ELSE k.states[r]]
           e == AfterInspecting(k, map, ids)
<1>1. e = [k EXCEPT !.states = states, !.registered = @ \cup walked,
                    !.queue = @ \ out, !.hot_queue = @ \ out]
  BY DEF AfterInspecting
<1> HIDE DEF e, walked, out, states
<1>2. /\ Fields(e) /\ e.clauses = k.clauses /\ e.registered = k.registered \cup walked
      /\ e.states = states /\ e.queue = k.queue \ out
      /\ e.hot_queue = k.hot_queue \ out /\ e.hot_names = k.hot_names
  BY <1>1 DEF Fields
<1> QED BY <1>2 DEF e, walked, out, states

\* inspect keeps the hot queue in lockstep.
LEMMA InspectHot ==
  ASSUME NEW k, Fields(k), Hot(k), NEW map, NEW ids
  PROVE  Hot(AfterInspecting(k, map, ids))
<1> DEFINE e == AfterInspecting(k, map, ids)
<1>1. PICK states, registered, out :
        e = [k EXCEPT !.states = states, !.registered = registered,
                      !.queue = @ \ out, !.hot_queue = @ \ out]
  BY Zenon DEF AfterInspecting
<1> HIDE DEF e
<1>2. /\ e.clauses = k.clauses /\ e.queue = k.queue \ out
      /\ e.hot_queue = k.hot_queue \ out /\ e.hot_names = k.hot_names
  BY <1>1 DEF Fields
<1>3. e.hot_queue = {i \in e.queue : e.clauses[i].hot}
  BY <1>2, Zenon DEF Hot
<1>4. \A i \in DOMAIN e.clauses :
        e.clauses[i].hot = (NamesOf(e.clauses[i].requirement) \cap e.hot_names # {})
  BY <1>2, Zenon DEF Hot
<1> QED BY <1>3, <1>4, Zenon DEF Hot, e

\* Neither route_touched nor inspect changes a clause or queues an unknown one.
LEMMA RouteKeeps ==
  ASSUME NEW k, Fields(k), NEW map, NEW V, k.queue \subseteq DOMAIN k.clauses
  PROVE  LET e == RouteTouched(k, map, V)
         IN Fields(e) /\ e.clauses = k.clauses /\ e.queue \subseteq DOMAIN e.clauses
<1> DEFINE e == RouteTouched(k, map, V)
           stale == Broken(k, map, V) \cup {r \in Touched(k, V) : k.states[r].kind = "Frontier"}
           woken == {i \in DOMAIN k.clauses :
                       \/ k.clauses[i].parent \in V
                       \/ k.clauses[i].requirement \in Broken(k, map, V)
                       \/ \E l \in k.clauses[i].condition : l.variable \in V}
<1>1. Fields(e)
  BY RouteFields, Zenon
<1>2. /\ e.clauses = k.clauses
      /\ e.states = [r \in Requirement |-> IF r \in stale THEN Dirty ELSE k.states[r]]
      /\ e.queue = k.queue \cup {i \in woken : IsTrue(map, k.clauses[i].parent)}
  BY RouteFields
<1> HIDE DEF e
<1> QED BY <1>1, <1>2 DEF e

\* The same for inspect.
LEMMA InspectKeeps ==
  ASSUME NEW k, Fields(k), NEW map, NEW ids
  PROVE  LET e == AfterInspecting(k, map, ids)
         IN Fields(e) /\ e.clauses = k.clauses /\ e.queue \subseteq k.queue
<1> DEFINE e == AfterInspecting(k, map, ids)
           walked == {k.clauses[i].requirement : i \in {j \in ids : Active(k, map, j)}}
<1>1. Fields(e)
  BY InspectFields, Zenon
<1>2. /\ e.clauses = k.clauses
      /\ e.states = [r \in Requirement |->
                       IF r \in walked THEN EvalRequirement(k, map, r) ELSE k.states[r]]
      /\ e.queue = k.queue \ {i \in ids : ~Inspect(k, map, i)}
  BY InspectFields
<1> HIDE DEF e
<1> QED BY <1>1, <1>2 DEF e

\* register_clause appends one clause; it is queued if its parent is installed.
LEMMA RegisterFields ==
  ASSUME NEW k, Fields(k), k.clauses \in Seq(Tracked), k.queue \subseteq DOMAIN k.clauses,
         NEW map, NEW c \in RequiresClause
  PROVE  LET e == RegisterClause(k, map, c)
             n == Len(k.clauses)
         IN /\ Fields(e)
            /\ e.clauses \in Seq(Tracked) /\ Len(e.clauses) = n + 1
            /\ \A i \in 1 .. n : e.clauses[i] = k.clauses[i]
            /\ e.clauses[n + 1].parent = c.parent
            /\ e.states = k.states /\ e.registered = k.registered
            /\ e.queue = k.queue \cup {i \in {n + 1} : IsTrue(map, c.parent)}
            /\ Hot(k) => Hot(e)
<1> DEFINE n == Len(k.clauses)
           hot == NamesOf(c.requirement) \cap k.hot_names # {}
           new == [parent |-> c.parent, requirement |-> c.requirement,
                   condition |-> c.condition, hot |-> hot]
           longer == Append(k.clauses, new)
           added == [k EXCEPT !.clauses = longer]
           ids == {Len(added.clauses)}
           e == RegisterClause(k, map, c)
<1>1. n \in Nat /\ DOMAIN k.clauses = 1 .. n
  OBVIOUS
<1>2. /\ c.parent \in Variable /\ c.requirement \in Requirement
      /\ c.condition \in SUBSET [variable : Variable, negate : BOOLEAN]
  BY DEF RequiresClause
<1>3. hot \in BOOLEAN
  BY Zenon
<1>4. e = Enqueue(added, map, ids)
  BY Zenon DEF RegisterClause
<1> HIDE DEF hot, e
<1>5. /\ new \in Tracked /\ new.parent = c.parent /\ new.requirement = c.requirement
  BY <1>2, <1>3 DEF Tracked
<1>6. new.hot = hot
  BY Zenon
<1> HIDE DEF new
<1>7. /\ longer \in Seq(Tracked) /\ Len(longer) = n + 1
      /\ \A i \in 1 .. n : longer[i] = k.clauses[i]
      /\ longer[n + 1] = new
  BY <1>1, <1>5, AppendProperties
<1> HIDE DEF longer
<1>8. /\ Fields(added) /\ added.clauses = longer
      /\ added.states = k.states /\ added.registered = k.registered
      /\ added.queue = k.queue /\ added.hot_queue = k.hot_queue
      /\ added.hot_names = k.hot_names
  BY DEF Fields
<1> HIDE DEF added, ids
<1>9. /\ added.clauses \in Seq(Tracked) /\ Len(added.clauses) = n + 1
      /\ \A i \in 1 .. n : added.clauses[i] = k.clauses[i]
      /\ added.clauses[n + 1] = new
  BY <1>7, <1>8
<1>10. Hot(k) => Hot(added)
  <2> SUFFICES ASSUME Hot(k) PROVE Hot(added)
    OBVIOUS
  <2>1. \A i \in DOMAIN added.clauses :
          added.clauses[i].hot
            = (NamesOf(added.clauses[i].requirement) \cap added.hot_names # {})
    <3> SUFFICES ASSUME NEW i \in DOMAIN added.clauses
                 PROVE  added.clauses[i].hot
                          = (NamesOf(added.clauses[i].requirement) \cap added.hot_names # {})
      OBVIOUS
    <3>1. i \in DOMAIN k.clauses \/ i = n + 1
      BY <1>1, <1>9
    <3>2. CASE i \in DOMAIN k.clauses
      <4>1. added.clauses[i] = k.clauses[i]
        BY <1>1, <1>9, <3>2
      <4> QED BY <1>8, <3>2, <4>1, Zenon DEF Hot
    <3>3. CASE i = n + 1
      <4>1. added.clauses[i] = new
        BY <1>9, <3>3
      <4> QED BY <1>5, <1>6, <1>8, <4>1, Zenon DEF hot
    <3> QED BY <3>1, <3>2, <3>3
  <2>2. \A i \in k.queue : added.clauses[i] = k.clauses[i]
    BY <1>1, <1>9
  <2>3. added.hot_queue = {i \in added.queue : added.clauses[i].hot}
    BY <1>8, <2>2, Zenon DEF Hot
  <2> QED BY <2>1, <2>3, Zenon DEF Hot
<1>11. /\ Fields(e) /\ e.clauses = added.clauses
       /\ e.states = k.states /\ e.registered = k.registered
       /\ e.queue = k.queue \cup {i \in ids : IsTrue(map, added.clauses[i].parent)}
  BY <1>4, <1>8, EnqueueFields
<1>12. e.queue = k.queue \cup {i \in {n + 1} : IsTrue(map, c.parent)}
  BY <1>5, <1>9, <1>11 DEF ids
<1>13. Hot(k) => Hot(e)
  BY <1>4, <1>8, <1>10, EnqueueHot
<1> QED BY <1>5, <1>9, <1>11, <1>12, <1>13 DEF e

\* mark_name_hot changes hot flags, the hot names and the hot queue, in lockstep.
LEMMA MarkHotFields ==
  ASSUME NEW k, Fields(k), k.clauses \in Seq(Tracked), k.queue \subseteq DOMAIN k.clauses,
         NEW names
  PROVE  LET e == MarkNamesHot(k, names)
         IN /\ Fields(e)
            /\ e.clauses \in Seq(Tracked) /\ DOMAIN e.clauses = DOMAIN k.clauses
            /\ \A i \in DOMAIN k.clauses :
                 /\ e.clauses[i].parent = k.clauses[i].parent
                 /\ e.clauses[i].requirement = k.clauses[i].requirement
                 /\ e.clauses[i].condition = k.clauses[i].condition
            /\ e.states = k.states /\ e.registered = k.registered /\ e.queue = k.queue
            /\ Hot(k) => Hot(e)
<1> DEFINE n == Len(k.clauses)
           ids == {i \in DOMAIN k.clauses :
                     NamesOf(k.clauses[i].requirement) \cap (names \ k.hot_names) # {}}
           marked == [i \in DOMAIN k.clauses |->
                        [k.clauses[i] EXCEPT !.hot = @ \/ i \in ids]]
           e == MarkNamesHot(k, names)
<1>1. e = [k EXCEPT !.hot_names = @ \cup names, !.clauses = marked,
                    !.hot_queue = @ \cup (ids \cap k.queue)]
  BY Zenon DEF MarkNamesHot
<1>2. n \in Nat /\ DOMAIN k.clauses = 1 .. n /\ \A i \in 1 .. n : k.clauses[i] \in Tracked
  BY ElementOfSeq
<1> HIDE DEF e, ids
<1>3. ASSUME NEW i \in DOMAIN k.clauses
      PROVE  /\ marked[i] \in Tracked
             /\ marked[i].parent = k.clauses[i].parent
             /\ marked[i].requirement = k.clauses[i].requirement
             /\ marked[i].condition = k.clauses[i].condition
             /\ marked[i].hot = (k.clauses[i].hot \/ i \in ids)
  <2> DEFINE flag == k.clauses[i].hot \/ i \in ids
  <2>1. k.clauses[i] \in Tracked
    BY <1>2
  <2>2. flag \in BOOLEAN
    BY Zenon
  <2>3. marked[i] = [k.clauses[i] EXCEPT !.hot = flag]
    BY Zenon
  <2> HIDE DEF flag, marked
  <2>4. /\ marked[i] \in Tracked
        /\ marked[i].parent = k.clauses[i].parent
        /\ marked[i].requirement = k.clauses[i].requirement
        /\ marked[i].condition = k.clauses[i].condition
        /\ marked[i].hot = flag
    BY <2>1, <2>2, <2>3 DEF Tracked
  <2> QED BY <2>4 DEF flag
<1>4. marked \in Seq(Tracked) /\ DOMAIN marked = DOMAIN k.clauses
  <2>1. DOMAIN marked = 1 .. n /\ \A i \in 1 .. n : marked[i] \in Tracked
    BY <1>2, <1>3
  <2>2. marked \in [1 .. n -> Tracked]
    BY <1>2, <1>3, Zenon
  <2> HIDE DEF marked
  <2> QED BY <1>2, <2>1, <2>2
<1> HIDE DEF marked
<1>5. /\ Fields(e) /\ e.clauses = marked /\ e.states = k.states
      /\ e.registered = k.registered /\ e.queue = k.queue
      /\ e.hot_names = k.hot_names \cup names
      /\ e.hot_queue = k.hot_queue \cup (ids \cap k.queue)
  BY <1>1 DEF Fields
<1>6. Hot(k) => Hot(e)
  <2> SUFFICES ASSUME Hot(k) PROVE Hot(e)
    OBVIOUS
  <2>1. \A i \in DOMAIN e.clauses :
          e.clauses[i].hot = (NamesOf(e.clauses[i].requirement) \cap e.hot_names # {})
    <3> SUFFICES ASSUME NEW i \in DOMAIN k.clauses
                 PROVE  marked[i].hot
                          = (NamesOf(marked[i].requirement) \cap (k.hot_names \cup names) # {})
      BY <1>4, <1>5, Zenon
    <3>1. k.clauses[i].hot = (NamesOf(k.clauses[i].requirement) \cap k.hot_names # {})
      BY Zenon DEF Hot
    <3>2. i \in ids <=> NamesOf(k.clauses[i].requirement) \cap (names \ k.hot_names) # {}
      BY Zenon DEF ids
    <3>3. (NamesOf(k.clauses[i].requirement) \cap (k.hot_names \cup names) # {})
            = (\/ NamesOf(k.clauses[i].requirement) \cap k.hot_names # {}
               \/ NamesOf(k.clauses[i].requirement) \cap (names \ k.hot_names) # {})
      BY Zenon
    <3> QED BY <1>3, <3>1, <3>2, <3>3, Zenon
  <2>2. e.hot_queue = {i \in e.queue : e.clauses[i].hot}
    <3>1. \A i \in k.queue : marked[i].hot = (k.clauses[i].hot \/ i \in ids)
      BY <1>3, Zenon
    <3> QED BY <1>5, <3>1, Zenon DEF Hot
  <2> QED BY <2>1, <2>2, Zenon DEF Hot
<1> QED BY <1>3, <1>4, <1>5, <1>6 DEF e

----------------------------------------------------------------------------
(* Caches and sleepers through a sync and a decision                        *)

\* A registered clause names a variable, a requirement and condition variables.
LEMMA ClauseType ==
  ASSUME NEW k, k.clauses \in Seq(Tracked), NEW i \in DOMAIN k.clauses
  PROVE  /\ k.clauses[i].parent \in Variable
         /\ k.clauses[i].requirement \in Requirement
         /\ \A l \in k.clauses[i].condition : l.variable \in Variable
<1>1. k.clauses[i] \in Tracked
  BY ElementOfSeq
<1> QED BY <1>1 DEF Tracked

\* sync leaves no stale walk: the ones whose candidates changed are forgotten.
LEMMA RouteCached ==
  ASSUME NEW k, Fields(k), NEW old, NEW map, NEW V, Cached(k, old),
         \A v \in Variable : v \notin V => old[v] = map[v]
  PROVE  Cached(RouteTouched(k, map, V), map)
<1> DEFINE e == RouteTouched(k, map, V)
           broken == Broken(k, map, V)
           stale == broken \cup {r \in Touched(k, V) : k.states[r].kind = "Frontier"}
<1>1. /\ e.registered = k.registered
      /\ e.states = [r \in Requirement |-> IF r \in stale THEN Dirty ELSE k.states[r]]
  BY RouteFields
<1> HIDE DEF e
<1> SUFFICES ASSUME NEW r \in Requirement, e.states[r] # Dirty
             PROVE  \/ /\ r \in e.registered
                       /\ e.states[r].kind = "Satisfied"
                       /\ e.states[r].by \in CandidatesOf[r] /\ IsTrue(map, e.states[r].by)
                    \/ /\ r \in e.registered
                       /\ e.states[r].kind = "Frontier" /\ e.states[r] = Walk(map, r)
  BY DEF Cached, e
<1>2. r \notin stale /\ e.states[r] = k.states[r]
  BY <1>1
<1>3. CandidatesOf[r] \subseteq Variable
  BY CandidatesType
<1>4. CASE /\ r \in k.registered /\ k.states[r].kind = "Satisfied"
           /\ k.states[r].by \in CandidatesOf[r] /\ IsTrue(old, k.states[r].by)
  <2>1. IsTrue(map, k.states[r].by)
    <3>1. CASE k.states[r].by \in V
      <4>1. r \in Touched(k, V)
        BY <1>4, <3>1 DEF Touched
      <4> QED BY <1>2, <1>4, <4>1 DEF Broken
    <3>2. CASE k.states[r].by \notin V
      BY <1>3, <1>4, <3>2 DEF IsTrue
    <3> QED BY <3>1, <3>2
  <2> QED BY <1>1, <1>2, <1>4, <2>1
<1>5. CASE /\ r \in k.registered
           /\ k.states[r].kind = "Frontier" /\ k.states[r] = Walk(old, r)
  <2>1. r \notin Touched(k, V)
    BY <1>2, <1>5
  <2>2. CandidatesOf[r] \cap V = {}
    BY <1>5, <2>1 DEF Touched
  <2>3. \A v \in CandidatesOf[r] : old[v] = map[v]
    BY <1>3, <2>2
  <2>4. Walk(old, r) = Walk(map, r)
    BY <2>3, WalkReadsCandidates
  <2> QED BY <1>1, <1>2, <1>5, <2>4
<1> QED BY <1>2, <1>4, <1>5 DEF Cached

\* sync leaves no sleeper without a reason: a clause whose reason may be gone is
\* woken, or its parent is not installed.
LEMMA RouteIdle ==
  ASSUME NEW k, Fields(k), k.clauses \in Seq(Tracked), NEW old, NEW map, NEW V, NEW U,
         U \subseteq V, \A v \in Variable : v \notin V => old[v] = map[v],
         \A i \in DOMAIN k.clauses \ k.queue : Idle(k, old, i) \/ k.clauses[i].parent \in U
  PROVE  LET e == RouteTouched(k, map, V)
         IN \A i \in DOMAIN e.clauses \ e.queue : Idle(e, map, i)
<1> DEFINE e == RouteTouched(k, map, V)
           broken == Broken(k, map, V)
           stale == broken \cup {r \in Touched(k, V) : k.states[r].kind = "Frontier"}
           woken == {i \in DOMAIN k.clauses :
                       \/ k.clauses[i].parent \in V
                       \/ k.clauses[i].requirement \in broken
                       \/ \E l \in k.clauses[i].condition : l.variable \in V}
<1>1. /\ e.clauses = k.clauses
      /\ e.states = [r \in Requirement |-> IF r \in stale THEN Dirty ELSE k.states[r]]
      /\ e.queue = k.queue \cup {i \in woken : IsTrue(map, k.clauses[i].parent)}
  BY RouteFields
<1> HIDE DEF e
<1> SUFFICES ASSUME NEW i \in DOMAIN k.clauses \ k.queue, i \notin e.queue,
                    IsTrue(map, k.clauses[i].parent), ConditionHolds(map, k.clauses[i])
             PROVE  e.states[k.clauses[i].requirement].kind = "Satisfied"
  BY <1>1 DEF Idle, e
<1> DEFINE r == k.clauses[i].requirement
<1>2. /\ k.clauses[i].parent \in Variable /\ r \in Requirement
      /\ \A l \in k.clauses[i].condition : l.variable \in Variable
  BY ClauseType
<1>3. i \notin woken
  BY <1>1
<1>4. /\ k.clauses[i].parent \notin V /\ r \notin broken
      /\ \A l \in k.clauses[i].condition : l.variable \notin V
  BY <1>3
<1>5. IsTrue(old, k.clauses[i].parent)
  BY <1>2, <1>4 DEF IsTrue
<1>6. ConditionHolds(old, k.clauses[i])
  <2>1. \A l \in k.clauses[i].condition : old[l.variable] = map[l.variable]
    BY <1>2, <1>4
  <2> QED BY <2>1, ConditionReadsVariables
<1>7. k.states[r].kind = "Satisfied"
  BY <1>4, <1>5, <1>6 DEF Idle
<1>8. r \notin stale
  BY <1>4, <1>7
<1> QED BY <1>1, <1>2, <1>7, <1>8

\* eval_requirement answers what a fresh walk may answer.
LEMMA EvalAnswers ==
  ASSUME NEW k, NEW map, Cached(k, map), NEW r \in Requirement
  PROVE  \/ /\ EvalRequirement(k, map, r).kind = "Satisfied"
            /\ EvalRequirement(k, map, r).by \in CandidatesOf[r]
            /\ IsTrue(map, EvalRequirement(k, map, r).by)
         \/ /\ EvalRequirement(k, map, r).kind = "Frontier"
            /\ EvalRequirement(k, map, r) = Walk(map, r)
<1>1. CASE k.states[r] = Dirty
  <2>1. EvalRequirement(k, map, r) = Walk(map, r)
    BY <1>1 DEF EvalRequirement
  <2> QED BY <2>1, WalkAnswers
<1>2. CASE k.states[r] # Dirty
  <2>1. EvalRequirement(k, map, r) = k.states[r]
    BY <1>2 DEF EvalRequirement
  <2> QED BY <1>2, <2>1 DEF Cached
<1> QED BY <1>1, <1>2

\* inspect caches what eval_requirement answers.
LEMMA InspectCached ==
  ASSUME NEW k, Fields(k), NEW map, NEW ids, Cached(k, map)
  PROVE  Cached(AfterInspecting(k, map, ids), map)
<1> DEFINE e == AfterInspecting(k, map, ids)
           walked == {k.clauses[i].requirement : i \in {j \in ids : Active(k, map, j)}}
<1>1. /\ e.registered = k.registered \cup walked
      /\ e.states = [r \in Requirement |->
                       IF r \in walked THEN EvalRequirement(k, map, r) ELSE k.states[r]]
  BY InspectFields
<1> HIDE DEF e, walked
<1> SUFFICES ASSUME NEW r \in Requirement
             PROVE  \/ e.states[r] = Dirty
                    \/ /\ r \in e.registered
                       /\ e.states[r].kind = "Satisfied"
                       /\ e.states[r].by \in CandidatesOf[r] /\ IsTrue(map, e.states[r].by)
                    \/ /\ r \in e.registered
                       /\ e.states[r].kind = "Frontier" /\ e.states[r] = Walk(map, r)
  BY DEF Cached, e
<1>2. CASE r \in walked
  <2>1. e.states[r] = EvalRequirement(k, map, r) /\ r \in e.registered
    BY <1>1, <1>2
  <2> QED BY <2>1, EvalAnswers
<1>3. CASE r \notin walked
  <2>1. e.states[r] = k.states[r] /\ (r \in k.registered => r \in e.registered)
    BY <1>1, <1>3
  <2> QED BY <2>1 DEF Cached
<1> QED BY <1>2, <1>3

\* inspect only dequeues a clause that has a reason to sleep.
LEMMA InspectIdle ==
  ASSUME NEW k, Fields(k), k.clauses \in Seq(Tracked), NEW map, NEW ids, Cached(k, map),
         \A i \in DOMAIN k.clauses \ k.queue : Idle(k, map, i)
  PROVE  LET e == AfterInspecting(k, map, ids)
         IN \A i \in DOMAIN e.clauses \ e.queue : Idle(e, map, i)
<1> DEFINE e == AfterInspecting(k, map, ids)
           walked == {k.clauses[i].requirement : i \in {j \in ids : Active(k, map, j)}}
<1>1. /\ e.clauses = k.clauses
      /\ e.states = [r \in Requirement |->
                       IF r \in walked THEN EvalRequirement(k, map, r) ELSE k.states[r]]
      /\ e.queue = k.queue \ {i \in ids : ~Inspect(k, map, i)}
  BY InspectFields
<1> HIDE DEF e
<1> SUFFICES ASSUME NEW i \in DOMAIN k.clauses, i \notin e.queue,
                    IsTrue(map, k.clauses[i].parent), ConditionHolds(map, k.clauses[i])
             PROVE  e.states[k.clauses[i].requirement].kind = "Satisfied"
  BY <1>1 DEF Idle, e
<1> DEFINE r == k.clauses[i].requirement
<1>2. r \in Requirement
  BY ClauseType
<1>3. CASE i \notin k.queue
  <2>1. k.states[r].kind = "Satisfied"
    BY <1>3 DEF Idle
  <2>2. EvalRequirement(k, map, r) = k.states[r]
    BY <2>1 DEF EvalRequirement, Dirty
  <2> QED BY <1>1, <1>2, <2>1, <2>2
<1>4. CASE i \in k.queue
  <2>1. i \in ids /\ ~Inspect(k, map, i)
    BY <1>1, <1>4
  <2>2. Active(k, map, i)
    BY DEF Active
  <2>3. EvalRequirement(k, map, r).kind # "Frontier"
    BY <2>1, <2>2 DEF Inspect
  <2>4. EvalRequirement(k, map, r).kind = "Satisfied"
    BY <1>2, <2>3, EvalAnswers
  <2>5. r \in walked
    BY <2>1, <2>2
  <2> QED BY <1>1, <1>2, <2>4, <2>5
<1> QED BY <1>3, <1>4

----------------------------------------------------------------------------
(* The invariant is inductive                                               *)

\* A step that only moves the trail and keeps every snapshot keeps the invariant:
\* more variables may be undone, never fewer.
LEMMA TrailStep ==
  ASSUME Inv, InStep(t', mirror), t'.sync_floor <= t.sync_floor,
         \A old \in Assignment : Snapshot(t, mirror, old) => Snapshot(t', mirror, old),
         UNCHANGED <<mirror, q, encoding>>
  PROVE  Inv'
<1>1. Typed' /\ HotInLockstep' /\ InStep(t', mirror')
  BY DEF Inv, Typed, HotInLockstep
<1>2. PICK old \in Assignment : Explained(old)
  BY DEF Inv
<1>3. Undone(t, mirror) \subseteq Undone(t', mirror)
  <2>1. t.sync_floor \in Nat /\ Len(mirror) \in Nat
    BY StepFacts DEF Inv
  <2>2. t'.sync_floor \in Nat
    BY StepFacts
  <2> QED BY <2>1, <2>2 DEF Undone
<1>4. /\ Snapshot(t', mirror', old) /\ Cached(q', old)
      /\ \A i \in DOMAIN q'.clauses \ q'.queue :
           Idle(q', old, i) \/ q'.clauses[i].parent \in Undone(t', mirror')
  BY <1>2, <1>3 DEF Explained
<1>5. Explained(old)'
  BY <1>4 DEF Explained
<1> QED BY <1>1, <1>5 DEF Inv

\* try_add_decision.
LEMMA PushStep ==
  ASSUME Inv, NEW d \in Decision, Push(d)
  PROVE  Inv'
<1>1. /\ t' = MarkPropagated(TryAddDecision(t, d, 1)) /\ IsUndecided(t.map, d.variable)
      /\ UNCHANGED <<mirror, q, encoding>>
  BY DEF Push
<1>2. InStep(t, mirror)
  BY DEF Inv
<1>3. /\ InStep(t', mirror) /\ t'.sync_floor = t.sync_floor
      /\ \A old \in Assignment : Snapshot(t, mirror, old) => Snapshot(t', mirror, old)
  BY <1>1, <1>2, PushInStep
<1>4. t'.sync_floor <= t.sync_floor
  BY <1>2, <1>3, StepFacts
<1> QED BY <1>1, <1>3, <1>4, TrailStep

\* undo_last.
LEMMA PopStep ==
  ASSUME Inv, Pop
  PROVE  Inv'
<1>1. InStep(t, mirror)
  BY DEF Inv
<1>2. Len(t.stack) - 1 \in 0 .. Len(t.stack)
  BY <1>1, StepFacts DEF Pop, UndoLastPanics
<1>3. t' = CutTo(t, Len(t.stack) - 1) /\ UNCHANGED <<mirror, q, encoding>>
  BY DEF Pop, UndoLast
<1>4. /\ InStep(t', mirror) /\ t'.sync_floor <= t.sync_floor
      /\ \A old \in Assignment : Snapshot(t, mirror, old) => Snapshot(t', mirror, old)
  BY <1>1, <1>2, <1>3, CutInStep
<1> QED BY <1>3, <1>4, TrailStep

\* undo_until(0).
LEMMA RestartStep ==
  ASSUME Inv, Restart
  PROVE  Inv'
<1>1. t' = Clear /\ UNCHANGED <<mirror, q, encoding>>
  BY DEF Restart, UndoUntil
<1>2. /\ InStep(t', mirror) /\ t'.sync_floor <= t.sync_floor
      /\ \A old \in Assignment : Snapshot(t, mirror, old) => Snapshot(t', mirror, old)
  BY <1>1, ClearInStep DEF Inv
<1> QED BY <1>1, <1>2, TrailStep

\* register_clause: a clause that is not queued at once has a parent that is not
\* installed, and that was not installed at the previous sync unless it was popped.
LEMMA RegisterStep ==
  ASSUME Inv, AddRequiresClause
  PROVE  Inv'
<1> DEFINE c == Head(encoding)
           n == Len(q.clauses)
<1>1. /\ q' = RegisterClause(q, t.map, c) /\ encoding # << >> /\ encoding' = Tail(encoding)
      /\ UNCHANGED <<t, mirror>>
  BY DEF AddRequiresClause
<1>2. /\ Fields(q) /\ q.clauses \in Seq(Tracked) /\ q.queue \subseteq DOMAIN q.clauses
      /\ encoding \in Seq(RequiresClause) /\ InStep(t, mirror) /\ Hot(q)
  BY DEF Inv, Typed, HotInLockstep, Hot
<1>3. c \in RequiresClause /\ encoding' \in Seq(RequiresClause)
  BY <1>1, <1>2, HeadTailProperties
<1>4. /\ Fields(q') /\ q'.clauses \in Seq(Tracked) /\ Len(q'.clauses) = n + 1
      /\ \A i \in 1 .. n : q'.clauses[i] = q.clauses[i]
      /\ q'.clauses[n + 1].parent = c.parent
      /\ q'.states = q.states /\ q'.registered = q.registered
      /\ q'.queue = q.queue \cup {i \in {n + 1} : IsTrue(t.map, c.parent)}
      /\ Hot(q')
  BY <1>1, <1>2, <1>3, RegisterFields
<1>5. n \in Nat /\ DOMAIN q.clauses = 1 .. n /\ DOMAIN q'.clauses = 1 .. n + 1
  BY <1>2, <1>4
<1>6. Typed' /\ HotInLockstep' /\ InStep(t', mirror')
  <2>1. q'.queue \subseteq DOMAIN q'.clauses
    BY <1>2, <1>4, <1>5
  <2>2. HotInLockstep'
    BY <1>4, Zenon DEF HotInLockstep, Hot
  <2> QED BY <1>1, <1>2, <1>3, <1>4, <2>1, <2>2 DEF Typed
<1>7. PICK old \in Assignment : Explained(old)
  BY DEF Inv
<1>8. Snapshot(t', mirror', old) /\ Cached(q', old)
  BY <1>1, <1>4, <1>7 DEF Explained, Cached
<1>9. ASSUME NEW i \in DOMAIN q'.clauses \ q'.queue
      PROVE  Idle(q', old, i) \/ q'.clauses[i].parent \in Undone(t', mirror')
  <2>1. CASE i \in 1 .. n
    <3>1. q'.clauses[i] = q.clauses[i] /\ i \in DOMAIN q.clauses \ q.queue
      BY <1>4, <1>5, <1>9, <2>1
    <3>2. Idle(q, old, i) \/ q.clauses[i].parent \in Undone(t, mirror)
      BY <1>7, <3>1 DEF Explained
    <3> QED BY <1>1, <1>4, <3>1, <3>2 DEF Idle
  <2>2. CASE i = n + 1
    <3>1. ~IsTrue(t.map, c.parent) /\ c.parent \in Variable
      BY <1>3, <1>4, <1>9, <2>2 DEF RequiresClause
    <3>2. CASE c.parent \in Undone(t, mirror)
      BY <1>1, <1>4, <2>2, <3>2
    <3>3. CASE c.parent \notin Undone(t, mirror)
      <4>1. ~IsTrue(old, c.parent)
        BY <1>2, <1>7, <3>1, <3>3, NotInstalledBefore DEF Explained
      <4> QED BY <1>4, <2>2, <4>1 DEF Idle
    <3> QED BY <3>2, <3>3
  <2> QED BY <1>5, <1>9, <2>1, <2>2
<1>10. Explained(old)'
  BY <1>8, <1>9 DEF Explained
<1> QED BY <1>6, <1>10 DEF Inv

\* The bumps of a learnt clause move clauses between hot and cold only.
LEMMA LearnStep ==
  ASSUME Inv, NEW names, LearnClause(names)
  PROVE  Inv'
<1>1. q' = MarkNamesHot(q, ToSet(names)) /\ UNCHANGED <<t, mirror, encoding>>
  BY DEF LearnClause
<1>2. /\ Fields(q) /\ q.clauses \in Seq(Tracked) /\ q.queue \subseteq DOMAIN q.clauses
      /\ encoding \in Seq(RequiresClause) /\ InStep(t, mirror) /\ Hot(q)
  BY DEF Inv, Typed, HotInLockstep, Hot
<1>3. /\ Fields(q') /\ q'.clauses \in Seq(Tracked) /\ DOMAIN q'.clauses = DOMAIN q.clauses
      /\ \A i \in DOMAIN q.clauses :
           /\ q'.clauses[i].parent = q.clauses[i].parent
           /\ q'.clauses[i].requirement = q.clauses[i].requirement
           /\ q'.clauses[i].condition = q.clauses[i].condition
      /\ q'.states = q.states /\ q'.registered = q.registered /\ q'.queue = q.queue
      /\ Hot(q')
  BY <1>1, <1>2, MarkHotFields
<1>4. Typed' /\ HotInLockstep' /\ InStep(t', mirror')
  <2>1. HotInLockstep'
    BY <1>3, Zenon DEF HotInLockstep, Hot
  <2> QED BY <1>1, <1>2, <1>3, <2>1 DEF Typed
<1>5. PICK old \in Assignment : Explained(old)
  BY DEF Inv
<1>6. Snapshot(t', mirror', old) /\ Cached(q', old)
  BY <1>1, <1>3, <1>5 DEF Explained, Cached
<1>7. ASSUME NEW i \in DOMAIN q'.clauses \ q'.queue
      PROVE  Idle(q', old, i) \/ q'.clauses[i].parent \in Undone(t', mirror')
  <2>1. i \in DOMAIN q.clauses \ q.queue
    BY <1>3, <1>7
  <2>2. Idle(q, old, i) \/ q.clauses[i].parent \in Undone(t, mirror)
    BY <1>5, <2>1 DEF Explained
  <2>3. ConditionHolds(old, q'.clauses[i]) <=> ConditionHolds(old, q.clauses[i])
    BY <1>3, <2>1, Zenon DEF ConditionHolds
  <2> QED BY <1>1, <1>3, <2>1, <2>2, <2>3 DEF Idle
<1>8. Explained(old)'
  BY <1>6, <1>7 DEF Explained
<1> QED BY <1>4, <1>8 DEF Inv

\* decide: after the sync the current assignment explains everything, and what
\* next_decision inspects keeps it so, whichever clauses it inspects.
LEMMA DecideStep ==
  ASSUME Inv, Decide
  PROVE  Inv'
<1> DEFINE V == Trail!Routed(t.sync_floor)
           k == RouteTouched(q, t.map, V)
<1>1. /\ q' = NextDecision(k, t.map).queue
      /\ mirror' = Trail!SyncedMirror(t.sync_floor) /\ t' = TakeSyncFloor(t)
      /\ UNCHANGED encoding
  BY DEF Decide
<1>2. /\ Fields(q) /\ q.clauses \in Seq(Tracked) /\ q.queue \subseteq DOMAIN q.clauses
      /\ encoding \in Seq(RequiresClause) /\ InStep(t, mirror)
  BY DEF Inv, Typed
<1>3. PICK old \in Assignment : Explained(old)
  BY DEF Inv
<1>4. \A v \in Variable : v \notin V => old[v] = t.map[v]
  BY <1>2, <1>3, UnroutedKeepsValue DEF Explained
<1>5. Undone(t, mirror) \subseteq V
  BY DEF Undone, Trail!Routed
<1> HIDE DEF V
<1>6. Fields(k) /\ k.clauses = q.clauses /\ k.queue \subseteq DOMAIN k.clauses
  BY <1>2, RouteKeeps
<1>7. Cached(k, t.map)
  BY <1>2, <1>3, <1>4, RouteCached DEF Explained
<1>8. \A i \in DOMAIN k.clauses \ k.queue : Idle(k, t.map, i)
  BY <1>2, <1>3, <1>4, <1>5, RouteIdle DEF Explained
<1> HIDE DEF k
<1>9. PICK ids : q' = AfterInspecting(k, t.map, ids)
  BY <1>1 DEF NextDecision
<1>10. Fields(q') /\ q'.clauses = k.clauses /\ q'.queue \subseteq k.queue
  BY <1>6, <1>9, InspectKeeps
<1>11. Cached(q', t.map)
  BY <1>6, <1>7, <1>9, InspectCached
<1>12. \A i \in DOMAIN q'.clauses \ q'.queue : Idle(q', t.map, i)
  BY <1>2, <1>6, <1>7, <1>8, <1>9, InspectIdle
<1>13. InStep(t', mirror') /\ Snapshot(t', mirror', t.map)
  BY <1>1, <1>2, SyncInStep
<1>14. Typed' /\ HotInLockstep'
  <2>1. Hot(q)
    BY Zenon DEF Inv, HotInLockstep, Hot
  <2>2. Hot(k)
    BY <1>2, <2>1, RouteHot, Zenon DEF k
  <2>3. Hot(q')
    BY <1>6, <1>9, <2>2, InspectHot, Zenon
  <2>4. HotInLockstep'
    BY <2>3, Zenon DEF HotInLockstep, Hot
  <2>5. Typed'
    BY <1>1, <1>2, <1>6, <1>10 DEF Typed
  <2> QED BY <2>4, <2>5
<1>15. PICK now \in Assignment : now = t.map
  BY <1>2 DEF InStep
<1>16. Explained(now)'
  BY <1>11, <1>12, <1>13, <1>15 DEF Explained
<1> QED BY <1>13, <1>14, <1>16 DEF Inv

\* The invariant holds initially: nothing is registered and nothing decided.
LEMMA InitInv == Init => Inv
<1> SUFFICES ASSUME Init PROVE Inv
  OBVIOUS
<1>1. /\ t = Clear /\ mirror = << >> /\ encoding \in Encodings
      /\ q = [clauses |-> << >>, queue |-> {}, hot_queue |-> {}, hot_names |-> {},
              states |-> [r \in Requirement |-> Dirty], registered |-> {}]
  BY DEF Init
<1>2. /\ t \in Tracker /\ t.stack = << >> /\ t.sync_floor = 0
      /\ \A v \in Variable : t.map[v] = 0
  BY <1>1, ClearProperties
<1>3. /\ q.clauses = << >> /\ q.queue = {} /\ q.hot_queue = {}
      /\ \A r \in Requirement : q.states[r] = Dirty
  BY <1>1
<1>4. DOMAIN q.clauses = {} /\ q.clauses \in Seq(Tracked)
  BY <1>3
<1>5. Typed
  <2>1. encoding \in Seq(RequiresClause)
    BY <1>1, DecideQueueAssumption
  <2>2. Fields(q)
    BY <1>1 DEF Fields
  <2> QED BY <1>3, <1>4, <2>1, <2>2 DEF Typed
<1>6. HotInLockstep
  BY <1>3, <1>4 DEF HotInLockstep
<1>7. t.map \in Assignment
  <2>1. t.map \in [Variable -> Int]
    BY <1>2 DEF Tracker
  <2> QED BY <1>2, <2>1 DEF Assignment
<1>8. InStep(t, mirror)
  <2>1. Len(t.stack) = 0 /\ mirror \in Seq(Variable) /\ Len(mirror) = 0
    BY <1>1, <1>2
  <2>2. Consistent(t)
    BY <1>2, <2>1 DEF Consistent, IsUndecided
  <2> QED BY <1>2, <1>7, <2>1, <2>2 DEF InStep
<1>9. Explained(t.map)
  <2>1. Snapshot(t, mirror, t.map)
    BY <1>2, <1>7 DEF Snapshot
  <2>2. Cached(q, t.map)
    BY <1>3 DEF Cached
  <2> QED BY <1>4, <2>1, <2>2 DEF Explained
<1> QED BY <1>5, <1>6, <1>7, <1>8, <1>9 DEF Inv

\* Every step keeps the invariant.
LEMMA NextInv == Inv /\ [Next]_vars => Inv'
<1> SUFFICES ASSUME Inv, [Next]_vars PROVE Inv'
  OBVIOUS
<1>1. CASE \E d \in Decision : Push(d)
  BY <1>1, PushStep
<1>2. CASE Pop
  BY <1>2, PopStep
<1>3. CASE Restart
  BY <1>3, RestartStep
<1>4. CASE AddRequiresClause
  BY <1>4, RegisterStep
<1>5. CASE \E names \in BoundedSeq(Name, MaxBumps) : LearnClause(names)
  BY <1>5, LearnStep
<1>6. CASE Decide
  BY <1>6, DecideStep
<1>7. CASE UNCHANGED vars
  <2>1. UNCHANGED <<t, mirror, q, encoding>>
    BY <1>7 DEF vars
  <2>2. Typed' /\ HotInLockstep' /\ InStep(t', mirror')
    BY <2>1 DEF Inv, Typed, HotInLockstep
  <2>3. PICK old \in Assignment : Explained(old)
    BY DEF Inv
  <2>4. Explained(old)'
    BY <2>1, <2>3 DEF Explained
  <2> QED BY <2>2, <2>4 DEF Inv
<1> QED BY <1>1, <1>2, <1>3, <1>4, <1>5, <1>6, <1>7 DEF Next

\* The invariant holds in every reachable state.
LEMMA InvAlways == Spec => []Inv
  BY InitInv, NextInv, PTL DEF Spec

----------------------------------------------------------------------------
(* The order of the clauses                                                 *)

\* A function on 1 .. m is a sequence.
LEMMA IsSequence ==
  ASSUME NEW m \in Nat, NEW s, s = [l \in 1 .. m |-> s[l]], NEW X, \A l \in 1 .. m : s[l] \in X
  PROVE  s \in Seq(X) /\ Len(s) = m /\ DOMAIN s = 1 .. m
<1>1. s \in [1 .. m -> X] /\ DOMAIN s = 1 .. m
  OBVIOUS
<1>2. s \in Seq(X)
  BY <1>1, SeqDef
<1>3. Len(s) \in Nat /\ DOMAIN s = 1 .. Len(s)
  BY <1>2, LenProperties
<1> QED BY <1>1, <1>2, <1>3

\* s is r with one element more, x.
Longer(m, r, s, x) ==
  /\ r = [l \in 1 .. m |-> r[l]] /\ s = [l \in 1 .. m + 1 |-> s[l]]
  /\ \A l \in 1 .. m : s[l] = r[l]
  /\ s[m + 1] = x

\* With an element at its end it is appended to,
LEMMA IsAppend ==
  ASSUME NEW m \in Nat, NEW r, NEW s, NEW x, Longer(m, r, s, x)
  PROVE  s = Append(r, x)
<1>0. /\ r = [l \in 1 .. m |-> r[l]] /\ s = [l \in 1 .. m + 1 |-> s[l]]
      /\ \A l \in 1 .. m : s[l] = r[l]
      /\ s[m + 1] = x
  BY DEF Longer
<1> DEFINE X == {r[l] : l \in 1 .. m} \cup {x}
           a == Append(r, x)
<1>1. r \in Seq(X) /\ Len(r) = m
  <2>1. \A l \in 1 .. m : r[l] \in X
    OBVIOUS
  <2> HIDE DEF X
  <2> QED BY <1>0, <2>1, IsSequence
<1>2. s \in Seq(X) /\ Len(s) = m + 1
  <2>1. \A l \in 1 .. m + 1 : s[l] \in X
    <3>1. \A l \in 1 .. m + 1 : l = m + 1 \/ l \in 1 .. m
      OBVIOUS
    <3> QED BY <1>0, <3>1
  <2>2. m + 1 \in Nat
    OBVIOUS
  <2> HIDE DEF X
  <2> QED BY <1>0, <2>1, <2>2, IsSequence
<1>3. x \in X
  OBVIOUS
<1> HIDE DEF X
<1>4. /\ a \in Seq(X) /\ Len(a) = m + 1
      /\ \A l \in 1 .. m : a[l] = r[l]
      /\ a[m + 1] = x
  BY <1>1, <1>3, AppendProperties
<1>5. \A l \in 1 .. m + 1 : s[l] = a[l]
  <2>1. \A l \in 1 .. m + 1 : l = m + 1 \/ l \in 1 .. m
    OBVIOUS
  <2> HIDE DEF a
  <2> QED BY <1>0, <1>4, <2>1
<1> HIDE DEF a
<1>6. s = a
  BY <1>2, <1>4, <1>5, SeqEqual
<1> QED BY <1>6 DEF a

\* and with an element in front the shorter one is its tail.
LEMMA IsTail ==
  ASSUME NEW m \in Nat, NEW r, NEW s, r = [l \in 1 .. m |-> r[l]],
         s = [l \in 1 .. m + 1 |-> s[l]], \A l \in 1 .. m : s[l + 1] = r[l]
  PROVE  s # << >> /\ Tail(s) = r
<1> DEFINE X == {s[l] : l \in 1 .. m + 1}
           z == Tail(s)
<1>1. s \in Seq(X) /\ Len(s) = m + 1
  <2>1. \A l \in 1 .. m + 1 : s[l] \in X
    OBVIOUS
  <2>2. m + 1 \in Nat
    OBVIOUS
  <2> HIDE DEF X
  <2> QED BY <2>1, <2>2, IsSequence
<1>2. r \in Seq(X) /\ Len(r) = m
  <2>1. \A l \in 1 .. m : r[l] \in X
    <3> SUFFICES ASSUME NEW l \in 1 .. m PROVE r[l] \in X
      OBVIOUS
    <3>1. l + 1 \in 1 .. m + 1 /\ r[l] = s[l + 1]
      OBVIOUS
    <3> QED BY <3>1
  <2> HIDE DEF X
  <2> QED BY <2>1, IsSequence
<1> HIDE DEF X
<1>3. s # << >>
  BY <1>1, EmptySeq
<1>4. /\ z \in Seq(X) /\ Len(z) = Len(s) - 1
      /\ \A l \in 1 .. Len(z) : z[l] = s[l + 1]
  BY <1>1, <1>3, HeadTailProperties
<1> HIDE DEF z
<1>6. Len(z) = m /\ \A l \in 1 .. m : z[l] = r[l]
  <2>1. Len(z) = m
    <3> DEFINE a == Len(s)
    <3>1. a = m + 1 /\ Len(z) = a - 1
      BY <1>1, <1>4
    <3> HIDE DEF a
    <3> QED BY <3>1
  <2>2. \A l \in 1 .. m : z[l] = s[l + 1]
    BY <1>4, <2>1
  <2> QED BY <2>1, <2>2
<1>5. z = r
  BY <1>2, <1>4, <1>6, SeqEqual
<1> QED BY <1>3, <1>5 DEF z

\* The position of a parent is a position.
LEMMA ParentPositionType ==
  ASSUME NEW k, NEW i \in Nat \ {0}
  PROVE  ParentPosition(k, i) \in 1 .. i
<1> DEFINE Same == {m \in 1 .. i : k.clauses[m].parent = k.clauses[i].parent}
<1>1. Same \subseteq Nat /\ Same # {}
  <2>1. i \in Same
    OBVIOUS
  <2> QED BY <2>1
<1>2. PICK j \in Same : \A m \in Same : j <= m
  <2> HIDE DEF Same
  <2> QED BY <1>1, LeastNatural
<1>3. \A m \in 1 .. j - 1 : k.clauses[m].parent # k.clauses[i].parent
  <2> SUFFICES ASSUME NEW m \in 1 .. j - 1, k.clauses[m].parent = k.clauses[i].parent
               PROVE  FALSE
    OBVIOUS
  <2>1. m \in Same /\ m < j
    OBVIOUS
  <2> QED BY <1>2, <2>1
<1>4. \E m \in 1 .. i : /\ k.clauses[m].parent = k.clauses[i].parent
                        /\ \A l \in 1 .. m - 1 : k.clauses[l].parent # k.clauses[i].parent
  BY <1>3
<1> QED BY <1>4, Zenon DEF ParentPosition

\* The order is total.
LEMMA BeforeIsTotal ==
  ASSUME NEW k, NEW n \in Nat
  PROVE  /\ \A i \in 1 .. n : ~Before(k, i, i)
         /\ \A i, j \in 1 .. n : i # j => Before(k, i, j) \/ Before(k, j, i)
         /\ \A i, j \in 1 .. n : Before(k, i, j) => ~Before(k, j, i)
<1>1. \A i \in 1 .. n : ParentPosition(k, i) \in Nat
  <2> SUFFICES ASSUME NEW i \in 1 .. n PROVE ParentPosition(k, i) \in Nat
    OBVIOUS
  <2>1. ParentPosition(k, i) \in 1 .. i
    BY ParentPositionType
  <2> QED BY <2>1
<1> QED BY <1>1 DEF Before

\* A set of clauses has a first one,
LEMMA FirstExists ==
  ASSUME NEW k, NEW n \in Nat, NEW S \in SUBSET (1 .. n), S # {}
  PROVE  \E x \in S : \A j \in S \ {x} : Before(k, x, j)
<1>1. \A i \in 1 .. n : ParentPosition(k, i) \in 1 .. i
  BY ParentPositionType
<1> DEFINE Parents == {ParentPosition(k, i) : i \in S}
<1>2. PICK p \in Parents : \A y \in Parents : p <= y
  <2>1. \A i \in S : ParentPosition(k, i) \in Nat
    <3> SUFFICES ASSUME NEW i \in S PROVE ParentPosition(k, i) \in Nat
      OBVIOUS
    <3>1. ParentPosition(k, i) \in 1 .. i
      BY <1>1
    <3> QED BY <3>1
  <2>2. Parents \subseteq Nat /\ Parents # {}
    BY <2>1
  <2> HIDE DEF Parents
  <2> QED BY <2>2, LeastNatural
<1> DEFINE T == {i \in S : ParentPosition(k, i) = p}
<1>3. PICK x \in T : \A y \in T : x <= y
  <2>1. T \subseteq Nat /\ T # {}
    OBVIOUS
  <2> HIDE DEF T
  <2> QED BY <2>1, LeastNatural
<1>4. ASSUME NEW j \in S \ {x} PROVE Before(k, x, j)
  <2>1. p <= ParentPosition(k, j) /\ ParentPosition(k, j) \in Nat /\ p \in Nat
    BY <1>1, <1>2
  <2>2. ParentPosition(k, x) = p
    OBVIOUS
  <2>3. CASE ParentPosition(k, j) = p
    <3>1. j \in T
      BY <2>3
    <3>2. x <= j /\ x # j /\ x \in Nat /\ j \in Nat
      BY <1>3, <3>1
    <3> QED BY <2>2, <2>3, <3>2 DEF Before
  <2>4. CASE ParentPosition(k, j) # p
    BY <2>1, <2>2, <2>4 DEF Before
  <2> QED BY <2>3, <2>4
<1>5. x \in S
  OBVIOUS
<1> QED BY <1>4, <1>5

\* and a last one.
LEMMA LastExists ==
  ASSUME NEW k, NEW n \in Nat, NEW S \in SUBSET (1 .. n), S # {}
  PROVE  \E x \in S : \A j \in S \ {x} : Before(k, j, x)
<1>1. \A i \in 1 .. n : ParentPosition(k, i) \in 1 .. i
  BY ParentPositionType
<1> DEFINE Parents == {n - ParentPosition(k, i) : i \in S}
<1>2. PICK p \in Parents : \A y \in Parents : p <= y
  <2>1. \A i \in S : n - ParentPosition(k, i) \in Nat
    <3> SUFFICES ASSUME NEW i \in S PROVE n - ParentPosition(k, i) \in Nat
      OBVIOUS
    <3>1. ParentPosition(k, i) \in 1 .. i /\ i \in 1 .. n
      BY <1>1
    <3> QED BY <3>1
  <2>2. Parents \subseteq Nat /\ Parents # {}
    BY <2>1
  <2> HIDE DEF Parents
  <2> QED BY <2>2, LeastNatural
<1> DEFINE T == {i \in S : n - ParentPosition(k, i) = p}
           U == {n - i : i \in T}
<1>3. PICK u \in U : \A y \in U : u <= y
  <2>1. U \subseteq Nat /\ U # {}
    OBVIOUS
  <2> HIDE DEF U
  <2> QED BY <2>1, LeastNatural
<1>4. PICK x \in T : n - x = u
  OBVIOUS
<1>5. ASSUME NEW j \in S \ {x} PROVE Before(k, j, x)
  <2>1. /\ p <= n - ParentPosition(k, j) /\ n - ParentPosition(k, x) = p
        /\ ParentPosition(k, j) \in Nat /\ ParentPosition(k, x) \in Nat
    BY <1>1, <1>2
  <2>2. CASE n - ParentPosition(k, j) = p
    <3>1. n - j \in U
      BY <2>2
    <3>2. n - x <= n - j
      BY <1>3, <1>4, <3>1
    <3>3. x # j /\ x \in Nat /\ j \in Nat /\ j < x
      BY <3>2
    <3> QED BY <2>1, <2>2, <3>3 DEF Before
  <2>3. CASE n - ParentPosition(k, j) # p
    BY <2>1, <2>3 DEF Before
  <2> QED BY <2>2, <2>3
<1>6. x \in S
  OBVIOUS
<1> QED BY <1>5, <1>6

\* The clauses of a set that come before one of them.
Prior(k, S, i) == {j \in S : Before(k, j, i)}

\* x is the last clause of a set.
LastOf(k, n, S, x) ==
  n \in Nat /\ S \in SUBSET (1 .. n) /\ x \in S /\ \A j \in S \ {x} : Before(k, j, x)

\* It comes after the others in order (ClausePosition).
LEMMA OrderNext ==
  ASSUME NEW k, NEW n, NEW S, NEW x, LastOf(k, n, S, x)
  PROVE  InOrder(k, S) = Append(InOrder(k, S \ {x}), x)
<1>0. n \in Nat /\ S \in SUBSET (1 .. n) /\ x \in S /\ \A j \in S \ {x} : Before(k, j, x)
  BY DEF LastOf
<1> DEFINE T == S \ {x}
           m == Cardinality(T)
<1>1. /\ \A i \in 1 .. n : ~Before(k, i, i)
      /\ \A i, j \in 1 .. n : Before(k, i, j) => ~Before(k, j, i)
  BY <1>0, BeforeIsTotal
<1>2. /\ IsFiniteSet(S) /\ IsFiniteSet(T) /\ m \in Nat /\ Cardinality(S) = m + 1
  <2>1. IsFiniteSet(1 .. n)
    BY <1>0, FS_Interval
  <2>2. IsFiniteSet(S)
    BY <1>0, <2>1, FS_Subset
  <2>3. IsFiniteSet(T) /\ Cardinality(T) = Cardinality(S) - 1
    BY <1>0, <2>2, FS_RemoveElement
  <2>4. Cardinality(S) \in Nat /\ Cardinality(T) \in Nat
    BY <2>2, <2>3, FS_CardinalityType
  <2> QED BY <2>2, <2>3, <2>4
<1>3. Prior(k, S, x) = T
  BY <1>0, <1>1 DEF Prior
<1>4. ASSUME NEW i \in T PROVE Prior(k, S, i) = Prior(k, T, i) /\ Cardinality(Prior(k, T, i)) < m
  <2>1. ~Before(k, x, i)
    BY <1>0, <1>1
  <2>2. Prior(k, S, i) = Prior(k, T, i)
    BY <2>1 DEF Prior
  <2>3. Prior(k, T, i) \in SUBSET T /\ Prior(k, T, i) # T
    BY <1>0, <1>1 DEF Prior
  <2>4. /\ Cardinality(Prior(k, T, i)) <= m /\ Cardinality(Prior(k, T, i)) # m
        /\ Cardinality(Prior(k, T, i)) \in Nat
    BY <1>2, <2>3, FS_Subset, FS_CardinalityType
  <2> QED BY <1>2, <2>2, <2>4
<1> HIDE DEF m, T
<1>5. x \in S /\ x \notin T /\ T \subseteq S /\ \A i \in S : i = x \/ i \in T
  BY <1>0 DEF T
<1>6. InOrder(k, S) = [l \in 1 .. m + 1 |-> CHOOSE i \in S : Cardinality(Prior(k, S, i)) = l - 1]
  BY <1>2 DEF InOrder, Prior
<1>7. InOrder(k, T) = [l \in 1 .. m |-> CHOOSE i \in T : Cardinality(Prior(k, T, i)) = l - 1]
  BY DEF InOrder, Prior, m
<1>8. (CHOOSE i \in S : Cardinality(Prior(k, S, i)) = m) = x
  <2>1. Cardinality(Prior(k, S, x)) = m
    BY <1>3 DEF m
  <2>2. \A i \in S : Cardinality(Prior(k, S, i)) = m => i = x
    <3> SUFFICES ASSUME NEW i \in T PROVE Cardinality(Prior(k, S, i)) # m
      BY <1>5
    <3>1. Cardinality(Prior(k, S, i)) < m
      BY <1>4
    <3> QED BY <1>2, <3>1
  <2> QED BY <1>5, <2>1, <2>2
<1>9. ASSUME NEW l \in 1 .. m
      PROVE  (CHOOSE i \in S : Cardinality(Prior(k, S, i)) = l - 1)
               = (CHOOSE i \in T : Cardinality(Prior(k, T, i)) = l - 1)
  <2>1. Cardinality(Prior(k, S, x)) # l - 1
    BY <1>2, <1>3 DEF m
  <2>2. \A i : (i \in S /\ Cardinality(Prior(k, S, i)) = l - 1)
                 <=> (i \in T /\ Cardinality(Prior(k, T, i)) = l - 1)
    BY <1>4, <1>5, <2>1
  <2> QED BY <2>2
<1>10. /\ InOrder(k, T) = [l \in 1 .. m |-> InOrder(k, T)[l]] /\ DOMAIN InOrder(k, T) = 1 .. m
       /\ \A l \in 1 .. m : InOrder(k, S)[l] = InOrder(k, T)[l]
       /\ InOrder(k, S)[m + 1] = x /\ DOMAIN InOrder(k, S) = 1 .. m + 1
  <2>1. ASSUME NEW l \in 1 .. m PROVE InOrder(k, S)[l] = InOrder(k, T)[l]
    <3>1. l \in 1 .. m + 1
      BY <1>2
    <3>2. InOrder(k, S)[l] = CHOOSE i \in S : Cardinality(Prior(k, S, i)) = l - 1
      BY <1>6, <3>1, Zenon
    <3>3. InOrder(k, T)[l] = CHOOSE i \in T : Cardinality(Prior(k, T, i)) = l - 1
      BY <1>7, Zenon
    <3> QED BY <1>9, <3>2, <3>3, Zenon
  <2>2. InOrder(k, S)[m + 1] = x
    <3>1. m + 1 \in 1 .. m + 1 /\ (m + 1) - 1 = m
      BY <1>2
    <3> DEFINE o == [l \in 1 .. m + 1 |-> CHOOSE i \in S : Cardinality(Prior(k, S, i)) = l - 1]
    <3>2. o[m + 1] = CHOOSE i \in S : Cardinality(Prior(k, S, i)) = (m + 1) - 1
      BY <3>1, Zenon
    <3>3. (CHOOSE i \in S : Cardinality(Prior(k, S, i)) = (m + 1) - 1)
            = (CHOOSE i \in S : Cardinality(Prior(k, S, i)) = m)
      BY <3>1
    <3>4. InOrder(k, S) = o
      BY <1>6
    <3> QED BY <1>8, <3>2, <3>3, <3>4, Zenon
  <2>3. DOMAIN InOrder(k, T) = 1 .. m /\ DOMAIN InOrder(k, S) = 1 .. m + 1
    BY <1>6, <1>7
  <2>4. InOrder(k, T) = [l \in 1 .. m |-> InOrder(k, T)[l]]
    BY <1>7
  <2> QED BY <2>1, <2>2, <2>3, <2>4
<1>11. InOrder(k, S) = [l \in 1 .. m + 1 |-> InOrder(k, S)[l]]
  BY <1>6
<1>12. InOrder(k, S) = Append(InOrder(k, T), x)
  <2> DEFINE s == InOrder(k, S)
             q0 == InOrder(k, T)
  <2>1. /\ q0 = [l \in 1 .. m |-> q0[l]] /\ s = [l \in 1 .. m + 1 |-> s[l]]
        /\ \A l \in 1 .. m : s[l] = q0[l]
        /\ s[m + 1] = x
    BY <1>10, <1>11
  <2> HIDE DEF s, q0
  <2>2. Longer(m, q0, s, x)
    BY <2>1, Zenon DEF Longer
  <2>3. m \in Nat
    BY <1>2
  <2>4. s = Append(q0, x)
    BY <2>2, <2>3, IsAppend
  <2> QED BY <2>4 DEF s, q0
<1> QED BY <1>12 DEF T

\* x is the first clause of a set.
FirstIn(k, n, S, x) ==
  n \in Nat /\ S \in SUBSET (1 .. n) /\ x \in S /\ \A j \in S \ {x} : Before(k, x, j)

\* It comes before the others in order.
LEMMA OrderFirst ==
  ASSUME NEW k, NEW n, NEW S, NEW x, FirstIn(k, n, S, x)
  PROVE  /\ InOrder(k, S) # << >> /\ InOrder(k, S)[1] = x
         /\ Tail(InOrder(k, S)) = InOrder(k, S \ {x})
<1> SUFFICES ASSUME n \in Nat, S \in SUBSET (1 .. n), x \in S, \A j \in S \ {x} : Before(k, x, j)
             PROVE  /\ InOrder(k, S) # << >> /\ InOrder(k, S)[1] = x
                    /\ Tail(InOrder(k, S)) = InOrder(k, S \ {x})
  BY DEF FirstIn
<1> DEFINE T == S \ {x}
           m == Cardinality(T)
<1>1. /\ \A i \in 1 .. n : ~Before(k, i, i)
      /\ \A i, j \in 1 .. n : Before(k, i, j) => ~Before(k, j, i)
  BY BeforeIsTotal
<1>2. /\ IsFiniteSet(S) /\ IsFiniteSet(T) /\ m \in Nat /\ Cardinality(S) = m + 1
  <2>1. IsFiniteSet(1 .. n)
    BY FS_Interval
  <2>2. IsFiniteSet(S)
    BY <2>1, FS_Subset
  <2>3. IsFiniteSet(T) /\ Cardinality(T) = Cardinality(S) - 1
    BY <2>2, FS_RemoveElement
  <2>4. Cardinality(S) \in Nat /\ Cardinality(T) \in Nat
    BY <2>2, <2>3, FS_CardinalityType
  <2> QED BY <2>2, <2>3, <2>4
<1>3. Cardinality(Prior(k, S, x)) = 0
  <2>1. Prior(k, S, x) = {}
    BY <1>1 DEF Prior
  <2> QED BY <2>1, FS_EmptySet
<1>4. ASSUME NEW i \in T
      PROVE  /\ Cardinality(Prior(k, S, i)) = Cardinality(Prior(k, T, i)) + 1
             /\ Cardinality(Prior(k, T, i)) \in Nat
  <2>1. Before(k, x, i)
    OBVIOUS
  <2>2. Prior(k, S, i) = Prior(k, T, i) \cup {x} /\ x \notin Prior(k, T, i)
    BY <2>1 DEF Prior
  <2>3. Prior(k, T, i) \in SUBSET T
    BY DEF Prior
  <2>4. IsFiniteSet(Prior(k, T, i))
    BY <1>2, <2>3, FS_Subset
  <2> QED BY <2>2, <2>4, FS_AddElement, FS_CardinalityType
<1> HIDE DEF m, T
<1>5. x \in S /\ x \notin T /\ T \subseteq S /\ \A i \in S : i = x \/ i \in T
  BY DEF T
<1>6. InOrder(k, S) = [l \in 1 .. m + 1 |-> CHOOSE i \in S : Cardinality(Prior(k, S, i)) = l - 1]
  BY <1>2 DEF InOrder, Prior
<1>7. InOrder(k, T) = [l \in 1 .. m |-> CHOOSE i \in T : Cardinality(Prior(k, T, i)) = l - 1]
  BY DEF InOrder, Prior, m
<1>8. InOrder(k, S)[1] = x
  <2>1. InOrder(k, S)[1] = CHOOSE i \in S : Cardinality(Prior(k, S, i)) = 0
    BY <1>2, <1>6
  <2>2. \A i \in S : Cardinality(Prior(k, S, i)) = 0 => i = x
    BY <1>4, <1>5
  <2> QED BY <1>3, <1>5, <2>1, <2>2
<1>9. ASSUME NEW l \in 1 .. m PROVE InOrder(k, S)[l + 1] = InOrder(k, T)[l]
  <2>1. \A i : (i \in S /\ Cardinality(Prior(k, S, i)) = l)
                 <=> (i \in T /\ Cardinality(Prior(k, T, i)) = l - 1)
    <3>1. ASSUME NEW i \in T
          PROVE  Cardinality(Prior(k, S, i)) = l <=> Cardinality(Prior(k, T, i)) = l - 1
      BY <1>4
    <3>2. Cardinality(Prior(k, S, x)) # l
      BY <1>3
    <3> QED BY <1>5, <3>1, <3>2
  <2>2. (CHOOSE i \in S : Cardinality(Prior(k, S, i)) = l)
          = (CHOOSE i \in T : Cardinality(Prior(k, T, i)) = l - 1)
    BY <2>1
  <2>3. InOrder(k, S)[l + 1] = CHOOSE i \in S : Cardinality(Prior(k, S, i)) = l
    <3>1. l + 1 \in 1 .. m + 1 /\ l + 1 - 1 = l
      BY <1>2
    <3> QED BY <1>6, <3>1
  <2> QED BY <1>7, <2>2, <2>3
<1> DEFINE s == InOrder(k, S)
           q0 == InOrder(k, T)
<1>10. /\ s = [l \in 1 .. m + 1 |-> s[l]] /\ q0 = [l \in 1 .. m |-> q0[l]]
       /\ s[1] = x /\ \A l \in 1 .. m : s[l + 1] = q0[l]
  BY <1>6, <1>7, <1>8, <1>9
<1> HIDE DEF s, q0
<1>11. s # << >> /\ Tail(s) = q0
  BY <1>2, <1>10, IsTail
<1> QED BY <1>10, <1>11 DEF s, q0, T

\* In order, a set of clauses is as long as it is large.
LEMMA OrderLength ==
  ASSUME NEW k, NEW n \in Nat, NEW S \in SUBSET (1 .. n)
  PROVE  /\ Cardinality(S) \in Nat /\ IsFiniteSet(S)
         /\ DOMAIN InOrder(k, S) = 1 .. Cardinality(S)
         /\ Len(InOrder(k, S)) = Cardinality(S)
         /\ S = {} => InOrder(k, S) = << >> /\ Cardinality(S) = 0
<1>1. IsFiniteSet(S) /\ Cardinality(S) \in Nat
  <2>1. IsFiniteSet(1 .. n)
    BY FS_Interval
  <2>2. IsFiniteSet(S)
    BY <2>1, FS_Subset
  <2> QED BY <2>2, FS_CardinalityType
<1> DEFINE m == Cardinality(S)
           s == InOrder(k, S)
<1>2. s = [l \in 1 .. m |-> s[l]] /\ m \in Nat
  <2>1. s = [l \in 1 .. m |-> CHOOSE i \in S : Cardinality(Prior(k, S, i)) = l - 1]
    BY DEF InOrder, Prior
  <2> HIDE DEF s, m
  <2> QED BY <1>1, <2>1 DEF m
<1>3. S = {} => m = 0
  BY FS_EmptySet
<1> HIDE DEF s, m
<1>4. DOMAIN s = 1 .. m /\ Len(s) = m /\ (m = 0 => s = << >>)
  <2> DEFINE X == {s[l] : l \in 1 .. m}
  <2>1. \A l \in 1 .. m : s[l] \in X
    OBVIOUS
  <2> HIDE DEF X
  <2>2. s \in Seq(X) /\ Len(s) = m /\ DOMAIN s = 1 .. m
    BY <1>2, <2>1, IsSequence
  <2> QED BY <2>2, EmptySeq
<1> QED BY <1>1, <1>3, <1>4 DEF s, m

----------------------------------------------------------------------------
(* The scores and the walks                                                 *)

\* A walk ends at a frontier if no candidate is installed,
LEMMA WalkIsFrontier ==
  ASSUME NEW r \in Requirement, NEW map
  PROVE  Walk(map, r).kind = "Frontier" <=> \A v \in CandidatesOf[r] : ~IsTrue(map, v)
<1>1. CASE Installed(map, r) # {}
  <2>1. Walk(map, r).kind = "Satisfied"
    BY <1>1 DEF Walk
  <2>2. \E v \in CandidatesOf[r] : IsTrue(map, v)
    BY <1>1 DEF Installed, CandidatesOf
  <2> QED BY <2>1, <2>2
<1>2. CASE Installed(map, r) = {}
  <2>1. Walk(map, r).kind = "Frontier"
    BY <1>2 DEF Walk
  <2>2. \A v \in CandidatesOf[r] : ~IsTrue(map, v)
    BY <1>2 DEF Installed, CandidatesOf
  <2> QED BY <2>1, <2>2
<1> QED BY <1>1, <1>2

\* which names a package of the requirement and counts at least the candidate found,
\* unless all of them are ruled out.
LEMMA FrontierCounts ==
  ASSUME NEW r \in Requirement, NEW map \in Assignment, Walk(map, r).kind = "Frontier",
         \E v \in CandidatesOf[r] : ~IsFalse(map, v)
  PROVE  Walk(map, r).count \in Nat \ {0} /\ Walk(map, r).name \in NamesOf(r) \cap Name
<1> DEFINE first == FirstOf(Open(map, r))
           same == {o \in Open(map, r) : o[1] = first[1]}
<1>1. Positions[r] \subseteq Nat \X Nat /\ \A p \in Positions[r] : At(r, p) \in Variable
  BY PositionsType
<1>2. Open(map, r) # {}
  <2>1. PICK v \in CandidatesOf[r] : ~IsFalse(map, v)
    OBVIOUS
  <2>2. ~IsTrue(map, v)
    BY WalkIsFrontier
  <2>3. PICK p \in Positions[r] : v = At(r, p)
    BY DEF CandidatesOf
  <2>4. v \in Variable
    BY <1>1, <2>3
  <2>5. map[v] \in {-1, 0, 1}
    BY <2>4 DEF Assignment
  <2>6. IsUndecided(map, v)
    BY <2>1, <2>2, <2>5 DEF IsTrue, IsFalse, IsUndecided
  <2> QED BY <2>3, <2>6 DEF Open
<1>3. first \in Open(map, r)
  <2>1. Open(map, r) \subseteq Nat \X Nat
    BY <1>1 DEF Open
  <2> QED BY <1>2, <2>1, FirstOfExists
<1>4. first \in Positions[r]
  BY <1>3 DEF Open
<1> HIDE DEF first
<1>5. PICK i \in DOMAIN Sorted[r] : first \in {<<i, j>> : j \in DOMAIN Sorted[r][i].candidates}
  BY <1>4 DEF Positions
<1>6. first[1] = i
  BY <1>5
<1>7. /\ Sorted[r] \in Seq([name : Name, candidates : Seq(Variable)])
      /\ i \in 1 .. Len(Sorted[r])
  <2>1. Sorted[r] \in Seq([name : Name, candidates : Seq(Variable)])
    BY DecideQueueAssumption
  <2> QED BY <1>5, <2>1
<1>8. Sorted[r][i] \in [name : Name, candidates : Seq(Variable)]
  BY <1>7, ElementOfSeq
<1>9. /\ Sorted[r][i].name \in NamesOf(r) /\ Sorted[r][i].name \in Name
      /\ Sorted[r][i].candidates \in Seq(Variable)
  BY <1>5, <1>8 DEF NamesOf
<1> DEFINE m == Len(Sorted[r][i].candidates)
<1>10. m \in Nat /\ DOMAIN Sorted[r][i].candidates = 1 .. m
  BY <1>9
<1>11. IsFiniteSet(same)
  <2>1. IsFiniteSet({i} \X (1 .. m))
    <3>1. IsFiniteSet({i})
      BY FS_Singleton
    <3>2. IsFiniteSet(1 .. m)
      BY <1>10, FS_Interval
    <3> HIDE DEF m
    <3> QED BY <3>1, <3>2, FS_Product
  <2>2. same \subseteq {i} \X (1 .. m)
    <3> SUFFICES ASSUME NEW o \in Open(map, r), o[1] = i PROVE o \in {i} \X (1 .. m)
      BY <1>6
    <3>1. o \in Positions[r]
      BY DEF Open
    <3>2. PICK l \in DOMAIN Sorted[r] : o \in {<<l, j>> : j \in DOMAIN Sorted[r][l].candidates}
      BY <3>1 DEF Positions
    <3>3. l = i
      BY <3>2
    <3> QED BY <1>10, <3>2, <3>3
  <2> HIDE DEF same
  <2> QED BY <2>1, <2>2, FS_Subset
<1>12. Cardinality(same) \in Nat \ {0}
  <2>1. same # {}
    BY <1>3
  <2> HIDE DEF same
  <2> QED BY <1>11, <2>1, FS_EmptySet, FS_CardinalityType
<1>13. /\ Walk(map, r).count = Cardinality(same)
       /\ Walk(map, r).name = Sorted[r][i].name
  <2>1. Installed(map, r) = {}
    BY DEF Walk
  <2>2. Walk(map, r) = [kind |-> "Frontier", candidate |-> At(r, first), name |-> Sorted[r][first[1]].name,
                        count |-> Cardinality(same)]
    BY <2>1 DEF Walk, first
  <2> QED BY <1>6, <2>2
<1> QED BY <1>9, <1>12, <1>13

\* Scores are numbers, and with positive bumps none is above the maximum and only
\* hot packages have one (bump_activity, mark_name_hot).
Scores ==
  /\ name_activity \in [Name -> Int] /\ max_activity \in Int /\ activity_add \in Int
  /\ hot_only => \A n \in Name :
       /\ 0 <= name_activity[n] /\ name_activity[n] <= max_activity
       /\ n \notin q.hot_names => name_activity[n] = 0

\* The loop over the packages of a learnt clause.
BumpBy(add, acc, n) ==
  LET score == acc.name_activity[n] + add
  IN [name_activity |-> [acc.name_activity EXCEPT ![n] = score],
      max_activity |-> IF score > acc.max_activity THEN score ELSE acc.max_activity]
BumpsDef(s, names, add, d, f, S) ==
  IF S = {} THEN s ELSE BumpBy(add, f[S \ {Max(S)}], names[Max(S)])
\* What holds of the scores on the way: hot are the packages that may have one.
Scored(hot, add, S, acc) ==
  /\ acc.name_activity \in [Name -> Int] /\ acc.max_activity \in Int
  /\ add > 0 => \A n \in Name :
       /\ 0 <= acc.name_activity[n] /\ acc.name_activity[n] <= acc.max_activity
       /\ n \notin hot => acc.name_activity[n] = 0
Bumps == INSTANCE Recursion WITH Def <- BumpsDef, P <- Scored

\* One bump keeps them.
LEMMA BumpScored ==
  ASSUME NEW hot, NEW add \in Int, NEW acc, Scored(hot, add, 0, acc), NEW n \in Name, n \in hot
  PROVE  Scored(hot, add, 0, BumpBy(add, acc, n))
<1> DEFINE score == acc.name_activity[n] + add
           b == BumpBy(add, acc, n)
           act == [acc.name_activity EXCEPT ![n] = score]
           max == IF score > acc.max_activity THEN score ELSE acc.max_activity
<1>1. acc.name_activity \in [Name -> Int] /\ acc.max_activity \in Int /\ score \in Int
  BY DEF Scored
<1>2. b.name_activity = act /\ b.max_activity = max
  BY DEF BumpBy
<1> HIDE DEF b
<1>3. max \in Int /\ acc.max_activity <= max /\ score <= max
  BY <1>1
<1>4. act \in [Name -> Int] /\ \A m \in Name : act[m] = IF m = n THEN score ELSE acc.name_activity[m]
  BY <1>1
<1>5. ASSUME add > 0, NEW m \in Name
      PROVE  0 <= act[m] /\ act[m] <= max /\ (m \notin hot => act[m] = 0)
  <2>1. /\ 0 <= acc.name_activity[m] /\ acc.name_activity[m] <= acc.max_activity
        /\ m \notin hot => acc.name_activity[m] = 0
        /\ 0 <= acc.name_activity[n] /\ acc.name_activity[m] \in Int
    BY <1>1, <1>5 DEF Scored
  <2> HIDE DEF act, max
  <2>2. CASE m = n
    BY <1>1, <1>3, <1>4, <1>5, <2>1, <2>2
  <2>3. CASE m # n
    BY <1>1, <1>3, <1>4, <2>1, <2>3
  <2> QED BY <2>2, <2>3
<1> HIDE DEF act, max
<1>6. Scored(hot, add, 0, b)
  BY <1>2, <1>3, <1>4, <1>5 DEF Scored
<1> QED BY <1>6 DEF b

\* All of them do.
LEMMA BumpsScored ==
  ASSUME NEW hot, NEW add \in Int, NEW acc, Scored(hot, add, 0, acc), NEW names \in Seq(Name),
         ToSet(names) \subseteq hot
  PROVE  Scored(hot, add, 0, Bumps!Loop(acc, names, add, 0, Len(names)))
<1> DEFINE m == Len(names)
<1>1. m \in Nat /\ \A i \in 1 .. m : names[i] \in Name /\ names[i] \in hot
  BY ElementOfSeq DEF ToSet
<1>2. Bumps!WellOrdered
  BY LeastNatural DEF Bumps!WellOrdered
<1> HIDE DEF m
<1>3. Bumps!Rounds(acc, names, add, 0, m)
  BY DEF Bumps!Rounds, BumpsDef, Bumps!Max, Max
<1>4. Bumps!Keeps(acc, names, add, 0, m, hot, add)
  <2> SUFFICES ASSUME NEW f, NEW S \in SUBSET (1 .. m),
                      S # {} => Bumps!Max(S) \in S /\ Scored(hot, add, S \ {Bumps!Max(S)}, f[S \ {Bumps!Max(S)}])
               PROVE  Scored(hot, add, S, BumpsDef(acc, names, add, 0, f, S))
    BY DEF Bumps!Keeps
  <2>1. CASE S = {}
    BY <2>1 DEF BumpsDef, Scored
  <2>2. CASE S # {}
    <3> DEFINE x == Max(S)
               v == f[S \ {x}]
    <3>1. x \in S /\ Scored(hot, add, S \ {x}, v)
      BY <2>2 DEF Bumps!Max, Max
    <3>2. BumpsDef(acc, names, add, 0, f, S) = BumpBy(add, v, names[x])
      BY <2>2 DEF BumpsDef
    <3> HIDE DEF x, v
    <3>3. Scored(hot, add, 0, v) /\ names[x] \in Name /\ names[x] \in hot
      BY <1>1, <3>1 DEF Scored
    <3>4. Scored(hot, add, 0, BumpBy(add, v, names[x]))
      BY <3>3, BumpScored
    <3> QED BY <3>2, <3>4 DEF Scored
  <2> QED BY <2>1, <2>2
<1>5. Scored(hot, add, 1 .. m, Bumps!Loop(acc, names, add, 0, m))
  BY <1>1, <1>2, <1>3, <1>4, Bumps!FoldInduction
<1> QED BY <1>5 DEF Scored, m

\* Learning keeps the scores: decay keeps their order, and rounds down.
LEMMA LearnScores ==
  ASSUME Inv, Scores, NEW names \in Seq(Name), LearnClause(names)
  PROVE  Scores'
<1> DEFINE acc == [name_activity |-> name_activity, max_activity |-> max_activity]
           bumped == FoldLeft(Bump, acc, names)
           hot == q.hot_names \cup ToSet(names)
<1>1. /\ q' = MarkNamesHot(q, ToSet(names)) /\ activity_add' = activity_add
      /\ name_activity' = [n \in Name |-> DecayActivityScores(bumped.name_activity[n])]
      /\ max_activity' = DecayActivityScores(bumped.max_activity)
  BY DEF LearnClause
<1>2. q'.hot_names = hot
  <2>1. Fields(q)
    BY DEF Inv, Typed
  <2> HIDE DEF hot
  <2> QED BY <1>1, <2>1 DEF MarkNamesHot, Fields, hot
<1>3. Scored(hot, activity_add, 0, acc) /\ activity_add \in Int
  BY DEF Scores, Scored, hot_only
<1>4. bumped = Bumps!Loop(acc, names, activity_add, 0, Len(names))
  <2>1. DOMAIN names = 1 .. Len(names)
    OBVIOUS
  <2> HIDE DEF acc
  <2> QED BY <2>1 DEF FoldLeft, MapThenFoldSet, Bumps!Loop, Bumps!Fix, BumpsDef, Bump, BumpBy
<1> HIDE DEF acc, bumped, hot
<1>5. Scored(hot, activity_add, 0, bumped)
  <2>1. ToSet(names) \subseteq hot
    BY DEF hot
  <2> QED BY <1>3, <1>4, <2>1, BumpsScored
<1>6. \A i, j \in Int : i <= j => i \div 2 <= j \div 2
  OBVIOUS
<1>7. \A i \in Int : i \div 2 \in Int /\ (0 <= i => 0 <= i \div 2)
  OBVIOUS
<1>8. name_activity' \in [Name -> Int] /\ max_activity' \in Int
  BY <1>1, <1>5, <1>7 DEF Scored, DecayActivityScores
<1>9. ASSUME activity_add > 0, NEW n \in Name
      PROVE  /\ 0 <= name_activity'[n] /\ name_activity'[n] <= max_activity'
             /\ n \notin hot => name_activity'[n] = 0
  <2>1. /\ 0 <= bumped.name_activity[n] /\ bumped.name_activity[n] <= bumped.max_activity
        /\ n \notin hot => bumped.name_activity[n] = 0
        /\ bumped.name_activity[n] \in Int /\ bumped.max_activity \in Int
    BY <1>5, <1>9 DEF Scored
  <2>2. /\ name_activity'[n] = bumped.name_activity[n] \div 2
        /\ max_activity' = bumped.max_activity \div 2
    BY <1>1 DEF DecayActivityScores
  <2>3. n \notin hot => name_activity'[n] = 0
    <3>1. 0 \div 2 = 0
      OBVIOUS
    <3> QED BY <2>1, <2>2, <3>1
  <2> QED BY <1>6, <1>7, <2>1, <2>2, <2>3
<1> QED BY <1>1, <1>2, <1>3, <1>8, <1>9 DEF Scores, hot_only

\* They are kept by every step.
LEMMA ScoresAlways == Spec => [](Inv /\ Scores)
<1>1. Init => Inv /\ Scores
  <2> SUFFICES ASSUME Init PROVE Scores
    BY InitInv
  <2>1. name_activity = [n \in Name |-> 0] /\ max_activity = 0 /\ activity_add \in Int
    BY DecideQueueAssumption DEF Init
  <2> QED BY <2>1 DEF Scores
<1>2. Inv /\ Scores /\ [Next]_vars => Inv' /\ Scores'
  <2> SUFFICES ASSUME Inv, Scores, [Next]_vars PROVE Scores'
    BY NextInv
  <2>0. Fields(q)
    BY DEF Inv, Typed
  <2>1. CASE UNCHANGED activity /\ q'.hot_names = q.hot_names
    BY <2>1 DEF Scores, activity, hot_only
  <2>2. CASE AddRequiresClause
    <3>1. UNCHANGED activity /\ q' = RegisterClause(q, t.map, Head(encoding))
      BY <2>2 DEF AddRequiresClause
    <3>2. PICK longer, ids : q' = Enqueue([q EXCEPT !.clauses = longer], t.map, ids)
      BY <3>1, Zenon DEF RegisterClause
    <3> DEFINE d == [q EXCEPT !.clauses = longer]
    <3>3. Fields(d) /\ d.hot_names = q.hot_names
      BY <2>0 DEF Fields
    <3>4. q' = Enqueue(d, t.map, ids)
      BY <3>2
    <3> HIDE DEF d
    <3>5. q'.hot_names = q.hot_names
      BY <3>3, <3>4, EnqueueFields
    <3> QED BY <2>1, <3>1, <3>5
  <2>3. CASE Decide
    <3>1. /\ UNCHANGED activity
          /\ q' = NextDecision(RouteTouched(q, t.map, Trail!Routed(t.sync_floor)), t.map).queue
      BY <2>3 DEF Decide
    <3> DEFINE V == Trail!Routed(t.sync_floor)
               k == RouteTouched(q, t.map, V)
    <3>2. PICK states, woken : k = Enqueue([q EXCEPT !.states = states], t.map, woken)
      BY Zenon DEF RouteTouched
    <3> DEFINE d == [q EXCEPT !.states = states]
    <3> HIDE DEF k, V
    <3>3. Fields(d) /\ d.hot_names = q.hot_names
      BY <2>0 DEF Fields
    <3>4. k = Enqueue(d, t.map, woken)
      BY <3>2
    <3> HIDE DEF d
    <3>5. Fields(k) /\ k.hot_names = q.hot_names
      BY <3>3, <3>4, EnqueueFields
    <3>6. PICK ids : q' = AfterInspecting(k, t.map, ids)
      BY <3>1 DEF NextDecision, k, V
    <3>7. q'.hot_names = k.hot_names
      BY <3>5, <3>6 DEF AfterInspecting, Fields
    <3> QED BY <2>1, <3>1, <3>5, <3>7
  <2>4. CASE \E names \in BoundedSeq(Name, MaxBumps) : LearnClause(names)
    <3>1. PICK names \in BoundedSeq(Name, MaxBumps) : LearnClause(names)
      BY <2>4
    <3>2. names \in Seq(Name)
      BY DecideQueueAssumption DEF BoundedSeq, SeqOf
    <3> QED BY <3>1, <3>2, LearnScores
  <2>5. CASE (\E d \in Decision : Push(d)) \/ Pop \/ Restart \/ UNCHANGED vars
    BY <2>1, <2>5 DEF Push, Pop, Restart, vars, activity
  <2> QED BY <2>2, <2>3, <2>4, <2>5 DEF Next
<1> QED BY <1>1, <1>2, PTL DEF Spec

----------------------------------------------------------------------------
(* The decision                                                             *)

\* What next_decision reads besides the queue.
Now(map) == [map |-> map, act |-> name_activity, max |-> max_activity, hot |-> hot_only]

\* Replaces and Unbeatable, from what was read.
ReplacesBy(k, x, i, best) ==
  /\ Explicit(k, best) => Explicit(k, i)
  /\ x.act[Frontier(k, x.map, i).name] > x.act[Frontier(k, x.map, best).name]
  /\ Frontier(k, x.map, i).count < Frontier(k, x.map, best).count
UnbeatableBy(k, x, i) ==
  \/ Frontier(k, x.map, i).count = 1
  \/ x.hot /\ x.act[Frontier(k, x.map, i).name] = x.max

\* The loop over the later clauses with its early stops,
VisitBy(k, x, acc, i) ==
  IF acc.stop \/ (Explicit(k, acc.best) /\ ~Explicit(k, i)) THEN acc
  ELSE LET best == IF Inspect(k, x.map, i) /\ ReplacesBy(k, x, i, acc.best) THEN i ELSE acc.best
       IN [best |-> best, stop |-> UnbeatableBy(k, x, best), inspected |-> acc.inspected \cup {i}]
VisitDef(s, order, k, x, f, S) ==
  IF S = {} THEN s ELSE VisitBy(k, x, f[S \ {Max(S)}], order[Max(S)])
Visits == INSTANCE Recursion WITH Def <- VisitDef, P <- LAMBDA g, e, i, v : TRUE

\* and the scan.
BetterBy(k, x, best, i) == IF ReplacesBy(k, x, i, best) THEN i ELSE best
BetterDef(s, order, k, x, f, S) ==
  IF S = {} THEN s ELSE BetterBy(k, x, f[S \ {Max(S)}], order[Max(S)])
Betters == INSTANCE Recursion WITH Def <- BetterDef, P <- LAMBDA g, e, i, v : TRUE

\* What they make of a list of clauses.
Visited(s, order, k, x) == Visits!Loop(s, order, k, x, Len(order))
Best(s, order, k, x) == Betters!Loop(s, order, k, x, Len(order))

\* The last position of a list.
LEMMA LastPosition ==
  ASSUME NEW n \in Nat
  PROVE  /\ Max(1 .. n + 1) = n + 1 /\ (1 .. n + 1) \ {Max(1 .. n + 1)} = 1 .. n
         /\ 1 .. n + 1 # {} /\ 1 .. 0 = {}
<1>1. n + 1 \in 1 .. n + 1 /\ \A y \in 1 .. n + 1 : n + 1 >= y
  OBVIOUS
<1>2. \A z \in 1 .. n + 1 : (\A y \in 1 .. n + 1 : z >= y) => z = n + 1
  OBVIOUS
<1>3. Max(1 .. n + 1) = n + 1
  BY <1>1, <1>2 DEF Max
<1>4. (1 .. n + 1) \ {n + 1} = 1 .. n
  OBVIOUS
<1>5. 1 .. 0 = {}
  OBVIOUS
<1> QED BY <1>1, <1>3, <1>4, <1>5

\* Of several positions one is the last.
LEMMA MaxOfPositions ==
  ASSUME NEW n \in Nat, NEW S \in SUBSET (1 .. n), S # {}
  PROVE  Max(S) \in S
<1> DEFINE R == {n - i : i \in S}
<1>1. PICK r \in R : \A y \in R : r <= y
  <2>1. \A i \in S : n - i \in Nat
    OBVIOUS
  <2>2. R \subseteq Nat /\ R # {}
    BY <2>1
  <2> HIDE DEF R
  <2> QED BY <2>2, LeastNatural
<1>2. PICK x \in S : n - x = r
  OBVIOUS
<1>3. ASSUME NEW y \in S PROVE x >= y
  <2>1. n - x <= n - y
    BY <1>1, <1>2
  <2>2. x \in Nat /\ y \in Nat
    OBVIOUS
  <2> QED BY <2>1, <2>2
<1>4. \E z \in S : \A y \in S : z >= y
  BY <1>3
<1> QED BY <1>4, Zenon DEF Max

\* They are loops: one more clause is one more round.
LEMMA VisitedNext ==
  ASSUME NEW s, NEW order \in Seq(Nat), NEW i \in Nat, NEW k, NEW x
  PROVE  /\ Visited(s, Append(order, i), k, x) = VisitBy(k, x, Visited(s, order, k, x), i)
         /\ Visited(s, << >>, k, x) = s
<1> DEFINE n == Len(order)
           long == Append(order, i)
<1>1. n \in Nat /\ Len(long) = n + 1 /\ long[n + 1] = i /\ \A j \in 1 .. n : long[j] = order[j]
  OBVIOUS
<1>2. Visits!WellOrdered
  BY LeastNatural DEF Visits!WellOrdered
<1> HIDE DEF n, long
<1>3. /\ Visits!Rounds(s, long, k, x, n + 1) /\ Visits!Rounds(s, order, k, x, n)
      /\ Visits!Rounds(s, << >>, k, x, 0)
  BY DEF Visits!Rounds, VisitDef, Visits!Max, Max
<1>4. \A f : \A S \in SUBSET (1 .. n) : VisitDef(s, long, k, x, f, S) = VisitDef(s, order, k, x, f, S)
  <2> SUFFICES ASSUME NEW f, NEW S \in SUBSET (1 .. n), S # {}
               PROVE  long[Max(S)] = order[Max(S)]
    BY DEF VisitDef
  <2>1. Max(S) \in S
    BY <1>1, MaxOfPositions
  <2> QED BY <1>1, <2>1
<1>5. PICK f : /\ f[1 .. n] = Visits!Loop(s, order, k, x, n)
               /\ Visits!Loop(s, long, k, x, n + 1) = VisitDef(s, long, k, x, f, 1 .. n + 1)
  BY <1>1, <1>2, <1>3, <1>4, Visits!FoldNext
<1>6. VisitDef(s, long, k, x, f, 1 .. n + 1) = VisitBy(k, x, f[1 .. n], i)
  BY <1>1, LastPosition DEF VisitDef
<1>7. Visits!Loop(s, << >>, k, x, 0) = s
  <2>1. PICK g : Visits!Loop(s, << >>, k, x, 0) = VisitDef(s, << >>, k, x, g, {})
    BY <1>2, <1>3, Visits!FoldStart
  <2> QED BY <2>1 DEF VisitDef
<1>8. Len(<< >>) = 0
  OBVIOUS
<1> QED BY <1>1, <1>5, <1>6, <1>7, <1>8 DEF Visited, n, long

\* The same for the scan.
LEMMA BestNext ==
  ASSUME NEW s, NEW order \in Seq(Nat), NEW i \in Nat, NEW k, NEW x
  PROVE  /\ Best(s, Append(order, i), k, x) = BetterBy(k, x, Best(s, order, k, x), i)
         /\ Best(s, << >>, k, x) = s
<1> DEFINE n == Len(order)
           long == Append(order, i)
<1>1. n \in Nat /\ Len(long) = n + 1 /\ long[n + 1] = i /\ \A j \in 1 .. n : long[j] = order[j]
  OBVIOUS
<1>2. Betters!WellOrdered
  BY LeastNatural DEF Betters!WellOrdered
<1> HIDE DEF n, long
<1>3. /\ Betters!Rounds(s, long, k, x, n + 1) /\ Betters!Rounds(s, order, k, x, n)
      /\ Betters!Rounds(s, << >>, k, x, 0)
  BY DEF Betters!Rounds, BetterDef, Betters!Max, Max
<1>4. \A f : \A S \in SUBSET (1 .. n) : BetterDef(s, long, k, x, f, S) = BetterDef(s, order, k, x, f, S)
  <2> SUFFICES ASSUME NEW f, NEW S \in SUBSET (1 .. n), S # {}
               PROVE  long[Max(S)] = order[Max(S)]
    BY DEF BetterDef
  <2>1. Max(S) \in S
    BY <1>1, MaxOfPositions
  <2> QED BY <1>1, <2>1
<1>5. PICK f : /\ f[1 .. n] = Betters!Loop(s, order, k, x, n)
               /\ Betters!Loop(s, long, k, x, n + 1) = BetterDef(s, long, k, x, f, 1 .. n + 1)
  BY <1>1, <1>2, <1>3, <1>4, Betters!FoldNext
<1>6. BetterDef(s, long, k, x, f, 1 .. n + 1) = BetterBy(k, x, f[1 .. n], i)
  BY <1>1, LastPosition DEF BetterDef
<1>7. Betters!Loop(s, << >>, k, x, 0) = s
  <2>1. PICK g : Betters!Loop(s, << >>, k, x, 0) = BetterDef(s, << >>, k, x, g, {})
    BY <1>2, <1>3, Betters!FoldStart
  <2> QED BY <2>1 DEF BetterDef
<1>8. Len(<< >>) = 0
  OBVIOUS
<1> QED BY <1>1, <1>5, <1>6, <1>7, <1>8 DEF Best, n, long

\* The queue k and the scan's queue e answer alike for the eligible clauses E, and
\* an eligible clause outside of those that are looked at, L, replaces no other.
Comparable(k, e, x, E, L, first) ==
  /\ first \notin L
  /\ \A i \in L : Inspect(k, x.map, i) <=> i \in E
  /\ \A i \in E :
       /\ Explicit(e, i) <=> Explicit(k, i)
       /\ Frontier(e, x.map, i) = Frontier(k, x.map, i)
       /\ Frontier(k, x.map, i).count \in Nat \ {0}
       /\ x.act[Frontier(k, x.map, i).name] \in Int
       /\ x.hot => x.act[Frontier(k, x.map, i).name] <= x.max
  /\ x.max \in Int
  /\ \A i \in E \ (L \cup {first}) : \A b \in E :
       ~(x.act[Frontier(k, x.map, i).name] > x.act[Frontier(k, x.map, b).name])

\* What is compared is the same, and an unbeatable clause is not beaten.
LEMMA UnbeatableIsNotBeaten ==
  ASSUME NEW k, NEW e, NEW x, NEW E, NEW L, NEW first, Comparable(k, e, x, E, L, first),
         NEW i \in E, NEW b \in E
  PROVE  /\ ReplacesBy(e, x, i, b) <=> ReplacesBy(k, x, i, b)
         /\ UnbeatableBy(k, x, b) => ~ReplacesBy(k, x, i, b)
         /\ i \notin L /\ i # first => ~ReplacesBy(k, x, i, b)
<1>1. /\ Explicit(e, i) <=> Explicit(k, i)
      /\ Explicit(e, b) <=> Explicit(k, b)
      /\ Frontier(e, x.map, i) = Frontier(k, x.map, i)
      /\ Frontier(e, x.map, b) = Frontier(k, x.map, b)
  BY DEF Comparable
<1>2. /\ Frontier(k, x.map, i).count \in Nat \ {0} /\ Frontier(k, x.map, b).count \in Nat \ {0}
      /\ x.act[Frontier(k, x.map, i).name] \in Int /\ x.act[Frontier(k, x.map, b).name] \in Int
      /\ x.hot => x.act[Frontier(k, x.map, i).name] <= x.max
      /\ x.max \in Int
  BY DEF Comparable
<1>3. ReplacesBy(e, x, i, b) <=> ReplacesBy(k, x, i, b)
  BY <1>1 DEF ReplacesBy
<1>4. UnbeatableBy(k, x, b) => ~ReplacesBy(k, x, i, b)
  BY <1>2 DEF UnbeatableBy, ReplacesBy
<1>5. i \notin L /\ i # first => ~ReplacesBy(k, x, i, b)
  BY DEF Comparable, ReplacesBy
<1> QED BY <1>3, <1>4, <1>5

\* The loop and the scan have the same best clause, and the loop only stopped early
\* if nothing can replace it.
Together(k, x, E, acc, b) ==
  b \in E /\ acc.best = b /\ (acc.stop => UnbeatableBy(k, x, b))

\* One round more of either loop, or of both, keeps them together.
LEMMA RoundKeepsTogether ==
  ASSUME NEW k, NEW e, NEW x, NEW E, NEW L, NEW first, Comparable(k, e, x, E, L, first),
         NEW acc, NEW b, Together(k, x, E, acc, b), NEW i, i # first
  PROVE  /\ i \in L /\ i \in E => Together(k, x, E, VisitBy(k, x, acc, i), BetterBy(e, x, b, i))
         /\ i \in L /\ i \notin E => Together(k, x, E, VisitBy(k, x, acc, i), b)
         /\ i \notin L /\ i \in E => Together(k, x, E, acc, BetterBy(e, x, b, i))
<1>0. b \in E /\ acc.best = b /\ (acc.stop => UnbeatableBy(k, x, b))
  BY DEF Together
<1> DEFINE skip == acc.stop \/ (Explicit(k, acc.best) /\ ~Explicit(k, i))
           best == IF Inspect(k, x.map, i) /\ ReplacesBy(k, x, i, b) THEN i ELSE b
           next == [best |-> best, stop |-> UnbeatableBy(k, x, best), inspected |-> acc.inspected \cup {i}]
<1>1. VisitBy(k, x, acc, i) = IF skip THEN acc ELSE next
  BY <1>0 DEF VisitBy
<1>2. ASSUME i \in L, i \in E
      PROVE  Together(k, x, E, VisitBy(k, x, acc, i), BetterBy(e, x, b, i))
  <2>1. /\ ReplacesBy(e, x, i, b) <=> ReplacesBy(k, x, i, b)
        /\ UnbeatableBy(k, x, b) => ~ReplacesBy(k, x, i, b)
    BY <1>0, <1>2, UnbeatableIsNotBeaten
  <2>2. Inspect(k, x.map, i)
    BY <1>2 DEF Comparable
  <2>3. CASE skip
    <3>1. ~ReplacesBy(k, x, i, b)
      BY <1>0, <2>1, <2>3 DEF ReplacesBy
    <3>2. BetterBy(e, x, b, i) = b /\ VisitBy(k, x, acc, i) = acc
      BY <1>1, <2>1, <2>3, <3>1 DEF BetterBy
    <3> QED BY <3>2
  <2>4. CASE ~skip
    <3>1. BetterBy(e, x, b, i) = best /\ VisitBy(k, x, acc, i) = next
      BY <1>1, <2>1, <2>2, <2>4 DEF BetterBy
    <3>2. best \in E
      BY <1>0, <1>2
    <3> HIDE DEF best
    <3>3. next.best = best /\ next.stop = UnbeatableBy(k, x, best)
      OBVIOUS
    <3> HIDE DEF next
    <3> QED BY <3>1, <3>2, <3>3 DEF Together
  <2> QED BY <2>3, <2>4
<1>3. ASSUME i \in L, i \notin E PROVE Together(k, x, E, VisitBy(k, x, acc, i), b)
  <2>1. ~Inspect(k, x.map, i)
    BY <1>3 DEF Comparable
  <2>2. best = b
    BY <2>1
  <2> HIDE DEF best
  <2>3. next.best = b /\ next.stop = UnbeatableBy(k, x, b)
    BY <2>2
  <2> HIDE DEF next, skip
  <2>4. CASE skip
    BY <1>1, <2>4
  <2>5. CASE ~skip
    BY <1>0, <1>1, <2>3, <2>5 DEF Together
  <2> QED BY <2>4, <2>5
<1>4. ASSUME i \notin L, i \in E PROVE Together(k, x, E, acc, BetterBy(e, x, b, i))
  <2>1. ~ReplacesBy(e, x, i, b)
    BY <1>0, <1>4, UnbeatableIsNotBeaten
  <2>2. BetterBy(e, x, b, i) = b
    BY <2>1 DEF BetterBy
  <2> QED BY <2>2
<1> QED BY <1>2, <1>3, <1>4

\* The loop over the later clauses ends where the scan of all eligible ones does,
\* by induction over the clauses that both have come by.
LEMMA ScanAgrees ==
  ASSUME NEW n \in Nat, NEW k, NEW e, NEW x, NEW E \in SUBSET (1 .. n), NEW L \in SUBSET (1 .. n),
         NEW first \in E, Comparable(k, e, x, E, L, first),
         NEW s, Together(k, x, E, s, first)
  PROVE  Together(k, x, E, Visited(s, InOrder(k, L), k, x), Best(first, InOrder(k, E \ {first}), e, x))
<1> DEFINE F == E \ {first}
           Claim(D) ==
             /\ InOrder(k, D \cap L) \in Seq(Nat) /\ InOrder(k, D \cap F) \in Seq(Nat)
             /\ Together(k, x, E, Visited(s, InOrder(k, D \cap L), k, x),
                         Best(first, InOrder(k, D \cap F), e, x))
           M == {m \in Nat : \A D \in SUBSET (1 .. n) : Cardinality(D) = m => Claim(D)}
<1>1. F \in SUBSET (1 .. n) /\ first \notin L /\ first \notin F
  BY DEF Comparable
<1>2. Claim({})
  <2>1. {} \cap L = {} /\ {} \cap F = {} /\ {} \in SUBSET (1 .. n)
    OBVIOUS
  <2>2. InOrder(k, {}) = << >>
    BY <2>1, OrderLength
  <2>3. 0 \in Nat /\ << >> \in Seq(Nat)
    OBVIOUS
  <2>4. Visited(s, << >>, k, x) = s /\ Best(first, << >>, e, x) = first
    BY <2>3, VisitedNext, BestNext
  <2> QED BY <2>1, <2>2, <2>3, <2>4
<1>3. ASSUME NEW D \in SUBSET (1 .. n), NEW i \in D, \A j \in D \ {i} : Before(k, j, i), Claim(D \ {i})
      PROVE  Claim(D)
  <2> DEFINE C == D \ {i}
             ol == InOrder(k, C \cap L)
             of == InOrder(k, C \cap F)
             acc == Visited(s, ol, k, x)
             b == Best(first, of, e, x)
  <2>1. ol \in Seq(Nat) /\ of \in Seq(Nat) /\ Together(k, x, E, acc, b) /\ i \in Nat
    BY <1>3
  <2>2. i \in L => InOrder(k, D \cap L) = Append(ol, i)
    <3> SUFFICES ASSUME i \in L PROVE InOrder(k, D \cap L) = Append(ol, i)
      OBVIOUS
    <3> DEFINE S == D \cap L
    <3>1. /\ S \in SUBSET (1 .. n) /\ i \in S /\ S \ {i} = C \cap L
          /\ \A j \in S \ {i} : Before(k, j, i)
      BY <1>3
    <3> HIDE DEF S, C
    <3>0. LastOf(k, n, S, i)
      BY <3>1, Zenon DEF LastOf
    <3>2. InOrder(k, S) = Append(InOrder(k, S \ {i}), i)
      BY <3>0, OrderNext
    <3> QED BY <3>1, <3>2 DEF S
  <2>3. i \notin L => InOrder(k, D \cap L) = ol
    <3>1. i \notin L => D \cap L = C \cap L
      OBVIOUS
    <3> QED BY <3>1
  <2>4. i \in F => InOrder(k, D \cap F) = Append(of, i)
    <3> SUFFICES ASSUME i \in F PROVE InOrder(k, D \cap F) = Append(of, i)
      OBVIOUS
    <3> DEFINE S == D \cap F
    <3>1. /\ S \in SUBSET (1 .. n) /\ i \in S /\ S \ {i} = C \cap F
          /\ \A j \in S \ {i} : Before(k, j, i)
      BY <1>1, <1>3
    <3> HIDE DEF S, C
    <3>0. LastOf(k, n, S, i)
      BY <3>1, Zenon DEF LastOf
    <3>2. InOrder(k, S) = Append(InOrder(k, S \ {i}), i)
      BY <3>0, OrderNext
    <3> QED BY <3>1, <3>2 DEF S
  <2>5. i \notin F => InOrder(k, D \cap F) = of
    <3>1. i \notin F => D \cap F = C \cap F
      OBVIOUS
    <3> QED BY <3>1
  <2>6. i \in F => i \in E /\ i # first
    OBVIOUS
  <2>7. i \in E => i = first \/ i \in F
    OBVIOUS
  <2> HIDE DEF C, ol, of, F
  <2>8. /\ Append(ol, i) \in Seq(Nat) /\ Append(of, i) \in Seq(Nat)
        /\ Visited(s, Append(ol, i), k, x) = VisitBy(k, x, acc, i)
        /\ Best(first, Append(of, i), e, x) = BetterBy(e, x, b, i)
    BY <2>1, VisitedNext, BestNext
  <2> HIDE DEF acc, b
  <2>9. CASE i = first
    BY <1>1, <2>1, <2>3, <2>5, <2>9 DEF acc, b
  <2>10. CASE i # first
    <3>1. /\ i \in L /\ i \in E => Together(k, x, E, VisitBy(k, x, acc, i), BetterBy(e, x, b, i))
          /\ i \in L /\ i \notin E => Together(k, x, E, VisitBy(k, x, acc, i), b)
          /\ i \notin L /\ i \in E => Together(k, x, E, acc, BetterBy(e, x, b, i))
      BY <2>1, <2>10, RoundKeepsTogether
    <3>2. CASE i \in L /\ i \in F
      BY <2>2, <2>4, <2>6, <2>8, <3>1, <3>2
    <3>3. CASE i \in L /\ i \notin F
      BY <2>1, <2>2, <2>5, <2>7, <2>8, <2>10, <3>1, <3>3 DEF b
    <3>4. CASE i \notin L /\ i \in F
      BY <2>1, <2>3, <2>4, <2>6, <2>8, <3>1, <3>4 DEF acc
    <3>5. CASE i \notin L /\ i \notin F
      BY <2>1, <2>3, <2>5, <3>5 DEF acc, b
    <3> QED BY <3>2, <3>3, <3>4, <3>5
  <2> QED BY <2>9, <2>10
<1> HIDE DEF Claim
<1>4. ASSUME NEW m \in Nat, \A l \in 0 .. m - 1 : l \in M PROVE m \in M
  <2> SUFFICES ASSUME NEW D \in SUBSET (1 .. n), Cardinality(D) = m PROVE Claim(D)
    OBVIOUS
  <2>1. CASE D = {}
    BY <1>2, <2>1
  <2>2. CASE D # {}
    <3>1. PICK i \in D : \A j \in D \ {i} : Before(k, j, i)
      BY <2>2, LastExists
    <3>2. IsFiniteSet(D)
      BY OrderLength
    <3>3. Cardinality(D \ {i}) = m - 1 /\ Cardinality(D \ {i}) \in Nat
      BY <3>2, FS_RemoveElement, FS_CardinalityType
    <3>4. m - 1 \in 0 .. m - 1 /\ D \ {i} \in SUBSET (1 .. n)
      BY <3>3
    <3>5. Claim(D \ {i})
      BY <1>4, <3>3, <3>4
    <3> QED BY <1>3, <3>1, <3>5
  <2> QED BY <2>1, <2>2
<1>5. \A m \in Nat : m \in M
  <2> HIDE DEF M
  <2>1. Visits!WellOrdered
    BY LeastNatural DEF Visits!WellOrdered
  <2> QED BY <1>4, <2>1, Visits!UpTo
<1>6. Cardinality(1 .. n) \in Nat /\ 1 .. n \in SUBSET (1 .. n)
  BY OrderLength
<1>7. Claim(1 .. n)
  BY <1>5, <1>6
<1>8. (1 .. n) \cap L = L /\ (1 .. n) \cap F = F
  BY <1>1
<1> QED BY <1>7, <1>8 DEF Claim

\* The queue without its cached walks, which the scan reads.
Fresh(k) == [k EXCEPT !.states = [r \in Requirement |-> Dirty]]

\* The loop of next_decision is the loop over the later clauses.
LEMMA ConsiderIsVisited ==
  ASSUME NEW k, NEW n \in Nat, NEW map, NEW first,
         {i \in IF hot_only THEN k.hot_queue ELSE k.queue : Before(k, first, i)} \in SUBSET (1 .. n)
  PROVE  LET L == {i \in IF hot_only THEN k.hot_queue ELSE k.queue : Before(k, first, i)}
             s == [best |-> first, stop |-> Unbeatable(k, map, first), inspected |-> {}]
         IN Consider(k, map, first) = Visited(s, InOrder(k, L), k, Now(map))
<1> DEFINE L == {i \in IF hot_only THEN k.hot_queue ELSE k.queue : Before(k, first, i)}
           s == [best |-> first, stop |-> Unbeatable(k, map, first), inspected |-> {}]
           order == InOrder(k, L)
           x == Now(map)
           Visit(acc, i) ==
             IF acc.stop \/ (Explicit(k, acc.best) /\ ~Explicit(k, i)) THEN acc
             ELSE LET best == IF Inspect(k, map, i) /\ Replaces(k, map, i, acc.best)
                              THEN i ELSE acc.best
                  IN [best |-> best, stop |-> Unbeatable(k, map, best),
                      inspected |-> acc.inspected \cup {i}]
           Round(f, S) == IF S = {} THEN s ELSE Visit(f[S \ {Max(S)}], order[Max(S)])
           D == SUBSET (DOMAIN order)
<1>1. Consider(k, map, first) = (CHOOSE f : f = [S \in D |-> Round(f, S)])[DOMAIN order]
  BY DEF Consider, FoldLeft, MapThenFoldSet
<1>2. DOMAIN order = 1 .. Len(order)
  <2>1. /\ DOMAIN InOrder(k, L) = 1 .. Cardinality(L)
        /\ Len(InOrder(k, L)) = Cardinality(L)
    BY OrderLength
  <2> QED BY <2>1
<1>3. \A f, S : Round(f, S) = VisitDef(s, order, k, x, f, S)
  <2>1. x.map = map /\ x.act = name_activity /\ x.max = max_activity /\ x.hot = hot_only
    BY DEF Now
  <2> HIDE DEF x
  <2>2. \A j, b : Replaces(k, map, j, b) <=> ReplacesBy(k, x, j, b)
    BY <2>1 DEF Replaces, ReplacesBy
  <2>3. \A j : Unbeatable(k, map, j) = UnbeatableBy(k, x, j)
    BY <2>1 DEF Unbeatable, UnbeatableBy
  <2>4. ASSUME NEW acc, NEW i PROVE Visit(acc, i) = VisitBy(k, x, acc, i)
    BY <2>1, <2>2, <2>3 DEF VisitBy
  <2> HIDE DEF Visit, s, order
  <2> QED BY <2>4 DEF VisitDef
<1> HIDE DEF Round, s, order, x
<1>4. \A f : [S \in D |-> Round(f, S)] = [S \in D |-> VisitDef(s, order, k, x, f, S)]
  BY <1>3
<1>5. (CHOOSE f : f = [S \in D |-> Round(f, S)]) = Visits!Fix(s, order, k, x, D)
  BY <1>4 DEF Visits!Fix
<1>6. Consider(k, map, first) = Visited(s, order, k, x)
  BY <1>1, <1>2, <1>5 DEF Visited, Visits!Loop
<1> QED BY <1>6 DEF s, order, x

\* The scan is the scan of all eligible clauses but the first.
LEMMA ScanIsBest ==
  Inv => /\ EligibleClauses = {} => Scan = NothingEligible
         /\ \A first \in EligibleClauses :
              (\A j \in EligibleClauses \ {first} : Before(q, first, j)) =>
                LET best == Best(first, InOrder(q, EligibleClauses \ {first}), Fresh(q), Now(t.map))
                IN Scan = [made |-> TRUE, clause |-> best,
                           candidate |-> Frontier(Fresh(q), t.map, best).candidate]
<1> SUFFICES ASSUME Inv
             PROVE  /\ EligibleClauses = {} => Scan = NothingEligible
                    /\ \A first \in EligibleClauses :
                         (\A j \in EligibleClauses \ {first} : Before(q, first, j)) =>
                           LET best == Best(first, InOrder(q, EligibleClauses \ {first}), Fresh(q), Now(t.map))
                           IN Scan = [made |-> TRUE, clause |-> best,
                                      candidate |-> Frontier(Fresh(q), t.map, best).candidate]
  OBVIOUS
<1> DEFINE n == Len(q.clauses)
           E == EligibleClauses
           e == Fresh(q)
           x == Now(t.map)
<1>1. n \in Nat /\ E \in SUBSET (1 .. n)
  BY DEF Inv, Typed, EligibleClauses
<1> HIDE DEF n, E
<1>2. ASSUME E = {} PROVE Scan = NothingEligible
  <2>1. InOrder(q, E) = << >>
    BY <1>1, <1>2, OrderLength
  <2> QED BY <2>1 DEF Scan, E
<1>3. ASSUME NEW first \in E, \A j \in E \ {first} : Before(q, first, j)
      PROVE  LET best == Best(first, InOrder(q, E \ {first}), e, x)
             IN Scan = [made |-> TRUE, clause |-> best, candidate |-> Frontier(e, t.map, best).candidate]
  <2> DEFINE order == InOrder(q, E \ {first})
             Better(b, i) == IF Replaces(e, t.map, i, b) THEN i ELSE b
             best == Best(first, order, e, x)
             Round(f, S) == IF S = {} THEN first ELSE Better(f[S \ {Max(S)}], order[Max(S)])
             D == SUBSET (DOMAIN order)
  <2>1. InOrder(q, E) # << >> /\ InOrder(q, E)[1] = first /\ Tail(InOrder(q, E)) = order
    <3>1. FirstIn(q, n, E, first)
      BY <1>1, <1>3, Zenon DEF FirstIn
    <3> HIDE DEF order
    <3>3. /\ InOrder(q, E) # << >> /\ InOrder(q, E)[1] = first
          /\ Tail(InOrder(q, E)) = InOrder(q, E \ {first})
      BY <3>1, OrderFirst
    <3> QED BY <3>3 DEF order
  <2>2. DOMAIN order = 1 .. Len(order)
    <3>1. E \ {first} \in SUBSET (1 .. n)
      BY <1>1
    <3>2. /\ DOMAIN order = 1 .. Cardinality(E \ {first})
          /\ Len(order) = Cardinality(E \ {first})
      BY <1>1, <3>1, OrderLength
    <3> QED BY <3>2
  <2> HIDE DEF order
  <2>3. FoldLeft(Better, first, order) = (CHOOSE f : f = [S \in D |-> Round(f, S)])[DOMAIN order]
    BY DEF FoldLeft, MapThenFoldSet
  <2>4. \A f, S : Round(f, S) = BetterDef(first, order, e, x, f, S)
    <3> SUFFICES ASSUME NEW b, NEW i PROVE Better(b, i) = BetterBy(e, x, b, i)
      BY DEF BetterDef
    <3>1. x.map = t.map /\ x.act = name_activity
      BY DEF Now
    <3> HIDE DEF x, e
    <3>2. Replaces(e, t.map, i, b) <=> ReplacesBy(e, x, i, b)
      BY <3>1 DEF Replaces, ReplacesBy
    <3> QED BY <3>2 DEF BetterBy
  <2>5. Scan = [made |-> TRUE, clause |-> FoldLeft(Better, first, order),
                candidate |-> Frontier(e, t.map, FoldLeft(Better, first, order)).candidate]
    BY <2>1 DEF Scan, E, Fresh
  <2> HIDE DEF e, x, Round
  <2>6. \A f : [S \in D |-> Round(f, S)] = [S \in D |-> BetterDef(first, order, e, x, f, S)]
    BY <2>4
  <2>7. (CHOOSE f : f = [S \in D |-> Round(f, S)]) = Betters!Fix(first, order, e, x, D)
    BY <2>6 DEF Betters!Fix
  <2>8. FoldLeft(Better, first, order) = best
    BY <2>2, <2>3, <2>7 DEF Best, Betters!Loop
  <2> QED BY <2>5, <2>8 DEF order
<1> QED BY <1>2, <1>3 DEF E

\* What decide compares: the loop looks at the later clauses L of the queue k, and the
\* scan at all eligible ones, E.
LEMMA DecideCompares ==
  ASSUME Inv, Scores, NEW k, NEW map, NEW e, NEW E, NEW L, NEW first,
         map = t.map, k.clauses = q.clauses, k.hot_names = q.hot_names, Hot(k), Cached(k, map),
         e.clauses = k.clauses, \A r \in Requirement : e.states[r] = Dirty,
         Propagated,
         E = {i \in k.queue : Inspect(k, map, i)}, k.queue \subseteq DOMAIN k.clauses,
         L = {i \in IF hot_only THEN k.hot_queue ELSE k.queue : Before(k, first, i)},
         first \in E, \A j \in E \ {first} : Before(k, first, j)
  PROVE  Comparable(k, e, Now(map), E, L, first)
<1> DEFINE x == Now(map)
<1>0. x.map = map /\ x.act = name_activity /\ x.max = max_activity /\ x.hot = hot_only
  BY DEF Now
<1>1. /\ k.clauses \in Seq(Tracked) /\ DOMAIN k.clauses = 1 .. Len(k.clauses) /\ Len(k.clauses) \in Nat
      /\ map \in Assignment
  BY DEF Inv, Typed, InStep
<1>2. k.hot_queue = {i \in k.queue : k.clauses[i].hot}
  BY DEF Hot
<1>3. first \notin L
  <2>1. first \in 1 .. Len(k.clauses)
    BY <1>1
  <2>2. ~Before(k, first, first)
    BY <1>1, <2>1, BeforeIsTotal
  <2> QED BY <2>2
<1>4. L \subseteq k.queue
  BY <1>2
<1> HIDE DEF x
<1>5. ASSUME NEW i \in E
      PROVE  /\ Frontier(k, map, i) = Walk(map, k.clauses[i].requirement)
             /\ Frontier(e, map, i) = Frontier(k, map, i)
             /\ Frontier(k, map, i).count \in Nat \ {0}
             /\ Frontier(k, map, i).name \in NamesOf(k.clauses[i].requirement) \cap Name
             /\ Explicit(e, i) <=> Explicit(k, i)
  <2> DEFINE r == k.clauses[i].requirement
  <2>1. i \in k.queue /\ i \in DOMAIN k.clauses /\ Inspect(k, map, i)
    OBVIOUS
  <2>2. r \in Requirement
    BY <1>1, <2>1, ClauseType
  <2>3. EvalRequirement(k, map, r).kind = "Frontier" /\ Active(k, map, i)
    BY <2>1 DEF Inspect
  <2>4. EvalRequirement(k, map, r) = Walk(map, r)
    BY <2>2, <2>3, EvalAnswers
  <2>5. e.clauses[i].requirement = r /\ e.states[r] = Dirty
    BY <2>2
  <2>6. EvalRequirement(e, map, r) = Walk(map, r)
    BY <2>5 DEF EvalRequirement
  <2>7. Active(q, t.map, i) /\ i \in DOMAIN q.clauses
    BY <2>1, <2>3 DEF Active, ConditionHolds
  <2>8. \E v \in CandidatesOf[r] : ~IsFalse(map, v)
    BY <2>7 DEF Propagated
  <2> HIDE DEF r
  <2>9. Walk(map, r).count \in Nat \ {0} /\ Walk(map, r).name \in NamesOf(r) \cap Name
    BY <1>1, <2>2, <2>3, <2>4, <2>8, FrontierCounts
  <2>10. Frontier(k, map, i) = Walk(map, r) /\ Frontier(e, map, i) = Walk(map, r)
    BY <2>4, <2>5, <2>6 DEF Frontier, r
  <2>11. Explicit(e, i) <=> Explicit(k, i)
    BY DEF Explicit
  <2> QED BY <2>9, <2>10, <2>11 DEF r
<1>6. ASSUME NEW i \in E
      PROVE  /\ x.act[Frontier(k, map, i).name] \in Int
             /\ x.hot => /\ x.act[Frontier(k, map, i).name] <= x.max
                         /\ 0 <= x.act[Frontier(k, map, i).name]
  <2>1. Frontier(k, map, i).name \in Name
    BY <1>5
  <2> QED BY <1>0, <2>1 DEF Scores
<1>7. ASSUME NEW i \in E \ (L \cup {first}), NEW b \in E
      PROVE  ~(x.act[Frontier(k, map, i).name] > x.act[Frontier(k, map, b).name])
  <2>1. Before(k, first, i) /\ i \in k.queue /\ i \in DOMAIN k.clauses
    OBVIOUS
  <2>2. hot_only /\ ~k.clauses[i].hot
    BY <1>2, <2>1
  <2>3. NamesOf(k.clauses[i].requirement) \cap k.hot_names = {}
    BY <2>1, <2>2, Zenon DEF Hot
  <2>4. Frontier(k, map, i).name \notin q.hot_names /\ Frontier(k, map, i).name \in Name
    BY <1>5, <2>3
  <2>5. x.act[Frontier(k, map, i).name] = 0
    BY <1>0, <2>2, <2>4 DEF Scores
  <2> QED BY <1>0, <1>6, <2>2, <2>5
<1>8. x.max \in Int
  BY <1>0 DEF Scores
<1>9. \A i \in L : Inspect(k, map, i) <=> i \in E
  BY <1>4
<1> HIDE DEF Hot, Cached
<1>10. Comparable(k, e, x, E, L, first)
  BY <1>0, <1>3, <1>5, <1>6, <1>7, <1>8, <1>9 DEF Comparable
<1> QED BY <1>10 DEF x

\* An eligible clause is one that is queued and found eligible.
LEMMA EligibleIsInspected ==
  ASSUME NEW k, NEW map, k.clauses \in Seq(Tracked), k.queue \subseteq DOMAIN k.clauses, Cached(k, map),
         \A i \in DOMAIN k.clauses \ k.queue : Idle(k, map, i)
  PROVE  {i \in k.queue : Inspect(k, map, i)}
           = {i \in DOMAIN k.clauses :
                /\ Active(k, map, i)
                /\ \A v \in CandidatesOf[k.clauses[i].requirement] : ~IsTrue(map, v)}
<1> SUFFICES ASSUME NEW i \in DOMAIN k.clauses, Active(k, map, i)
             PROVE  (i \in k.queue /\ Inspect(k, map, i))
                      <=> \A v \in CandidatesOf[k.clauses[i].requirement] : ~IsTrue(map, v)
  BY DEF Inspect
<1> DEFINE r == k.clauses[i].requirement
<1>1. r \in Requirement
  BY ClauseType
<1>2. ASSUME i \in k.queue, Inspect(k, map, i) PROVE \A v \in CandidatesOf[r] : ~IsTrue(map, v)
  <2>1. EvalRequirement(k, map, r).kind = "Frontier"
    BY <1>2 DEF Inspect
  <2>2. Walk(map, r).kind = "Frontier"
    BY <1>1, <2>1, EvalAnswers
  <2> HIDE DEF r
  <2> QED BY <1>1, <2>2, WalkIsFrontier
<1>3. ASSUME \A v \in CandidatesOf[r] : ~IsTrue(map, v) PROVE i \in k.queue /\ Inspect(k, map, i)
  <2>1. i \in k.queue
    <3>1. SUFFICES ASSUME i \notin k.queue PROVE FALSE
      OBVIOUS
    <3>2. Idle(k, map, i)
      BY <3>1
    <3>3. k.states[r].kind = "Satisfied"
      BY <3>2 DEF Idle, Active
    <3>4. k.states[r].by \in CandidatesOf[r] /\ IsTrue(map, k.states[r].by)
      BY <1>1, <3>3 DEF Cached, Dirty
    <3> QED BY <1>3, <3>4
  <2>2. EvalRequirement(k, map, r).kind = "Frontier"
    BY <1>1, <1>3, EvalAnswers
  <2> QED BY <2>1, <2>2 DEF Inspect
<1> QED BY <1>2, <1>3

\* What next_decision answers, by the first eligible clause and the loop after it.
LEMMA NextDecisionAnswers ==
  ASSUME NEW k, NEW n \in Nat, k.queue \in SUBSET (1 .. n), k.hot_queue \subseteq k.queue,
         NEW map, NEW E, E = {i \in k.queue : Inspect(k, map, i)}
  PROVE  /\ E = {} => NextDecision(k, map).decision = NothingEligible
         /\ \A first \in E : (\A j \in E \ {first} : Before(k, first, j)) =>
              LET L == {i \in IF hot_only THEN k.hot_queue ELSE k.queue : Before(k, first, i)}
                  s == [best |-> first, stop |-> Unbeatable(k, map, first), inspected |-> {}]
                  best == Visited(s, InOrder(k, L), k, Now(map)).best
              IN NextDecision(k, map).decision = [made |-> TRUE, clause |-> best,
                                                  candidate |-> Frontier(k, map, best).candidate]
<1>1. E = {} => NextDecision(k, map).decision = NothingEligible
  BY DEF NextDecision
<1>2. ASSUME NEW first \in E, \A j \in E \ {first} : Before(k, first, j)
      PROVE  LET L == {i \in IF hot_only THEN k.hot_queue ELSE k.queue : Before(k, first, i)}
                 s == [best |-> first, stop |-> Unbeatable(k, map, first), inspected |-> {}]
                 best == Visited(s, InOrder(k, L), k, Now(map)).best
             IN NextDecision(k, map).decision = [made |-> TRUE, clause |-> best,
                                                 candidate |-> Frontier(k, map, best).candidate]
  <2> DEFINE L == {i \in IF hot_only THEN k.hot_queue ELSE k.queue : Before(k, first, i)}
             s == [best |-> first, stop |-> Unbeatable(k, map, first), inspected |-> {}]
             v == Visited(s, InOrder(k, L), k, Now(map))
  <2>1. FirstIn(k, n, E, first)
    <3>1. E \in SUBSET (1 .. n)
      OBVIOUS
    <3> QED BY <1>2, <3>1 DEF FirstIn
  <2>2. InOrder(k, E)[1] = first
    BY <2>1, OrderFirst
  <2>3. L \in SUBSET (1 .. n)
    OBVIOUS
  <2>4. Consider(k, map, first) = v
    BY <2>3, ConsiderIsVisited
  <2> HIDE DEF v
  <2>5. NextDecision(k, map).decision = [made |-> TRUE, clause |-> v.best,
                                         candidate |-> Frontier(k, map, v.best).candidate]
    <3>1. E # {}
      OBVIOUS
    <3> QED BY <2>2, <2>4, <3>1, Zenon DEF NextDecision
  <2> QED BY <2>5 DEF v
<1> QED BY <1>1, <1>2

\* decide answers what the scan answers.
LEMMA DecideScans ==
  ASSUME Inv, Scores, Decide
  PROVE  DecidesAsTheScan'
<1> DEFINE V == Trail!Routed(t.sync_floor)
           k == RouteTouched(q, t.map, V)
           map == t.map
           n == Len(q.clauses)
           E == EligibleClauses'
           e == Fresh(q')
           x == Now(map)
<1>1. /\ Propagated
      /\ q' = NextDecision(k, map).queue /\ decision' = NextDecision(k, map).decision
      /\ t' = TakeSyncFloor(t) /\ UNCHANGED activity
  BY DEF Decide
<1>2. /\ Fields(q) /\ q.clauses \in Seq(Tracked) /\ q.queue \subseteq DOMAIN q.clauses
      /\ InStep(t, mirror)
  BY DEF Inv, Typed
<1>3. PICK old \in Assignment : Explained(old)
  BY DEF Inv
<1>4. \A v \in Variable : v \notin V => old[v] = t.map[v]
  BY <1>2, <1>3, UnroutedKeepsValue DEF Explained
<1>5. Undone(t, mirror) \subseteq V
  BY DEF Undone, Trail!Routed
<1> HIDE DEF V
<1>6. Fields(k) /\ k.clauses = q.clauses /\ k.queue \subseteq DOMAIN k.clauses
  BY <1>2, RouteKeeps
<1>7. Cached(k, map)
  BY <1>2, <1>3, <1>4, RouteCached DEF Explained
<1>8. \A i \in DOMAIN k.clauses \ k.queue : Idle(k, map, i)
  BY <1>2, <1>3, <1>4, <1>5, RouteIdle DEF Explained
<1>9. Hot(k) /\ k.hot_names = q.hot_names
  <2>1. Hot(q)
    BY Zenon DEF Inv, HotInLockstep, Hot
  <2>2. Hot(k)
    BY <1>2, <2>1, RouteHot, Zenon
  <2>3. PICK states, woken : k = Enqueue([q EXCEPT !.states = states], map, woken)
    BY Zenon DEF RouteTouched
  <2> DEFINE d == [q EXCEPT !.states = states]
  <2> HIDE DEF k
  <2>4. Fields(d) /\ d.hot_names = q.hot_names
    BY <1>2 DEF Fields
  <2>5. k = Enqueue(d, map, woken)
    BY <2>3
  <2> HIDE DEF d
  <2> QED BY <2>2, <2>4, <2>5, EnqueueFields
<1> HIDE DEF k
<1>10. PICK ids : q' = AfterInspecting(k, map, ids)
  BY <1>1 DEF NextDecision
<1>11. Fields(q') /\ q'.clauses = k.clauses
  BY <1>6, <1>10, InspectKeeps
<1>12. t'.map = map
  BY <1>2, <1>1 DEF TakeSyncFloor, InStep, Tracker
<1>13. E = {i \in k.queue : Inspect(k, map, i)}
  <2>1. E = {i \in DOMAIN k.clauses :
               /\ Active(k, map, i)
               /\ \A v \in CandidatesOf[k.clauses[i].requirement] : ~IsTrue(map, v)}
    BY <1>11, <1>12 DEF EligibleClauses, Active, ConditionHolds
  <2> QED BY <1>2, <1>6, <1>7, <1>8, <2>1, EligibleIsInspected
<1>14. Now(t.map)' = x
  BY <1>1, <1>12 DEF Now, activity, hot_only
<1>15. /\ E = {} => Scan' = NothingEligible
       /\ \A first \in E :
            (\A j \in E \ {first} : Before(q', first, j)) =>
              LET best == Best(first, InOrder(q', E \ {first}), e, x)
              IN Scan' = [made |-> TRUE, clause |-> best,
                          candidate |-> Frontier(e, map, best).candidate]
  <2>1. Inv'
    BY DecideStep
  <2>2. (Inv => /\ EligibleClauses = {} => Scan = NothingEligible
                /\ \A first \in EligibleClauses :
                     (\A j \in EligibleClauses \ {first} : Before(q, first, j)) =>
                       LET best == Best(first, InOrder(q, EligibleClauses \ {first}), Fresh(q), Now(t.map))
                       IN Scan = [made |-> TRUE, clause |-> best,
                                  candidate |-> Frontier(Fresh(q), t.map, best).candidate])'
    BY ScanIsBest, PTL
  <2> QED BY <1>12, <1>14, <2>1, <2>2
<1>16. n \in Nat /\ k.queue \in SUBSET (1 .. n) /\ E \in SUBSET (1 .. n) /\ k.hot_queue \subseteq k.queue
  BY <1>2, <1>6, <1>9, <1>13 DEF Hot
<1>17. \A i, j : Before(q', i, j) <=> Before(k, i, j)
  BY <1>11 DEF Before, ParentPosition
<1>18. \A S : InOrder(q', S) = InOrder(k, S)
  BY <1>11 DEF InOrder, Before, ParentPosition
<1>19. e.clauses = k.clauses /\ \A r \in Requirement : e.states[r] = Dirty
  BY <1>11 DEF Fresh, Fields
<1> HIDE DEF E, e, x, map, n
<1>20. CASE E = {}
  <2>1. NextDecision(k, map).decision = NothingEligible
    BY <1>13, <1>16, <1>20, NextDecisionAnswers
  <2> QED BY <1>1, <1>15, <1>20, <2>1 DEF DecidesAsTheScan
<1>21. CASE E # {}
  <2>1. PICK first \in E : \A j \in E \ {first} : Before(k, first, j)
    BY <1>16, <1>21, FirstExists
  <2> DEFINE L == {i \in IF hot_only THEN k.hot_queue ELSE k.queue : Before(k, first, i)}
             s == [best |-> first, stop |-> Unbeatable(k, map, first), inspected |-> {}]
             v == Visited(s, InOrder(k, L), k, x)
             best == Best(first, InOrder(k, E \ {first}), e, x)
  <2>2. L \in SUBSET (1 .. n)
    BY <1>16
  <2>3. NextDecision(k, map).decision = [made |-> TRUE, clause |-> v.best,
                                         candidate |-> Frontier(k, map, v.best).candidate]
    BY <1>13, <1>16, <2>1, NextDecisionAnswers DEF x
  <2>4. Scan' = [made |-> TRUE, clause |-> best, candidate |-> Frontier(e, map, best).candidate]
    <3>1. \A j \in E \ {first} : Before(q', first, j)
      BY <1>17, <2>1
    <3>2. InOrder(q', E \ {first}) = InOrder(k, E \ {first})
      BY <1>18
    <3> QED BY <1>15, <2>1, <3>1, <3>2
  <2>5. Comparable(k, e, x, E, L, first)
    BY <1>1, <1>6, <1>7, <1>9, <1>13, <1>19, <2>1, DecideCompares DEF map, x
  <2>6. Together(k, x, E, s, first)
    BY <2>1 DEF Together, Unbeatable, UnbeatableBy, x, Now
  <2> HIDE DEF L, s
  <2>7. Together(k, x, E, v, best)
    BY <1>16, <2>1, <2>2, <2>5, <2>6, ScanAgrees
  <2> HIDE DEF v, best
  <2>8. best \in E /\ v.best = best
    BY <2>7 DEF Together
  <2>9. Frontier(e, map, best) = Frontier(k, map, best)
    <3>1. x.map = map
      BY DEF x, Now
    <3> QED BY <2>5, <2>8, <3>1 DEF Comparable
  <2> QED BY <1>1, <2>3, <2>4, <2>8, <2>9 DEF DecidesAsTheScan
<1> QED BY <1>20, <1>21

----------------------------------------------------------------------------
(* The theorems                                                             *)

\* Once the queue has synced, the assignment at that sync is the current one.
LEMMA SyncedExplained ==
  ASSUME Inv, InSync
  PROVE  /\ Cached(q, t.map)
         /\ \A i \in DOMAIN q.clauses \ q.queue : Idle(q, t.map, i)
<1>1. PICK old \in Assignment : Explained(old)
  BY DEF Inv
<1>2. InStep(t, mirror) /\ t.sync_floor = Len(t.stack) /\ Len(mirror) = Len(t.stack)
  BY DEF Inv, InSync
<1>3. Len(t.stack) \in Nat
  BY <1>2, StepFacts
<1>4. Trail!Routed(t.sync_floor) = {} /\ Undone(t, mirror) = {}
  BY <1>2, <1>3 DEF Trail!Routed, Undone
<1>5. \A v \in Variable : old[v] = t.map[v]
  BY <1>1, <1>2, <1>4, UnroutedKeepsValue DEF Explained
<1>6. old = t.map
  BY <1>2, <1>5 DEF Assignment, InStep
<1> QED BY <1>1, <1>4, <1>6 DEF Explained

\* No clause sleeps through the change that makes it eligible, for any problem,
\* any trail and any order of pushes, pops, restarts and registrations.
THEOREM NoEligibleClauseSleeps == Spec => []EligibleIsQueued
<1>1. Inv => EligibleIsQueued
  <2> SUFFICES ASSUME Inv, InSync, NEW i \in EligibleClauses, i \notin q.queue
               PROVE  FALSE
    BY DEF EligibleIsQueued
  <2> DEFINE r == q.clauses[i].requirement
  <2>1. /\ i \in DOMAIN q.clauses /\ IsTrue(t.map, q.clauses[i].parent)
        /\ ConditionHolds(t.map, q.clauses[i])
        /\ \A v \in CandidatesOf[r] : ~IsTrue(t.map, v)
    BY DEF EligibleClauses, Active
  <2>2. Cached(q, t.map) /\ Idle(q, t.map, i)
    BY <2>1, SyncedExplained
  <2>3. r \in Requirement
    BY <2>1, ClauseType DEF Inv, Typed
  <2>4. q.states[r].kind = "Satisfied"
    BY <2>1, <2>2 DEF Idle
  <2>5. q.states[r].by \in CandidatesOf[r] /\ IsTrue(t.map, q.states[r].by)
    BY <2>2, <2>3, <2>4 DEF Cached, Dirty
  <2> QED BY <2>1, <2>5
<1> QED BY <1>1, InvAlways, PTL

\* Once the queue has synced, every cached walk is what a fresh walk would find.
THEOREM CachesStayFresh == Spec => []CachesAreFresh
<1>1. Inv => CachesAreFresh
  <2> SUFFICES ASSUME Inv, InSync, NEW r \in Requirement
               PROVE  /\ q.states[r].kind = "Satisfied" =>
                           /\ q.states[r].by \in CandidatesOf[r]
                           /\ IsTrue(t.map, q.states[r].by)
                      /\ q.states[r].kind = "Frontier" => q.states[r] = Walk(t.map, r)
    BY DEF CachesAreFresh
  <2>1. Cached(q, t.map)
    BY SyncedExplained
  <2> QED BY <2>1 DEF Cached, Dirty
<1> QED BY <1>1, InvAlways, PTL

\* Hot flags, hot names and the hot queue never diverge, however registrations,
\* promotions, wake-ups and dequeues interleave.
THEOREM HotStaysInLockstep == Spec => []HotInLockstep
<1>1. Inv => HotInLockstep
  BY DEF Inv
<1> QED BY <1>1, InvAlways, PTL

\* The shortcuts of next_decision (the hot queue, the early stops, the cached walks, the
\* clauses that sleep) change nothing: whatever was pushed, popped, registered and bumped
\* before, decide answers what a scan of all eligible clauses answers.
THEOREM DecidesLikeAScan == Spec => []DecidesAsTheScan
<1>1. Init => DecidesAsTheScan
  BY DEF Init, Undecided, DecidesAsTheScan
<1>2. Inv /\ Scores /\ DecidesAsTheScan /\ [Next]_vars => DecidesAsTheScan'
  <2> SUFFICES ASSUME Inv, Scores, DecidesAsTheScan, [Next]_vars PROVE DecidesAsTheScan'
    OBVIOUS
  <2>1. CASE decision' = Undecided
    BY <2>1 DEF Undecided, DecidesAsTheScan
  <2>2. CASE Decide
    BY <2>2, DecideScans
  <2>3. CASE UNCHANGED vars
    <3>1. /\ decision' = decision /\ q' = q /\ t' = t
          /\ name_activity' = name_activity /\ max_activity' = max_activity /\ activity_add' = activity_add
      BY <2>3 DEF vars
    <3>2. Scan' = Scan
      BY <3>1, SMTT(60) DEF Scan, EligibleClauses, Replaces, FoldLeft, MapThenFoldSet
    <3> QED BY <3>1, <3>2 DEF DecidesAsTheScan
  <2>4. CASE Next /\ ~Decide
    <3>1. decision' = Undecided
      BY <2>4 DEF Next, Push, Pop, Restart, AddRequiresClause, LearnClause
    <3> QED BY <2>1, <3>1
  <2> QED BY <2>2, <2>3, <2>4
<1> QED BY <1>1, <1>2, ScoresAlways, PTL DEF Spec
============================================================================
