----------------------- MODULE DecisionTrackerProofs -----------------------
(***************************************************************************)
(* What the operations of the decision tracker do to its record: the       *)
(* lemmas that the proofs about its clients rest on.                       *)
(***************************************************************************)
EXTENDS DecisionTracker, SequenceTheorems, WellFoundedInduction, TLAPS

\* Every non-empty set of naturals has a least element: the well-foundedness
\* of < on Nat, in the form the loop of undo_until needs it.
LEMMA LeastNatural ==
  ASSUME NEW S, S \subseteq Nat, S # {}
  PROVE  \E x \in S : \A y \in S : x <= y
<1> DEFINE R == OpToRel(<, Nat)
<1>1. IsWellFoundedOn(R, Nat)
  BY NatLessThanWellFounded
<1>2. \A x, y \in Nat : y < x => <<y, x>> \in R
  BY DEF OpToRel
<1> HIDE DEF R
<1>3. PICK x \in S : \A y \in S : <<y, x>> \notin R
  BY <1>1, WFMin
<1>4. ASSUME NEW y \in S PROVE x <= y
  <2>1. ~ (y < x)
    BY <1>2, <1>3
  <2> QED BY <2>1
<1> QED BY <1>3, <1>4

\* The fields of a trail entry have the types of struct Decision.
LEMMA EntryType ==
  ASSUME NEW s \in Seq(Decision), NEW i \in 1 .. Len(s)
  PROVE  s[i].variable \in Variable /\ s[i].value \in BOOLEAN
<1>1. s[i] \in Decision
  BY ElementOfSeq
<1> QED BY <1>1 DEF Decision

\* The loop of undo_until ends at a well-defined place: there is a length at
\* which the last kept entry is at or below `level` and all popped ones above.
LEMMA KeptLengthExists ==
  ASSUME NEW x \in Tracker, NEW level \in Nat
  PROVE  /\ KeptLength(x, level) \in 0 .. Len(x.stack)
         /\ \A i \in KeptLength(x, level)+1 .. Len(x.stack) :
              LevelOf(x.map, x.stack[i].variable) > level
<1> DEFINE n == Len(x.stack)
           High(i) == LevelOf(x.map, x.stack[i].variable) > level
           Cuts == {k \in 0 .. n : \A i \in k+1 .. n : High(i)}
<1>1. x.stack \in Seq(Decision) /\ n \in Nat
  BY DEF Tracker
<1>2. \A i \in 1 .. n : LevelOf(x.map, x.stack[i].variable) \in Int
  <2> SUFFICES ASSUME NEW i \in 1 .. n
               PROVE  LevelOf(x.map, x.stack[i].variable) \in Int
    OBVIOUS
  <2>1. x.stack[i].variable \in Variable
    BY <1>1, EntryType
  <2>2. x.map \in [Variable -> Int]
    BY DEF Tracker
  <2>3. x.map[x.stack[i].variable] \in Int
    BY <2>1, <2>2
  <2> QED BY <2>3 DEF LevelOf
<1>3. n \in Cuts
  BY <1>1
<1>4. PICK k \in Cuts : \A y \in Cuts : k <= y
  <2>1. Cuts \subseteq Nat /\ Cuts # {}
    BY <1>1, <1>3
  <2> HIDE DEF Cuts
  <2> QED BY <2>1, LeastNatural
<1>5. k = 0 \/ LevelOf(x.map, x.stack[k].variable) <= level
  <2> SUFFICES ASSUME k # 0, High(k) PROVE FALSE
    BY <1>1, <1>2
  <2>1. \A i \in (k-1)+1 .. n : High(i)
    <3> SUFFICES ASSUME NEW i \in (k-1)+1 .. n PROVE High(i)
      OBVIOUS
    <3>1. i = k \/ i \in k+1 .. n
      BY <1>1
    <3> HIDE DEF High
    <3> QED BY <3>1, <1>4
  <2>2. k - 1 \in Cuts
    BY <1>1, <1>4, <2>1
  <2>3. k <= k - 1 /\ k \in Nat
    <3>1. k \in Nat
      BY <1>1
    <3> HIDE DEF Cuts
    <3> QED BY <1>4, <2>2, <3>1
  <2> QED BY <2>3
<1>6. \E m \in 0 .. Len(x.stack) :
        /\ m = 0 \/ LevelOf(x.map, x.stack[m].variable) <= level
        /\ \A i \in m+1 .. Len(x.stack) :
             LevelOf(x.map, x.stack[i].variable) > level
  BY <1>4, <1>5
<1> QED BY <1>6 DEF KeptLength

\* Cutting the trail (undo_last, and the loop of undo_until) keeps its first k
\* entries and the map entries of all variables that are not popped.
LEMMA CutToProperties ==
  ASSUME NEW x \in Tracker, NEW k \in 0 .. Len(x.stack)
  PROVE  /\ CutTo(x, k) \in Tracker
         /\ Len(CutTo(x, k).stack) = k
         /\ \A i \in 1 .. k : CutTo(x, k).stack[i] = x.stack[i]
         /\ CutTo(x, k).sync_floor <= k
         /\ CutTo(x, k).sync_floor <= x.sync_floor
         /\ \A v \in Variable :
              IF \E i \in k+1 .. Len(x.stack) : x.stack[i].variable = v
              THEN CutTo(x, k).map[v] = 0
              ELSE CutTo(x, k).map[v] = x.map[v]
<1>1. /\ x.stack \in Seq(Decision) /\ x.map \in [Variable -> Int]
      /\ x.sync_floor \in Nat /\ x.propagate_index \in Nat
  BY DEF Tracker
<1>2. Len(x.stack) \in Nat
  BY <1>1
<1>3. /\ SubSeq(x.stack, 1, k) \in Seq(Decision)
      /\ Len(SubSeq(x.stack, 1, k)) = k
      /\ \A i \in 1 .. k : SubSeq(x.stack, 1, k)[i] = x.stack[i]
  <2>1. \A i \in 1 .. k : i \in 1 .. Len(x.stack)
    BY <1>2
  <2>2. \A i \in 1 .. k : x.stack[i] \in Decision
    BY <1>1, <2>1, ElementOfSeq
  <2> QED BY <1>1, <1>2, <2>2
<1> DEFINE m == [v \in Variable |->
                   IF \E i \in k+1 .. Len(x.stack) : x.stack[i].variable = v
                   THEN 0 ELSE x.map[v]]
           f == IF x.sync_floor < k THEN x.sync_floor ELSE k
<1>4. m \in [Variable -> Int]
  BY <1>1
<1>5. f \in Nat /\ f <= k /\ f <= x.sync_floor /\ k \in Nat
  BY <1>1, <1>2
<1>6. CutTo(x, k) = [map |-> m, stack |-> SubSeq(x.stack, 1, k),
                     propagate_index |-> k, sync_floor |-> f]
  BY DEF CutTo
<1>7. \A v \in Variable :
        IF \E i \in k+1 .. Len(x.stack) : x.stack[i].variable = v
        THEN m[v] = 0 ELSE m[v] = x.map[v]
  OBVIOUS
<1> HIDE DEF m, f
<1>8. CutTo(x, k) \in Tracker
  BY <1>3, <1>4, <1>5, <1>6 DEF Tracker
<1> QED BY <1>3, <1>5, <1>6, <1>7, <1>8

\* clear (and undo_until(0)) leaves an empty, well-typed tracker.
LEMMA ClearProperties ==
  /\ Clear \in Tracker
  /\ Clear.stack = << >> /\ Clear.sync_floor = 0
  /\ \A v \in Variable : Clear.map[v] = 0
<1>1. << >> \in Seq(Decision)
  OBVIOUS
<1>2. [v \in Variable |-> 0] \in [Variable -> Int]
  OBVIOUS
<1> QED BY <1>1, <1>2 DEF Clear, Tracker

\* Popping entries off the end keeps map and trail in agreement.
LEMMA CutConsistent ==
  ASSUME NEW x \in Tracker, Consistent(x), NEW k \in 0 .. Len(x.stack)
  PROVE  Consistent(CutTo(x, k))
<1> DEFINE y == CutTo(x, k)
           n == Len(x.stack)
<1>1. /\ Len(y.stack) = k
      /\ \A i \in 1 .. k : y.stack[i] = x.stack[i]
      /\ \A v \in Variable :
           IF \E i \in k+1 .. n : x.stack[i].variable = v
           THEN y.map[v] = 0 ELSE y.map[v] = x.map[v]
  BY CutToProperties
<1>2. x.stack \in Seq(Decision) /\ n \in Nat /\ k \in Nat /\ k <= n
  BY DEF Tracker
<1>3. \A i \in 1 .. n : x.stack[i].variable \in Variable
  BY <1>2, EntryType
<1> HIDE DEF y, n
<1>4. \A i \in 1 .. k : y.map[x.stack[i].variable] = x.map[x.stack[i].variable]
  <2> SUFFICES ASSUME NEW i \in 1 .. k
               PROVE  y.map[x.stack[i].variable] = x.map[x.stack[i].variable]
    OBVIOUS
  <2>1. \A j \in k+1 .. n : x.stack[j].variable # x.stack[i].variable
    BY <1>2 DEF Consistent, n
  <2> QED BY <1>1, <1>2, <1>3, <2>1
<1>5. ASSUME NEW v \in Variable, y.map[v] # 0
      PROVE  \E i \in 1 .. k : x.stack[i].variable = v
  <2>1. /\ ~ \E i \in k+1 .. n : x.stack[i].variable = v
        /\ x.map[v] # 0
    BY <1>1, <1>5
  <2>2. PICK i \in 1 .. n : x.stack[i].variable = v
    BY <2>1 DEF Consistent, IsUndecided, n
  <2>3. i \in 1 .. k
    BY <1>2, <2>1, <2>2
  <2> QED BY <2>2, <2>3
<1>6. \A i \in 1 .. Len(y.stack) :
        /\ IsTrue(y.map, y.stack[i].variable) <=> y.stack[i].value
        /\ ~IsUndecided(y.map, y.stack[i].variable)
  BY <1>1, <1>2, <1>4 DEF Consistent, IsTrue, IsUndecided, n
<1>7. \A v \in Variable :
        ~IsUndecided(y.map, v)
          => \E i \in 1 .. Len(y.stack) : y.stack[i].variable = v
  BY <1>1, <1>5 DEF IsUndecided
<1>8. \A i, j \in 1 .. Len(y.stack) :
        i < j => /\ y.stack[i].variable # y.stack[j].variable
                 /\ LevelOf(y.map, y.stack[i].variable)
                      <= LevelOf(y.map, y.stack[j].variable)
  <2> SUFFICES ASSUME NEW i \in 1 .. k, NEW j \in 1 .. k, i < j
               PROVE  /\ y.stack[i].variable # y.stack[j].variable
                      /\ LevelOf(y.map, y.stack[i].variable)
                           <= LevelOf(y.map, y.stack[j].variable)
    BY <1>1
  <2>1. i \in 1 .. n /\ j \in 1 .. n
    BY <1>2
  <2>2. /\ x.stack[i].variable # x.stack[j].variable
        /\ LevelOf(x.map, x.stack[i].variable)
             <= LevelOf(x.map, x.stack[j].variable)
    BY <2>1 DEF Consistent, n
  <2>3. /\ LevelOf(y.map, x.stack[i].variable) = LevelOf(x.map, x.stack[i].variable)
        /\ LevelOf(y.map, x.stack[j].variable) = LevelOf(x.map, x.stack[j].variable)
    BY <1>4 DEF LevelOf
  <2> QED BY <1>1, <2>2, <2>3
<1> QED BY <1>6, <1>7, <1>8 DEF Consistent, y

\* try_add_decision pushes one entry for an undecided variable and changes
\* nothing otherwise.
LEMMA TryAddProperties ==
  ASSUME NEW x \in Tracker, NEW d \in Decision, NEW level \in Nat
  PROVE  /\ TryAddDecision(x, d, level) \in Tracker
         /\ TryAddDecision(x, d, level).sync_floor = x.sync_floor
         /\ \/ TryAddDecision(x, d, level) = x
            \/ /\ x.map[d.variable] = 0
               /\ TryAddDecision(x, d, level).stack = Append(x.stack, d)
               /\ TryAddDecision(x, d, level).map
                    = [x.map EXCEPT ![d.variable] = IF d.value THEN level ELSE -level]
<1>1. /\ x.stack \in Seq(Decision) /\ x.map \in [Variable -> Int]
      /\ x.sync_floor \in Nat /\ x.propagate_index \in Nat
      /\ x = [map |-> x.map, stack |-> x.stack,
              propagate_index |-> x.propagate_index, sync_floor |-> x.sync_floor]
  BY DEF Tracker
<1>2. CASE TryAddResult(x, d) = "added"
  <2> DEFINE m == [x.map EXCEPT ![d.variable] = IF d.value THEN level ELSE -level]
  <2>1. x.map[d.variable] = 0
    BY <1>2 DEF TryAddResult, IsUndecided
  <2>2. TryAddDecision(x, d, level)
          = [map |-> m, stack |-> Append(x.stack, d),
             propagate_index |-> x.propagate_index, sync_floor |-> x.sync_floor]
    BY <1>1, <1>2 DEF TryAddDecision, WithValueAndLevel
  <2>3. m \in [Variable -> Int] /\ Append(x.stack, d) \in Seq(Decision)
    BY <1>1 DEF Decision
  <2> HIDE DEF m
  <2>4. TryAddDecision(x, d, level) \in Tracker
    BY <1>1, <2>2, <2>3 DEF Tracker
  <2> QED BY <2>1, <2>2, <2>4 DEF m
<1>3. CASE TryAddResult(x, d) # "added"
  BY <1>3 DEF TryAddDecision
<1> QED BY <1>2, <1>3

\* The levels along a consistent trail are at most that of its last entry.
LEMMA LevelsBelowTop ==
  ASSUME NEW x \in Tracker, Consistent(x), NEW i \in 1 .. Len(x.stack)
  PROVE  LevelOf(x.map, x.stack[i].variable) <= TopLevel(x)
<1> DEFINE n == Len(x.stack)
<1>1. x.stack \in Seq(Decision) /\ x.map \in [Variable -> Int] /\ n \in Nat
  BY DEF Tracker
<1>2. n \in 1 .. n /\ x.stack # << >>
  BY <1>1
<1>3. TopLevel(x) = LevelOf(x.map, x.stack[n].variable)
  BY <1>2 DEF TopLevel
<1>4. CASE i = n
  <2>1. x.map[x.stack[n].variable] \in Int
    BY <1>1, <1>2, EntryType
  <2> QED BY <1>3, <1>4, <2>1 DEF LevelOf
<1>5. CASE i # n
  BY <1>1, <1>2, <1>3, <1>5 DEF Consistent
<1> QED BY <1>4, <1>5

\* try_add_decision at a level not below the last entry's keeps map and trail
\* in agreement.
LEMMA TryAddConsistent ==
  ASSUME NEW x \in Tracker, Consistent(x), NEW d \in Decision,
         NEW level \in Nat \ {0}, level >= TopLevel(x)
  PROVE  Consistent(TryAddDecision(x, d, level))
<1> DEFINE y == TryAddDecision(x, d, level)
           n == Len(x.stack)
<1>1. x.stack \in Seq(Decision) /\ x.map \in [Variable -> Int] /\ n \in Nat
  BY DEF Tracker
<1>2. CASE y = x
  BY <1>2
<1>3. CASE y # x
  <2>1. /\ x.map[d.variable] = 0
        /\ y.stack = Append(x.stack, d)
        /\ y.map = [x.map EXCEPT ![d.variable] = IF d.value THEN level ELSE -level]
    BY <1>3, TryAddProperties
  <2>2. /\ Len(y.stack) = n + 1 /\ y.stack[n + 1] = d
        /\ \A i \in 1 .. n : y.stack[i] = x.stack[i]
    BY <1>1, <2>1, AppendProperties
  <2>3. d.variable \in Variable /\ d.value \in BOOLEAN
    BY DEF Decision
  <2>4. \A v \in Variable : v # d.variable => y.map[v] = x.map[v]
    BY <1>1, <2>1
  <2>5. y.map[d.variable] = IF d.value THEN level ELSE -level
    BY <1>1, <2>1, <2>3
  <2>6. \A i \in 1 .. n : /\ x.stack[i].variable \in Variable
                         /\ x.stack[i].variable # d.variable
                         /\ y.map[x.stack[i].variable] = x.map[x.stack[i].variable]
    <3> SUFFICES ASSUME NEW i \in 1 .. n
                 PROVE  /\ x.stack[i].variable \in Variable
                        /\ x.stack[i].variable # d.variable
      BY <2>4
    <3>1. x.stack[i].variable \in Variable
      BY <1>1, EntryType
    <3>2. x.map[x.stack[i].variable] # 0
      BY DEF Consistent, IsUndecided
    <3> QED BY <2>1, <3>1, <3>2
  <2>7. LevelOf(y.map, d.variable) = level
    BY <2>3, <2>5 DEF LevelOf
  <2>8. \A i \in 1 .. n :
          LevelOf(y.map, x.stack[i].variable) = LevelOf(x.map, x.stack[i].variable)
    BY <2>6 DEF LevelOf
  <2> HIDE DEF y, n
  <2>9. \A i \in 1 .. Len(y.stack) :
          /\ IsTrue(y.map, y.stack[i].variable) <=> y.stack[i].value
          /\ ~IsUndecided(y.map, y.stack[i].variable)
    <3> SUFFICES ASSUME NEW i \in 1 .. n + 1
                 PROVE  /\ IsTrue(y.map, y.stack[i].variable) <=> y.stack[i].value
                        /\ ~IsUndecided(y.map, y.stack[i].variable)
      BY <2>2
    <3>1. CASE i = n + 1
      BY <2>2, <2>3, <2>5, <3>1 DEF IsTrue, IsUndecided
    <3>2. CASE i \in 1 .. n
      <4>1. /\ x.map[x.stack[i].variable] > 0 <=> x.stack[i].value
            /\ x.map[x.stack[i].variable] # 0
        BY <3>2 DEF Consistent, IsTrue, IsUndecided, n
      <4>2. y.stack[i] = x.stack[i]
            /\ y.map[x.stack[i].variable] = x.map[x.stack[i].variable]
        BY <2>2, <2>6, <3>2
      <4> QED BY <4>1, <4>2 DEF IsTrue, IsUndecided
    <3> QED BY <1>1, <3>1, <3>2
  <2>10. \A v \in Variable :
           ~IsUndecided(y.map, v)
             => \E i \in 1 .. Len(y.stack) : y.stack[i].variable = v
    <3> SUFFICES ASSUME NEW v \in Variable, y.map[v] # 0
                 PROVE  \E i \in 1 .. n + 1 : y.stack[i].variable = v
      BY <2>2 DEF IsUndecided
    <3>1. CASE v = d.variable
      BY <1>1, <2>2, <3>1
    <3>2. CASE v # d.variable
      <4>1. PICK i \in 1 .. n : x.stack[i].variable = v
        BY <2>4, <3>2 DEF Consistent, IsUndecided, n
      <4> QED BY <1>1, <2>2, <4>1
    <3> QED BY <3>1, <3>2
  <2>11. \A i, j \in 1 .. Len(y.stack) :
           i < j => /\ y.stack[i].variable # y.stack[j].variable
                    /\ LevelOf(y.map, y.stack[i].variable)
                         <= LevelOf(y.map, y.stack[j].variable)
    <3> SUFFICES ASSUME NEW i \in 1 .. n + 1, NEW j \in 1 .. n + 1, i < j
                 PROVE  /\ y.stack[i].variable # y.stack[j].variable
                        /\ LevelOf(y.map, y.stack[i].variable)
                             <= LevelOf(y.map, y.stack[j].variable)
      BY <2>2
    <3>1. i \in 1 .. n
      BY <1>1
    <3>2. CASE j = n + 1
      <4>1. LevelOf(x.map, x.stack[i].variable) <= TopLevel(x)
        BY <3>1, LevelsBelowTop DEF n
      <4>2. LevelOf(x.map, x.stack[i].variable) \in Int /\ TopLevel(x) \in Int
        <5>1. x.map[x.stack[i].variable] \in Int
          BY <1>1, <2>6, <3>1
        <5>2. n \in 1 .. n => x.map[x.stack[n].variable] \in Int
          BY <1>1, <2>6
        <5> QED BY <1>1, <3>1, <5>1, <5>2 DEF LevelOf, TopLevel, n
      <4> QED BY <2>2, <2>6, <2>7, <2>8, <3>1, <3>2, <4>1, <4>2
    <3>3. CASE j \in 1 .. n
      <4>1. /\ x.stack[i].variable # x.stack[j].variable
            /\ LevelOf(x.map, x.stack[i].variable)
                 <= LevelOf(x.map, x.stack[j].variable)
        BY <3>1, <3>3 DEF Consistent, n
      <4> QED BY <2>2, <2>8, <3>1, <3>3, <4>1
    <3> QED BY <1>1, <3>2, <3>3
  <2> QED BY <2>9, <2>10, <2>11 DEF Consistent, y
<1> QED BY <1>2, <1>3
============================================================================
