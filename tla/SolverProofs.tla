---------------------------- MODULE SolverProofs ----------------------------
(***************************************************************************)
(* Proofs about the solver, for every provider and every problem.          *)
(***************************************************************************)
EXTENDS Solver, EncoderProofs

\* The disjunctive normal form of a condition says what the condition says,
\* whatever the conditions and the version sets that are met
\* (convert_conditions_to_dnf).
THEOREM DnfIsTheCondition == Spec => []DnfMeansCondition
<1>1. DnfMeansCondition
  <2>1. ASSUME NEW c \in ConditionId, NEW met
        PROVE  ConditionHolds(c, met)
                 <=> \E i \in DOMAIN ConvertConditionsToDnf(c) :
                       DisjunctHolds(ConvertConditionsToDnf(c)[i], met)
    <3>1. ConditionHolds(c, met) <=> SomeHolds(ConvertConditionsToDnf(c), met)
      BY DnfIsExact
    <3> QED BY <3>1, Zenon DEF SomeHolds, ToSet
  <2> QED BY <2>1, Zenon DEF DnfMeansCondition
<1> QED BY <1>1, PTL

----------------------------------------------------------------------------
(* The inductive invariant                                                  *)

\* What holds even after a panic: a trail whose reasons explain it, clauses and
\* watch lists.
Sound(s) ==
  /\ s.decision_tracker \in Tracker /\ Consistent(s.decision_tracker)
  /\ Explained(s.decision_tracker, s.clauses)
  /\ ClausesOK(s.clauses)
  /\ LinksOK(s.watches, s.clauses)
  /\ LearntOK(s.learnt_clause_ids, s.clauses)

\* Propagation from level lv on: what is not propagated is of that level, and so is
\* what goes against an assertion or a learnt assertion.
LevelIs(m, v, lv) == LevelOf(m, v) = lv
Pending(x, lv) ==
  \A i \in 1 .. Len(x.stack) : x.propagate_index < i => LevelIs(x.map, x.stack[i].variable, lv)
Recent(s, lv) ==
  /\ \A i \in DOMAIN s.negative_assertions :
       IsTrue(Map(s), s.negative_assertions[i][1]) => LevelIs(Map(s), s.negative_assertions[i][1], lv)
  /\ \A i \in DOMAIN s.learnt_clause_ids :
       LET lits == s.clauses[s.learnt_clause_ids[i]].lits
       IN Len(lits) = 1 /\ LitFalse(Map(s), lits[1]) => LevelIs(Map(s), lits[1].variable, lv)

\* The first n assertions hold, and the first n of the learnt clauses that are
\* assertions.
Asserted(s, n) ==
  \A i \in DOMAIN s.negative_assertions : i <= n => IsFalse(Map(s), s.negative_assertions[i][1])
Learned(s, n) ==
  \A i \in DOMAIN s.learnt_clause_ids : i <= n =>
    LET lits == s.clauses[s.learnt_clause_ids[i]].lits
    IN Len(lits) = 1 => LitTrue(Map(s), lits[1])
Settled(s) == Asserted(s, Len(s.negative_assertions)) /\ Learned(s, Len(s.learnt_clause_ids))

\* A clause that is falsified.
Falsifies(s, c) ==
  /\ c \in DOMAIN s.clauses /\ s.clauses[c].lits # << >>
  /\ \A l \in ToSet(s.clauses[c].lits) : LitFalse(Map(s), l)

\* The locals of analyze.
Analysis ==
  [clause : Nat, first : BOOLEAN, variable : Variable, value : BOOLEAN, level : Nat,
   seen : SUBSET Variable, causes : Nat, learnt : Seq(Literal), back_track_to : Nat,
   highest : Nat, why : Seq(Nat), panicked : BOOLEAN]

\* The literal of a decided variable that is false, those of all variables seen,
\* and the variables seen that are still to be resolved on.
FalseLit(m, v) == [variable |-> v, negate |-> IsTrue(m, v)]
Blamed(m, a) == {FalseLit(m, v) : v \in {w \in a.seen : ~IsUndecided(m, w)}}
LearntVars(a) == {a.learnt[i].variable : i \in DOMAIN a.learnt}
OpenVars(m, a) == {v \in a.seen : v \notin LearntVars(a) /\ ~IsUndecided(m, v)}
PoppedLit(a) == [variable |-> a.variable, negate |-> a.value]

\* The literals learnt so far are false, below level lv.
LearntFalse(m, a, lv) ==
  /\ LearntVars(a) \subseteq a.seen
  /\ \A i \in DOMAIN a.learnt : /\ LitFalse(m, a.learnt[i])
                                /\ LevelOf(m, a.learnt[i].variable) <= a.back_track_to
  /\ a.back_track_to < lv
  /\ IF a.learnt = << >> THEN a.back_track_to = 0 ELSE a.highest \in DOMAIN a.learnt
  /\ IsFiniteSet(a.seen)

\* The variables still to be resolved on are counted, and all of level lv.
Counted(m, a, lv) ==
  /\ a.level = lv
  /\ \A v \in OpenVars(m, a) : LevelOf(m, v) = lv
  /\ a.causes = Cardinality(OpenVars(m, a))

\* Whatever satisfies the clauses visited satisfies one of these literals.
Entail(K, why, lits) ==
  /\ \A w \in ToSet(why) : w \in DOMAIN K /\ K[w].lits # << >>
  /\ \A A : (\A w \in ToSet(why) : Sat(A, K[w].lits)) => \E l \in lits : (l.variable \in A) # l.negate

\* Before a clause is visited: the conflict, or the reason of the variable popped.
\* After a visit: variables are left to resolve on.  Before learning: none is.
Analyzing(s, a, lv) ==
  /\ a \in Analysis /\ LearntFalse(Map(s), a, lv) /\ Counted(Map(s), a, lv)
  /\ a.clause \in DOMAIN s.clauses /\ s.clauses[a.clause].lits # << >>
  /\ IF a.first
     THEN /\ Falsifies(s, a.clause) /\ a.seen = {} /\ a.learnt = << >> /\ a.why = << >>
          /\ \E l \in ToSet(s.clauses[a.clause].lits) : LevelOf(Map(s), l.variable) = lv
     ELSE /\ OpenVars(Map(s), a) # {}
          /\ IsUndecided(Map(s), a.variable)
          /\ \A l \in ToSet(s.clauses[a.clause].lits) :
               \/ l = [variable |-> a.variable, negate |-> ~a.value]
               \/ LitFalse(Map(s), l)
          /\ Entail(s.clauses, a.why, Blamed(Map(s), a) \cup {PoppedLit(a)})
Popping(s, a, lv) ==
  /\ ~a.first /\ a \in Analysis /\ LearntFalse(Map(s), a, lv) /\ Counted(Map(s), a, lv)
  /\ OpenVars(Map(s), a) # {}
  /\ Entail(s.clauses, a.why, Blamed(Map(s), a))
Learning(s, a, lv) ==
  /\ a \in Analysis /\ LearntFalse(Map(s), a, lv)
  /\ a.variable \notin LearntVars(a) /\ IsUndecided(Map(s), a.variable)
  /\ ~HasUnpropagated(s.decision_tracker)
  /\ Entail(s.clauses, a.why, ToSet(a.learnt) \cup {PoppedLit(a)})

\* Where the loop is, while nothing has panicked.
Propagation == {"assertions", "learned", "next", "visit"}
Working == Propagation \cup {"encode", "conflict", "analyze", "pop", "learn", "decide", "expand",
                             "unsolvable"}
Levels ==
  /\ pc \in {"run_sat", "returned"} => Good(st, TopLevel(dt), "any")
  /\ pc = "loop" => Good(st, level, "any") /\ (level = starting_level \/ level # 0)
  /\ pc \in Working => Good(st, level, "any") /\ level # 0
Propagated ==
  /\ pc \in Propagation => pos # 0
  /\ pc = "assertions" => Asserted(st, pos - 1)
  /\ pc \in {"learned", "next", "visit", "decide"} => Asserted(st, Len(st.negative_assertions))
  /\ pc = "learned" => Learned(st, pos - 1)
  /\ pc \in {"next", "visit", "decide"} => Learned(st, Len(st.learnt_clause_ids))
  /\ pc = "decide" => ~HasUnpropagated(dt)
  /\ pc = "visit" => /\ CursorOK(st.watches, st.clauses, cursor)
                     /\ LitFalse(map, cursor.literal)
  /\ pc = "conflict" => Falsifies(st, conflict.clause) /\ conflict.variable \in Variable
UpToDate ==
  caller = "learn" =>
    /\ pc \in Propagation => Pending(dt, level)
    /\ pc \in Propagation \cup {"conflict", "analyze", "pop", "learn"} => Recent(st, level)
    /\ pc = "visit" => LevelIs(map, cursor.literal.variable, level)
    /\ pc = "conflict" =>
         \E l \in ToSet(st.clauses[conflict.clause].lits) : LevelIs(map, l.variable, level)
Analyzed ==
  /\ pc \in {"analyze", "pop", "learn"} => caller = "learn" /\ level > 1
  /\ pc = "analyze" => Analyzing(st, an, level)
  /\ pc = "pop" => Popping(st, an, level)
  /\ pc = "learn" => Learning(st, an, level)

\* The root is installed first: whatever is installed on an empty trail is the root,
\* and until it is encoded nothing else is decided.
Phase == IF caller = "install" /\ starting_level = 0 THEN "root" ELSE "any"
RootFirst ==
  ~Panicked =>
    /\ pc = "run_sat" /\ dt.stack = << >> => root_solvable = Root
    /\ pc = "returned" => dt.stack # << >>
    /\ pc \in Working \cup {"loop"} /\ starting_level = 0 => root_solvable = Root
    /\ pc = "encode" => Good(st, level, Phase)

\* No assignment with the root installed satisfies all of these clauses.
Refutes(K, core) ==
  \A A : RootVar \in A => \E w \in ToSet(core) \ {InstallRootClause} : ~Sat(A, K[w].lits)

\* The clauses of a Conflict do, and it is made of a clause falsified at level 1.
Refuted ==
  /\ result.kind = "unsolvable" => pc = "done" /\ Refutes(st.clauses, result.core)
  /\ ~Panicked /\ pc = "unsolvable" /\ starting_level = 0 =>
       level = 1 /\ Falsifies(st, conflict.clause)

\* The variables of the loop have their types.
Typed ==
  /\ prob \in Problem
  /\ pc \in Working \cup {"run_sat", "loop", "returned", "done"}
  /\ level \in Nat /\ starting_level \in Nat /\ soft \in Nat /\ pos \in Nat
  /\ root_solvable \in Asker
  /\ result.solution \subseteq Solvable
SolverInv ==
  /\ Typed /\ Sound(st)
  /\ ~Panicked => Levels /\ Propagated /\ UpToDate /\ Analyzed

----------------------------------------------------------------------------
(* Steps of the loop on the state                                           *)

\* A good state is sound, and good up to the level of its trail.
LEMMA GoodSound ==
  ASSUME NEW s, NEW lv, Good(s, lv, "any")
  PROVE  Sound(s)
  BY DEF Good, Core, TrailOK, Sound, ListsOK

\* It is good up to the level of its trail as well.
LEMMA GoodAtTop ==
  ASSUME NEW s, NEW lv, Good(s, lv, "any")
  PROVE  Good(s, TopLevel(s.decision_tracker), "any") /\ TopLevel(s.decision_tracker) \in Nat
<1> DEFINE x == s.decision_tracker
<1>1. x \in Tracker /\ TrailOK(x, s.clauses, lv)
  BY DEF Good, Core, TrailOK
<1>2. TopLevel(x) \in Nat /\ Bottom(x, TopLevel(x))
  BY <1>1, TrailEntries DEF TrailOK, Bottom, TopLevel
<1>3. TrailOK(x, s.clauses, TopLevel(x))
  BY <1>1, <1>2 DEF TrailOK
<1> QED BY <1>2, <1>3 DEF Good, Core

\* A task is taken from the queue, and the answers of the provider are cached.
LEMMA TakeTaskGood ==
  ASSUME NEW ph, NEW s, NEW lv, Good(s, lv, ph), NEW i \in DOMAIN s.tasks, NEW names
  PROVE  /\ s.tasks[i] \in TaskType
         /\ Good([s EXCEPT !.tasks = RemoveAt(@, i), !.cached = @ \cup names], lv, ph)
<1> DEFINE q == s.tasks
           a == SubSeq(q, 1, i - 1)
           b == SubSeq(q, i + 1, Len(q))
           r == a \o b
           t == [s EXCEPT !.tasks = r, !.cached = @ \cup names]
<1>1. q \in Seq(TaskType) /\ Shape(s)
  BY DEF Good, Core, Queues
<1>2. Len(q) \in Nat /\ DOMAIN q = 1 .. Len(q) /\ \A j \in 1 .. Len(q) : q[j] \in TaskType
  BY <1>1
<1> HIDE DEF q
<1>3. a \in Seq(TaskType) /\ b \in Seq(TaskType)
  <2>1. \A j \in 1 .. i - 1 : q[j] \in TaskType
    BY <1>2 DEF q
  <2>2. \A j \in i + 1 .. Len(q) : q[j] \in TaskType
    BY <1>2 DEF q
  <2> QED BY <1>1, <1>2, <2>1, <2>2, SubSeqProperties DEF q
<1> HIDE DEF a, b
<1>4. r \in Seq(TaskType)
  BY <1>3
<1>5. [s EXCEPT !.tasks = RemoveAt(@, i), !.cached = @ \cup names] = t
  BY DEF RemoveAt, q, a, b
<1> HIDE DEF r
<1>6. /\ Shape(t) /\ SameCore(s, t) /\ t.tasks = r
      /\ t.gates = s.gates /\ t.pending_forbid_clauses = s.pending_forbid_clauses
      /\ t.at_most_one_trackers = s.at_most_one_trackers
      /\ t.new_at_least_one_packages = s.new_at_least_one_packages
      /\ t.deferred_requirements = s.deferred_requirements
  BY <1>1 DEF Shape, SameCore, SameLists
<1> HIDE DEF t
<1>7. Good(t, lv, ph)
  BY <1>4, <1>6, GoodTasks
<1> QED BY <1>2, <1>5, <1>7 DEF q

\* The trail holds the root from level 1 on, and is empty at level 0.
LEMMA AtLevelZero ==
  ASSUME NEW x, NEW K, NEW lv, TrailOK(x, K, lv)
  PROVE  (lv = 0) <=> (x.stack = << >>)
<1>1. x \in Tracker /\ Consistent(x) /\ Bottom(x, lv) /\ TopLevel(x) <= lv
  BY DEF TrailOK
<1>2. ASSUME x.stack # << >>, lv = 0 PROVE FALSE
  <2>1. Len(x.stack) \in 1 .. Len(x.stack) /\ 1 \in 1 .. Len(x.stack) /\ Len(x.stack) \in Nat
    BY <1>1, <1>2, TrailEntries
  <2>2. LevelOf(x.map, x.stack[1].variable) = 1 /\ TopLevel(x) = LevelOf(x.map, x.stack[Len(x.stack)].variable)
    BY <1>1, <1>2 DEF Bottom, TopLevel
  <2>3. LevelOf(x.map, x.stack[1].variable) <= TopLevel(x)
    <3> DEFINE n == Len(x.stack)
    <3>0. n \in 1 .. n /\ 1 \in 1 .. n /\ n \in Nat /\ TopLevel(x) = LevelOf(x.map, x.stack[n].variable)
      BY <2>1, <2>2
    <3>1. 1 < n => LevelOf(x.map, x.stack[1].variable) <= LevelOf(x.map, x.stack[n].variable)
      BY <1>1, <3>0 DEF Consistent
    <3>2. LevelOf(x.map, x.stack[1].variable) = 1
      BY <2>2
    <3> HIDE DEF n
    <3>3. n = 1 \/ 1 < n
      BY <3>0
    <3>4. CASE n = 1
      BY <3>0, <3>2, <3>4
    <3> QED BY <3>0, <3>1, <3>3, <3>4
  <2>4. TopLevel(x) \in Nat
    BY <1>1, TrailEntries
  <2> QED BY <1>1, <1>2, <2>2, <2>3, <2>4
<1>3. ASSUME x.stack = << >> PROVE lv = 0
  BY <1>1, <1>3 DEF Bottom
<1> QED BY <1>2, <1>3

\* A new encoder has found no conflict, and at level 0 nothing is decided.
LEMMA NewEncoderGood ==
  ASSUME NEW s, NEW lv \in Nat, Good(s, lv, "any"), NEW ph, ph = "root" => lv = 0
  PROVE  Good(NewEncoder(s), lv, ph)
<1> DEFINE t == NewEncoder(s)
           none == << >>
<1>1. Shape(s) /\ ListsOK(s)
  BY DEF Good, Core
<1>2. t = [s EXCEPT !.conflicting_clauses = none]
  BY DEF NewEncoder
<1>3. ReportedOK(none, s.clauses)
  BY DEF ReportedOK
<1> HIDE DEF t, none
<1>4. /\ Shape(t) /\ SameQueues(s, t) /\ t.conflicting_clauses = none
      /\ t.decision_tracker = s.decision_tracker /\ t.clauses = s.clauses /\ t.watches = s.watches
      /\ t.negative_assertions = s.negative_assertions
      /\ t.learnt_clause_ids = s.learnt_clause_ids /\ t.gate_requirers = s.gate_requirers
  BY <1>1, <1>2 DEF Shape, SameQueues
<1>5. ListsOK(t)
  BY <1>1, <1>3, <1>4 DEF ListsOK
<1>6. Core(t, lv) /\ Queues(t)
  BY <1>4, <1>5 DEF Good, Core, Queues, SameQueues
<1>7. lv = 0 => OnlyRoot(t)
  <2> SUFFICES ASSUME lv = 0 PROVE OnlyRoot(t)
    OBVIOUS
  <2> DEFINE x == s.decision_tracker
  <2>1. TrailOK(x, s.clauses, 0)
    BY DEF Good, Core
  <2>2. x.stack = << >>
    BY <2>1, AtLevelZero DEF TrailOK
  <2>3. \A v \in Variable : IsUndecided(x.map, v)
    <3>1. 1 .. Len(x.stack) = {}
      BY <2>2
    <3> QED BY <2>1, <3>1 DEF TrailOK, Consistent
  <2> QED BY <1>4, <2>3 DEF OnlyRoot, Map, none
<1> QED BY <1>6, <1>7 DEF Good, t

\* An assignment changes no variable that is decided.
LEMMA AssignKeeps ==
  ASSUME NEW s, Shape(s), s.decision_tracker \in Tracker, NEW d \in Decision, NEW lv \in Nat \ {0}
  PROVE  \A v \in Variable : ~IsUndecided(Map(s), v) => Map(Assign(s, d, lv))[v] = Map(s)[v]
<1> DEFINE x == s.decision_tracker
           y == TryAddDecision(x, d, lv)
           t == Assign(s, d, lv)
<1>1. /\ y \in Tracker
      /\ \/ y = x
         \/ /\ x.map[d.variable] = 0
            /\ y.map = [x.map EXCEPT ![d.variable] = IF d.value THEN lv ELSE -lv]
  BY SameTracker, Tr!TryAddProperties
<1>2. x.map \in [Variable -> Int] /\ d.variable \in Variable
  BY TrailEntries DEF Decision
<1>3. Map(t) = x.map \/ Map(t) = y.map
  <2>1. t = [s EXCEPT !.panicked = TRUE] \/ t = [s EXCEPT !.decision_tracker = y]
    BY DEF Assign
  <2> HIDE DEF y
  <2>2. CASE t = [s EXCEPT !.panicked = TRUE]
    BY <2>2 DEF Map
  <2>3. CASE t = [s EXCEPT !.decision_tracker = y]
    <3>1. t.decision_tracker = y
      BY <2>3 DEF Shape
    <3> QED BY <3>1 DEF Map
  <2> QED BY <2>1, <2>2, <2>3
<1> HIDE DEF y, t
<1>4. Map(s) = x.map
  BY DEF Map
<1>5. \A v \in Variable : x.map[v] # 0 => y.map[v] = x.map[v]
  BY <1>1, <1>2
<1> QED BY <1>3, <1>4, <1>5 DEF t, IsUndecided

----------------------------------------------------------------------------
(* resolve_dependencies: stuck gates and new solvables                      *)

\* The clause that forces the gate of a requirement, as seen in state s.
ForcedBy(s, req) ==
  LET requirers == s.gate_requirers[req]
  IN Keep(requirers, {r \in ToSet(requirers) : IsTrue(Map(s), r[1])})[1][2]

\* The loop over the stuck gates.
ForceDef(s, q, lv, d, f, S) ==
  IF S = {} THEN s
  ELSE Assign(f[S \ {Max(S)}], Satisfy(Pos(GateVar(q[Max(S)])), ForcedBy(s, q[Max(S)])), lv)
Forced(s, lv, S, t) ==
  /\ Good(t, lv, "any") /\ t.clauses = s.clauses
  /\ \A v \in Variable : ~IsUndecided(Map(s), v) => Map(t)[v] = Map(s)[v]
Forces == INSTANCE Recursion WITH Def <- ForceDef, P <- Forced

\* The requirer of a stuck gate, and the clause that forces the gate.
LEMMA StuckReason ==
  ASSUME NEW s, NEW lv, Good(s, lv, "any"), NEW req \in Requirement,
         \E i \in DOMAIN s.gate_requirers[req] : IsTrue(Map(s), s.gate_requirers[req][i][1])
  PROVE  /\ ForcedBy(s, req) \in DOMAIN s.clauses
         /\ \E v \in Variable : IsTrue(Map(s), v) /\ Implication(s.clauses, ForcedBy(s, req), v, req)
<1> DEFINE g == s.gate_requirers[req]
           S == {r \in ToSet(g) : IsTrue(Map(s), r[1])}
           kept == Keep(g, S)
<1>1. /\ g \in Seq(Variable \X Nat)
      /\ \A i \in DOMAIN g : /\ g[i][2] \in DOMAIN s.clauses
                             /\ s.clauses[g[i][2]].lits = <<Pos(GateVar(req)), Neg(g[i][1])>>
  BY DEF Good, Core, ListsOK, RequirersOK
<1>2. ForcedBy(s, req) = kept[1][2]
  BY DEF ForcedBy
<1>3. \E i \in DOMAIN g : IsTrue(Map(s), g[i][1])
  OBVIOUS
<1> HIDE DEF g
<1>4. kept \in Seq(Variable \X Nat) /\ ToSet(kept) = ToSet(g) \cap S
  BY <1>1, KeepElements
<1>5. kept[1] \in ToSet(g) /\ kept[1] \in S
  <2>1. \A i \in DOMAIN g : g[i] \in ToSet(g)
    BY <1>1, ToSetType
  <2>2. ToSet(kept) # {}
    BY <1>3, <1>4, <2>1
  <2>3. ToSet(<< >>) = {}
    BY ShortSequences
  <2>4. kept # << >>
    BY <2>2, <2>3
  <2> HIDE DEF kept
  <2>5. 1 \in DOMAIN kept
    BY <1>4, <2>4
  <2>6. kept[1] \in ToSet(kept)
    BY <1>4, <2>5, ToSetType
  <2> QED BY <1>4, <2>6
<1>6. PICK i \in DOMAIN g : kept[1] = g[i]
  <2>1. ToSet(g) = {g[i] : i \in DOMAIN g}
    BY DEF ToSet
  <2> HIDE DEF kept
  <2> QED BY <1>5, <2>1
<1> HIDE DEF kept
<1>7. IsTrue(Map(s), g[i][1])
  BY <1>5, <1>6
<1>8. g[i][1] \in Variable
  <2>1. g[i] \in Variable \X Nat
    BY <1>1
  <2> QED BY <2>1
<1>9. ForcedBy(s, req) = g[i][2]
  BY <1>2, <1>6
<1>10. Implication(s.clauses, g[i][2], g[i][1], req)
  BY <1>1 DEF Implication
<1> QED BY <1>1, <1>7, <1>8, <1>9, <1>10

\* Forcing the stuck gates keeps the state good.
LEMMA ForceGood ==
  ASSUME NEW s, NEW lv \in Nat \ {0}, Good(s, lv, "any"), NEW q \in Seq(Requirement),
         \A i \in DOMAIN q : \E j \in DOMAIN s.gate_requirers[q[i]] :
           IsTrue(Map(s), s.gate_requirers[q[i]][j][1])
  PROVE  Good(Forces!Loop(s, q, lv, 0, Len(q)), lv, "any")
<1>1. DOMAIN q = 1 .. Len(q) /\ Len(q) \in Nat /\ \A i \in 1 .. Len(q) : q[i] \in Requirement
  OBVIOUS
<1>2. Forces!Rounds(s, q, lv, 0, Len(q))
  BY DEF Forces!Rounds, ForceDef, Forces!Max, Max
<1>3. ASSUME NEW t, NEW S, Forced(s, lv, S, t), NEW i \in 1 .. Len(q), NEW T
      PROVE  Forced(s, lv, T, Assign(t, Satisfy(Pos(GateVar(q[i])), ForcedBy(s, q[i])), lv))
  <2> DEFINE req == q[i]
             c == ForcedBy(s, req)
             l == Pos(GateVar(req))
  <2>1. req \in Requirement
    BY <1>1
  <2>2. c \in DOMAIN s.clauses
        /\ \E v \in Variable : IsTrue(Map(s), v) /\ Implication(s.clauses, c, v, req)
    BY <1>1, <2>1, StuckReason
  <2> HIDE DEF req, c
  <2>3. PICK v \in Variable : IsTrue(Map(s), v) /\ Implication(s.clauses, c, v, req)
    BY <2>2
  <2>4. Good(t, lv, "any") /\ t.clauses = s.clauses
        /\ \A w \in Variable : ~IsUndecided(Map(s), w) => Map(t)[w] = Map(s)[w]
    BY <1>3 DEF Forced
  <2>5. LitFalse(Map(t), Neg(v))
    <3>1. IsTrue(Map(t), v)
      BY <2>3, <2>4 DEF IsTrue, IsUndecided
    <3> QED BY <3>1, FalseLiterals
  <2>6. l \in Literal /\ Neg(v) \in Literal
    BY <2>1, Variables, LiteralParts
  <2>7. ToSet(t.clauses[c].lits) = {l, Neg(v)}
    <3>1. t.clauses[c].lits = <<l, Neg(v)>>
      BY <2>3, <2>4 DEF Implication
    <3> HIDE DEF l
    <3>2. ToSet(<<l, Neg(v)>>) = {l, Neg(v)}
      BY <2>6, ShortSequences
    <3> QED BY <3>1, <3>2
  <2> HIDE DEF l
  <2>8. Good(Assign(t, Satisfy(l, c), lv), lv, "any") /\ Assign(t, Satisfy(l, c), lv).clauses = t.clauses
    BY <2>2, <2>4, <2>5, <2>6, <2>7, AssignGood
  <2>9. \A w \in Variable : ~IsUndecided(Map(t), w) => Map(Assign(t, Satisfy(l, c), lv))[w] = Map(t)[w]
    <3>1. Satisfy(l, c) \in Decision
      <4>1. t.clauses \in Seq(ClauseType)
        BY <2>4 DEF Good, Core, ClausesOK
      <4>2. c \in Nat
        BY <2>2, <2>4, <4>1
      <4> QED BY <2>6, <4>2, Satisfying
    <3>2. Shape(t) /\ t.decision_tracker \in Tracker
      BY <2>4, GoodTracks
    <3> QED BY <3>1, <3>2, AssignKeeps
  <2>10. Forced(s, lv, T, Assign(t, Satisfy(l, c), lv))
    BY <2>4, <2>8, <2>9 DEF Forced, IsUndecided
  <2> QED BY <2>10 DEF l, c, req
<1>4. Forces!Keeps(s, q, lv, 0, Len(q), s, lv)
  <2>1. Forced(s, lv, {}, s)
    BY DEF Forced
  <2> QED BY <1>3, <2>1 DEF Forces!Keeps, ForceDef, Forces!Max, Max
<1>5. Forced(s, lv, 1 .. Len(q), Forces!Loop(s, q, lv, 0, Len(q)))
  BY <1>1, <1>2, <1>4, Forces!FoldInduction, Tr!LeastNatural DEF Forces!WellOrdered
<1> QED BY <1>5 DEF Forced

\* A variable whose origin is a solvable is that solvable's.
LEMMA SolvableOrigin ==
  \A v \in Variable : v.origin = "Solvable" => v.id \in Solvable
<1> DEFINE S == {SolvableVar(s) : s \in Solvable}
           F == UNION {{ForbidVar(n, i) : i \in 0 .. Len(Candidates[n]) - 2} : n \in Name}
           V == {ViolationVar(vs) : vs \in VersionSet}
           G == {GateVar(r) : r \in Requirement}
           A == {AtLeastOneVar(n) : n \in Name}
<1>1. Variable = {RootVar} \cup S \cup F \cup V \cup G \cup A
  BY DEF Variable
<1>2. RootVar.origin # "Solvable" /\ \A v \in V \cup G \cup A : v.origin # "Solvable"
  BY DEF RootVar, ViolationVar, GateVar, AtLeastOneVar, Var
<1>3. \A v \in F : v.origin # "Solvable"
  BY DEF ForbidVar, Var
<1>4. \A v \in S : v.id \in Solvable
  BY DEF SolvableVar, Var
<1> HIDE DEF S, F, V, G, A
<1> QED BY <1>1, <1>2, <1>3, <1>4

\* The solvables that are new in the partial solution.
LEMMA NewSolvablesTyped ==
  ASSUME Sound(st)
  PROVE  NewSolvables \in Seq(Asker)
<1> DEFINE q == Trail(st)
           S == {d \in ToSet(q) : /\ d.value
                                  /\ d.variable.origin = "Solvable"
                                  /\ d.variable.id \notin st.clauses_added_for_solvable}
           fresh == Keep(q, S)
<1>1. q \in Seq(Decision)
  BY TrailEntries DEF Sound, Trail
<1>2. fresh \in Seq(Decision) /\ ToSet(fresh) = ToSet(q) \cap S
  BY <1>1, KeepElements
<1>3. \A d \in S : d \in Decision => d.variable.id \in Solvable
  <2> SUFFICES ASSUME NEW d \in S, d \in Decision PROVE d.variable.id \in Solvable
    OBVIOUS
  <2>1. d.variable \in Variable /\ d.variable.origin = "Solvable"
    BY DEF Decision
  <2> QED BY <2>1, SolvableOrigin
<1>4. NewSolvables = [i \in DOMAIN fresh |-> fresh[i].variable.id]
  BY DEF NewSolvables
<1>5. \A i \in DOMAIN fresh : fresh[i].variable.id \in Asker
  <2> SUFFICES ASSUME NEW i \in DOMAIN fresh PROVE fresh[i].variable.id \in Asker
    OBVIOUS
  <2> HIDE DEF fresh
  <2>1. fresh[i] \in Decision
    BY <1>2
  <2>2. fresh[i] \in ToSet(fresh)
    BY <1>2, ToSetType
  <2> QED BY <1>2, <1>3, <2>1, <2>2 DEF Asker
<1> DEFINE n == Len(fresh)
           r == NewSolvables
<1>6. DOMAIN fresh = 1 .. n /\ n \in Nat
  <2> HIDE DEF fresh
  <2> QED BY <1>2
<1>7. DOMAIN r = 1 .. n /\ r = [i \in 1 .. n |-> r[i]] /\ \A i \in 1 .. n : r[i] \in Asker
  BY <1>4, <1>5, <1>6
<1> HIDE DEF r, n
<1>8. r \in Seq(Asker)
  BY <1>6, <1>7, MapSequence
<1> QED BY <1>8 DEF r

----------------------------------------------------------------------------
(* Propagation                                                              *)

\* Assignment n decides more than m does, at level lv.
Extends(m, n, lv) ==
  \A v \in Variable : n[v] = m[v] \/ (m[v] = 0 /\ LevelOf(n, v) = lv)

\* Assigning a literal at level lv extends the assignment, and leaves the trail as
\* propagated as it was.
LEMMA AssignExtends ==
  ASSUME NEW x \in Tracker, NEW d \in Decision, NEW lv \in Nat \ {0}
  PROVE  LET y == TryAddDecision(x, d, lv) IN
         /\ y \in Tracker /\ Extends(x.map, y.map, lv)
         /\ y.propagate_index = x.propagate_index
         /\ \A k : Pending(x, lv) => Pending(y, lv)
<1> DEFINE y == TryAddDecision(x, d, lv)
<1>1. /\ y \in Tracker
      /\ \/ y = x
         \/ /\ x.map[d.variable] = 0
            /\ y.stack = Append(x.stack, d)
            /\ y.map = [x.map EXCEPT ![d.variable] = IF d.value THEN lv ELSE -lv]
  BY SameTracker, Tr!TryAddProperties
<1>2. y.propagate_index = x.propagate_index
  BY DEF TryAddDecision, Tracker
<1>3. /\ x.stack \in Seq(Decision) /\ Len(x.stack) \in Nat /\ x.map \in [Variable -> Int]
      /\ \A i \in 1 .. Len(x.stack) : x.stack[i].variable \in Variable
      /\ d.variable \in Variable /\ d.value \in BOOLEAN
  BY TrailEntries DEF Decision
<1> HIDE DEF y
<1>4. CASE y = x
  BY <1>1, <1>2, <1>4 DEF Extends, y
<1>5. CASE /\ x.map[d.variable] = 0
           /\ y.stack = Append(x.stack, d)
           /\ y.map = [x.map EXCEPT ![d.variable] = IF d.value THEN lv ELSE -lv]
  <2>1. LevelOf(y.map, d.variable) = lv
    BY <1>3, <1>5 DEF LevelOf
  <2>2. \A v \in Variable : v # d.variable => y.map[v] = x.map[v]
    BY <1>3, <1>5
  <2>3. Extends(x.map, y.map, lv)
    BY <1>5, <2>1, <2>2 DEF Extends
  <2>4. Pending(x, lv) => Pending(y, lv)
    <3> SUFFICES ASSUME Pending(x, lv), NEW i \in 1 .. Len(y.stack), y.propagate_index < i
                 PROVE  LevelIs(y.map, y.stack[i].variable, lv)
      BY DEF Pending
    <3>1. Len(y.stack) = Len(x.stack) + 1 /\ y.stack[Len(x.stack) + 1] = d
          /\ \A j \in 1 .. Len(x.stack) : y.stack[j] = x.stack[j]
      BY <1>3, <1>5
    <3>2. CASE i = Len(x.stack) + 1
      BY <2>1, <3>1, <3>2 DEF LevelIs
    <3>3. CASE i \in 1 .. Len(x.stack)
      <4>1. LevelOf(x.map, x.stack[i].variable) = lv /\ y.stack[i] = x.stack[i]
        BY <1>2, <3>1, <3>3 DEF Pending, LevelIs
      <4>2. x.stack[i].variable = d.variable \/ y.map[x.stack[i].variable] = x.map[x.stack[i].variable]
        BY <1>3, <2>2, <3>3
      <4> QED BY <2>1, <4>1, <4>2 DEF LevelIs, LevelOf
    <3> QED BY <1>3, <3>1, <3>2, <3>3
  <2> QED BY <1>1, <1>2, <2>3, <2>4 DEF y
<1> QED BY <1>1, <1>4, <1>5

\* The clauses and lists of a good state, for what is said about assertions.
LEMMA AssertionsTyped ==
  ASSUME NEW s, Sound(s), ListsOK(s)
  PROVE  /\ \A i \in DOMAIN s.negative_assertions :
              /\ s.negative_assertions[i][1] \in Variable
              /\ s.negative_assertions[i][2] \in DOMAIN s.clauses
              /\ s.clauses[s.negative_assertions[i][2]].lits = <<Neg(s.negative_assertions[i][1])>>
         /\ \A i \in DOMAIN s.learnt_clause_ids :
              /\ s.learnt_clause_ids[i] \in DOMAIN s.clauses
              /\ s.clauses[s.learnt_clause_ids[i]].lits \in Seq(Literal)
              /\ s.clauses[s.learnt_clause_ids[i]].lits # << >>
              /\ s.clauses[s.learnt_clause_ids[i]].lits[1] \in Literal
<1>1. s.negative_assertions \in Seq(Variable \X Nat) /\ s.clauses \in Seq(ClauseType)
  BY DEF Sound, ListsOK, AssertionsOK, ClausesOK
<1>2. \A i \in DOMAIN s.negative_assertions : s.negative_assertions[i] \in Variable \X Nat
  BY <1>1
<1>3. \A i \in DOMAIN s.negative_assertions :
              /\ s.negative_assertions[i][1] \in Variable
              /\ s.negative_assertions[i][2] \in DOMAIN s.clauses
              /\ s.clauses[s.negative_assertions[i][2]].lits = <<Neg(s.negative_assertions[i][1])>>
  BY <1>2 DEF ListsOK, AssertionsOK
<1>4. ASSUME NEW i \in DOMAIN s.learnt_clause_ids
      PROVE  /\ s.learnt_clause_ids[i] \in DOMAIN s.clauses
             /\ s.clauses[s.learnt_clause_ids[i]].lits \in Seq(Literal)
             /\ s.clauses[s.learnt_clause_ids[i]].lits # << >>
             /\ s.clauses[s.learnt_clause_ids[i]].lits[1] \in Literal
  <2>1. s.learnt_clause_ids[i] \in DOMAIN s.clauses /\ s.clauses[s.learnt_clause_ids[i]].lits # << >>
    BY DEF ListsOK, LearntOK
  <2>2. s.clauses[s.learnt_clause_ids[i]] \in ClauseType
    BY <1>1, <2>1
  <2>3. s.clauses[s.learnt_clause_ids[i]].lits \in Seq(Literal)
    BY <2>2 DEF ClauseType
  <2>4. s.clauses[s.learnt_clause_ids[i]].lits[1] \in Literal
    BY <2>1, <2>3
  <2> QED BY <2>1, <2>3, <2>4
<1> QED BY <1>3, <1>4

\* Whether the assertions hold is kept by more decisions, clauses and moved watches.
LEMMA SettledKept ==
  ASSUME NEW s, NEW t, Sound(s), ListsOK(s), SameClauses(s.clauses, t.clauses),
         t.negative_assertions = s.negative_assertions,
         t.learnt_clause_ids = s.learnt_clause_ids,
         NEW lv \in Nat \ {0}, Extends(Map(s), Map(t), lv)
  PROVE  /\ Recent(s, lv) => Recent(t, lv)
         /\ \A n : Asserted(s, n) => Asserted(t, n)
         /\ \A n : Learned(s, n) => Learned(t, n)
<1> DEFINE na == s.negative_assertions
           ids == s.learnt_clause_ids
<1>1. /\ \A i \in DOMAIN na : na[i][1] \in Variable
      /\ \A i \in DOMAIN ids : s.clauses[ids[i]].lits[1] \in Literal /\ ids[i] \in DOMAIN s.clauses
  BY AssertionsTyped
<1>2. \A i \in DOMAIN ids : t.clauses[ids[i]].lits = s.clauses[ids[i]].lits
  BY <1>1 DEF SameClauses
<1>3. \A v \in Variable : Map(t)[v] = Map(s)[v] \/ (Map(s)[v] = 0 /\ LevelOf(Map(t), v) = lv)
  BY DEF Extends
<1>4. \A l \in Literal : l.variable \in Variable /\ l.negate \in BOOLEAN
  BY LiteralParts
<1> HIDE DEF na, ids
<1>5. \A v \in Variable : LevelIs(Map(s), v, lv) => LevelIs(Map(t), v, lv)
  <2>1. \A v \in Variable : Map(s)[v] = 0 => ~LevelIs(Map(s), v, lv)
    BY DEF LevelIs, LevelOf
  <2> QED BY <1>3, <2>1 DEF LevelIs, LevelOf
<1>6. \A v \in Variable : (IsTrue(Map(t), v) => IsTrue(Map(s), v) \/ LevelIs(Map(t), v, lv))
                          /\ (IsFalse(Map(t), v) => IsFalse(Map(s), v) \/ LevelIs(Map(t), v, lv))
                          /\ (IsTrue(Map(s), v) => IsTrue(Map(t), v))
                          /\ (IsFalse(Map(s), v) => IsFalse(Map(t), v))
  BY <1>3 DEF IsTrue, IsFalse, LevelIs
<1>7. \A l \in Literal : /\ LitFalse(Map(t), l) => LitFalse(Map(s), l) \/ LevelIs(Map(t), l.variable, lv)
                         /\ LitTrue(Map(s), l) => LitTrue(Map(t), l)
  BY <1>4, <1>6 DEF LitFalse, LitTrue
<1>8. Recent(s, lv) => Recent(t, lv)
  BY <1>1, <1>2, <1>4, <1>5, <1>6, <1>7 DEF Recent, na, ids
<1>9. \A n : Asserted(s, n) => Asserted(t, n)
  BY <1>1, <1>6 DEF Asserted, na
<1>10. \A n : Learned(s, n) => Learned(t, n)
  BY <1>1, <1>2, <1>7 DEF Learned, ids
<1> QED BY <1>8, <1>9, <1>10

\* What the visited clause is: it watches the cursor's literal and another one,
\* which are all it has if it may not move its watches.
LEMMA VisitedFacts ==
  ASSUME NEW s, NEW lv, Good(s, lv, "any"), NEW cur, CursorOK(s.watches, s.clauses, cur),
         cur.current.clause # 0
  PROVE  LET c == cur.current.clause
             x == s.clauses[c]
             o == x.watched[3 - cur.current.index]
         IN /\ c \in DOMAIN s.clauses /\ c \in Nat
            /\ x.lits \in Seq(Literal) /\ ToSet(x.lits) \subseteq Literal
            /\ cur.literal \in Literal /\ cur.literal \in ToSet(x.lits)
            /\ o \in Literal /\ o \in ToSet(x.lits)
            /\ x.kind \notin {"Requires", "Learnt"} => ToSet(x.lits) = {cur.literal, o}
            /\ x.kind \in {"Requires", "Learnt"} => cur.literal # o
<1> DEFINE c == cur.current.clause
           x == s.clauses[c]
           i == cur.current.index
           o == x.watched[3 - i]
<1>1. /\ s.clauses \in Seq(ClauseType)
      /\ \A e \in DOMAIN s.clauses : WellBuilt(s.clauses[e])
  BY DEF Good, Core, ClausesOK
<1>2. /\ cur.literal \in Literal /\ On(s.clauses, cur.literal, c)
      /\ i = Place(s.clauses, cur.literal, c)
  BY DEF CursorOK, At2
<1>3. /\ c \in DOMAIN s.clauses /\ x.watched # << >>
      /\ cur.literal \in {x.watched[1], x.watched[2]}
      /\ i = IF x.watched[1] = cur.literal THEN 1 ELSE 2
  BY <1>2 DEF On, Place
<1>4. c \in Nat /\ x \in ClauseType
  BY <1>1, <1>3
<1>5. x.lits \in Seq(Literal) /\ x.watched \in Seq(Literal)
  BY <1>4 DEF ClauseType
<1>6. ToSet(x.lits) \subseteq Literal
  BY <1>5, ToSetType
<1>7. /\ {x.watched[1], x.watched[2]} \subseteq ToSet(x.lits)
      /\ IF x.kind \in {"Requires", "Learnt"} THEN x.watched[1] # x.watched[2]
         ELSE ToSet(x.lits) = {x.watched[1], x.watched[2]}
  BY <1>1, <1>3 DEF WellBuilt
<1> HIDE DEF x, c
<1>8. \/ i = 1 /\ cur.literal = x.watched[1] /\ o = x.watched[2]
      \/ i = 2 /\ cur.literal = x.watched[2] /\ o = x.watched[1]
  BY <1>3
<1> HIDE DEF i, o
<1>9. /\ cur.literal \in ToSet(x.lits) /\ o \in ToSet(x.lits)
      /\ x.kind \notin {"Requires", "Learnt"} => ToSet(x.lits) = {cur.literal, o}
      /\ x.kind \in {"Requires", "Learnt"} => cur.literal # o
  BY <1>7, <1>8
<1> QED BY <1>2, <1>3, <1>4, <1>5, <1>6, <1>9 DEF x, c, i, o

\* A watch moves.
LEMMA MoveGood ==
  ASSUME NEW s, NEW lv, Good(s, lv, "any"), NEW cur, CursorOK(s.watches, s.clauses, cur),
         cur.current.clause # 0, s.clauses[cur.current.clause].kind \in {"Requires", "Learnt"},
         NEW b \in ToSet(s.clauses[cur.current.clause].lits), b # cur.literal,
         b # s.clauses[cur.current.clause].watched[3 - cur.current.index]
  PROVE  LET t == [s EXCEPT !.watches = UpdatedHeads(s.watches, s.clauses, cur, b),
                            !.clauses = UpdatedClauses(s.watches, s.clauses, cur, b)]
         IN /\ Good(t, lv, "any") /\ SameClauses(s.clauses, t.clauses)
            /\ SameLists(s, t) /\ t.decision_tracker = s.decision_tracker
            /\ t.panicked = s.panicked
            /\ CursorOK(t.watches, t.clauses, CursorAfterUpdate(s.clauses, cur))
<1> DEFINE K == s.clauses
           H == s.watches
           L == UpdatedClauses(H, K, cur, b)
           G == UpdatedHeads(H, K, cur, b)
           t == [s EXCEPT !.watches = G, !.clauses = L]
<1>1. /\ K \in Seq(ClauseType) /\ LinksOK(H, K) /\ \A c \in DOMAIN K : WellBuilt(K[c])
      /\ Shape(s) /\ ListsOK(s) /\ TrailOK(s.decision_tracker, K, lv)
      /\ 1 \in DOMAIN K /\ K[1].lits = << >>
      /\ \A c \in DOMAIN K : K[c].kind = "Learnt" => Derived(K, c)
  BY DEF Good, Core, ClausesOK
<1>2. b \in Literal
  BY VisitedFacts
<1>3. /\ L \in Seq(ClauseType) /\ DOMAIN L = DOMAIN K /\ SameClauses(K, L)
      /\ \A c \in DOMAIN K : WellBuilt(L[c])
      /\ LinksOK(G, L)
      /\ CursorOK(G, L, CursorAfterUpdate(K, cur))
  BY <1>1, <1>2, LinksMove
<1> HIDE DEF L, G
<1>4. /\ Shape(t) /\ SameLists(s, t) /\ SameQueues(s, t) /\ t.decision_tracker = s.decision_tracker
      /\ t.clauses = L /\ t.watches = G /\ t.panicked = s.panicked
  BY <1>1 DEF Shape, SameLists, SameQueues
<1> HIDE DEF t
<1>5. ClausesOK(L)
  <2>1. \A c \in DOMAIN L : L[c].kind = "Learnt" => Derived(L, c)
    <3> SUFFICES ASSUME NEW c \in DOMAIN L, L[c].kind = "Learnt" PROVE Derived(L, c)
      OBVIOUS
    <3>1. c \in DOMAIN K /\ K[c].kind = "Learnt"
      BY <1>3 DEF SameClauses
    <3>2. Derived(K, c)
      BY <1>1, <3>1
    <3> QED BY <1>3, <3>1, <3>2, DerivedSame
  <2>2. 1 \in DOMAIN L /\ L[1].lits = << >>
    BY <1>1, <1>3 DEF SameClauses
  <2> QED BY <1>3, <2>1, <2>2 DEF ClausesOK
<1>6. TrailOK(s.decision_tracker, L, lv)
  BY <1>1, <1>3, ExplainedSame DEF TrailOK
<1>7. ListsOK(t)
  BY <1>1, <1>3, <1>4, ListsSame
<1>8. Core(t, lv)
  BY <1>3, <1>4, <1>5, <1>6, <1>7 DEF Core
<1>9. Queues(t)
  BY <1>4 DEF Good, Queues, SameQueues
<1>10. /\ Good(t, lv, "any") /\ SameClauses(s.clauses, t.clauses)
       /\ SameLists(s, t) /\ t.decision_tracker = s.decision_tracker /\ t.panicked = s.panicked
       /\ CursorOK(t.watches, t.clauses, CursorAfterUpdate(s.clauses, cur))
  BY <1>3, <1>4, <1>8, <1>9 DEF Good
<1> QED BY <1>10 DEF t, L, G

\* A literal that is false and one that is undecided or true.
LEMMA TruthValues ==
  ASSUME NEW x \in Tracker, NEW l \in Literal
  PROVE  /\ LitFalse(x.map, l) <=> ~LitTrue(x.map, l) /\ ~IsUndecided(x.map, l.variable)
         /\ LitTrue(x.map, l) => ~IsUndecided(x.map, l.variable)
<1>1. l.variable \in Variable /\ l.negate \in BOOLEAN /\ x.map[l.variable] \in Int
  BY LiteralParts, TrailEntries
<1> QED BY <1>1 DEF LitFalse, LitTrue, IsTrue, IsFalse, IsUndecided

\* try_add_decision with the only literal of a clause that is not false: it makes it
\* true, or the clause is falsified.
LEMMA UnitGood ==
  ASSUME NEW s, NEW lv \in Nat \ {0}, Good(s, lv, "any"), NEW c \in DOMAIN s.clauses, NEW l \in Literal,
         l \in ToSet(s.clauses[c].lits),
         \A m \in ToSet(s.clauses[c].lits) : m = l \/ LitFalse(Map(s), m)
  PROVE  LET d == Satisfy(l, c)
             t == [s EXCEPT !.decision_tracker = TryAddDecision(s.decision_tracker, d, lv)]
         IN /\ TryAddResult(s.decision_tracker, d) = "conflict" => Falsifies(s, c) /\ LitFalse(Map(s), l)
            /\ TryAddResult(s.decision_tracker, d) # "conflict" =>
                 /\ Good(t, lv, "any") /\ SameLists(s, t) /\ t.clauses = s.clauses /\ t.panicked = s.panicked
                 /\ Extends(Map(s), Map(t), lv) /\ LitTrue(Map(t), l)
                 /\ Pending(s.decision_tracker, lv) => Pending(t.decision_tracker, lv)
                 /\ t.watches = s.watches
<1> DEFINE d == Satisfy(l, c)
           x == s.decision_tracker
           y == TryAddDecision(x, d, lv)
           t == [s EXCEPT !.decision_tracker = y]
<1>1. x \in Tracker /\ Shape(s) /\ s.clauses \in Seq(ClauseType)
  BY GoodTracks
<1>2. d \in Decision /\ d.variable = l.variable /\ d.value = ~l.negate
  <2>1. c \in Nat
    BY <1>1
  <2> QED BY <2>1, Satisfying DEF Satisfy
<1>3. /\ l.variable \in Variable /\ l.negate \in BOOLEAN /\ x.map[l.variable] \in Int
      /\ x.map \in [Variable -> Int] /\ x.stack \in Seq(Decision)
  BY <1>1, LiteralParts, TrailEntries
<1> HIDE DEF d
<1>4. ASSUME TryAddResult(x, d) = "conflict" PROVE Falsifies(s, c) /\ LitFalse(Map(s), l)
  <2>1. ~IsUndecided(x.map, l.variable) /\ IsTrue(x.map, l.variable) # ~l.negate
    BY <1>2, <1>4 DEF TryAddResult
  <2>2. LitFalse(x.map, l)
    BY <1>3, <2>1 DEF LitFalse, IsTrue, IsFalse, IsUndecided
  <2>3. Map(s) = x.map
    BY DEF Map
  <2>4. s.clauses[c].lits # << >>
    BY DEF ToSet
  <2> QED BY <2>2, <2>3, <2>4 DEF Falsifies
<1>5. ASSUME TryAddResult(x, d) # "conflict"
      PROVE  /\ Good(t, lv, "any") /\ SameLists(s, t) /\ t.clauses = s.clauses /\ t.panicked = s.panicked
             /\ Extends(Map(s), Map(t), lv) /\ LitTrue(Map(t), l)
             /\ Pending(s.decision_tracker, lv) => Pending(t.decision_tracker, lv)
             /\ t.watches = s.watches
  <2>1. Assign(s, d, lv) = t
    BY <1>5 DEF Assign
  <2>2. Good(t, lv, "any") /\ t.clauses = s.clauses /\ SameLists(s, t)
    BY <2>1, AssignGood DEF d
  <2>3. y \in Tracker /\ Extends(x.map, y.map, lv) /\ (Pending(x, lv) => Pending(y, lv))
    BY <1>1, <1>2, AssignExtends
  <2>4. LitTrue(y.map, l)
    <3>1. CASE IsUndecided(x.map, l.variable)
      <4>1. y = [x EXCEPT !.map[d.variable] = WithValueAndLevel(d.value, lv), !.stack = Append(x.stack, d)]
        BY <1>2, <3>1 DEF TryAddDecision, TryAddResult
      <4>2. y.map = [x.map EXCEPT ![d.variable] = WithValueAndLevel(d.value, lv)]
        BY <1>1, <4>1 DEF Tracker
      <4>3. y.map[l.variable] = IF l.negate THEN -lv ELSE lv
        BY <1>2, <1>3, <4>2 DEF WithValueAndLevel
      <4> HIDE DEF y
      <4> QED BY <1>3, <4>3 DEF LitTrue, IsTrue, IsFalse
    <3>2. CASE ~IsUndecided(x.map, l.variable)
      <4>1. y = x
        BY <1>2, <3>2 DEF TryAddDecision, TryAddResult
      <4>2. IsTrue(x.map, l.variable) = ~l.negate
        BY <1>2, <1>5, <3>2 DEF TryAddResult
      <4> HIDE DEF y
      <4> QED BY <1>3, <3>2, <4>1, <4>2 DEF LitTrue, IsTrue, IsFalse, IsUndecided
    <3> QED BY <3>1, <3>2
  <2> HIDE DEF y
  <2>5. t.decision_tracker = y /\ t.panicked = s.panicked /\ t.watches = s.watches
    BY <1>1 DEF Shape
  <2> HIDE DEF t
  <2> QED BY <2>2, <2>3, <2>4, <2>5 DEF Map
<1> QED BY <1>4, <1>5 DEF d

----------------------------------------------------------------------------
(* analyze: the literals of a clause                                        *)

\* Blame, as a function of the assignment.
BlameIn(m, a, l) ==
  LET v == l.variable
      vl == LevelOf(m, v)
  IN IF Ignores(a, v) THEN a
     ELSE IF vl = a.level
     THEN [a EXCEPT !.seen = @ \cup {v}, !.causes = @ + 1]
     ELSE IF a.level <= 1 \/ IsUndecided(m, v) THEN [a EXCEPT !.panicked = TRUE]
     ELSE [a EXCEPT !.seen = @ \cup {v},
                    !.learnt = Append(@, [variable |-> v, negate |-> IsTrue(m, v)]),
                    !.highest = IF vl > a.back_track_to THEN Len(a.learnt) + 1 ELSE @,
                    !.back_track_to = IF vl > @ THEN vl ELSE @]

\* The parts of an analysis.
LEMMA AnalysisParts ==
  ASSUME NEW a \in Analysis
  PROVE  /\ a.clause \in Nat /\ a.first \in BOOLEAN /\ a.variable \in Variable /\ a.value \in BOOLEAN
         /\ a.level \in Nat /\ a.seen \subseteq Variable /\ a.causes \in Nat
         /\ a.learnt \in Seq(Literal) /\ a.back_track_to \in Nat /\ a.highest \in Nat
         /\ a.why \in Seq(Nat) /\ a.panicked \in BOOLEAN
  BY DEF Analysis

\* The levels of decided variables.
LEMMA LevelsBelow ==
  ASSUME NEW x \in Tracker, Consistent(x)
  PROVE  \A v \in Variable : /\ LevelOf(x.map, v) <= TopLevel(x)
                             /\ LevelOf(x.map, v) = 0 <=> IsUndecided(x.map, v)
<1>1. x.map \in [Variable -> Int] /\ TopLevel(x) \in Nat
  BY TrailEntries
<1> SUFFICES ASSUME NEW v \in Variable
             PROVE  /\ LevelOf(x.map, v) <= TopLevel(x)
                    /\ LevelOf(x.map, v) = 0 <=> IsUndecided(x.map, v)
  OBVIOUS
<1>2. LevelOf(x.map, v) = 0 <=> IsUndecided(x.map, v)
  BY <1>1 DEF LevelOf, IsUndecided
<1>3. ASSUME ~IsUndecided(x.map, v) PROVE LevelOf(x.map, v) <= TopLevel(x)
  <2>1. PICK i \in 1 .. Len(x.stack) : x.stack[i].variable = v
    BY <1>3 DEF Consistent
  <2> QED BY <2>1, SameTracker, Tr!LevelsBelowTop
<1> QED BY <1>1, <1>2, <1>3

\* The literal of a decided variable that is false.
LEMMA FalseLitFacts ==
  ASSUME NEW m \in [Variable -> Int]
  PROVE  /\ \A v \in Variable : /\ FalseLit(m, v) \in Literal /\ FalseLit(m, v).variable = v
                                /\ ~IsUndecided(m, v) => LitFalse(m, FalseLit(m, v))
         /\ \A l \in Literal : LitFalse(m, l) => ~IsUndecided(m, l.variable) /\ l = FalseLit(m, l.variable)
<1>1. ASSUME NEW v \in Variable
      PROVE  /\ FalseLit(m, v) \in Literal /\ FalseLit(m, v).variable = v
             /\ ~IsUndecided(m, v) => LitFalse(m, FalseLit(m, v))
  <2>1. m[v] \in Int /\ IsTrue(m, v) \in BOOLEAN
    BY DEF IsTrue
  <2>2. FalseLit(m, v) \in Literal /\ FalseLit(m, v).variable = v /\ FalseLit(m, v).negate = IsTrue(m, v)
    BY <2>1 DEF FalseLit, Literal
  <2>3. ~IsUndecided(m, v) => LitFalse(m, FalseLit(m, v))
    <3>1. CASE IsTrue(m, v)
      <4>1. FalseLit(m, v).negate
        BY <2>2, <3>1
      <4> QED BY <2>2, <3>1, <4>1 DEF LitFalse
    <3>2. CASE ~IsTrue(m, v)
      <4>1. ~FalseLit(m, v).negate
        BY <2>2, <3>2
      <4>2. ~IsUndecided(m, v) => IsFalse(m, v)
        BY <2>1, <3>2 DEF IsTrue, IsFalse, IsUndecided
      <4> QED BY <2>2, <4>1, <4>2 DEF LitFalse
    <3> QED BY <3>1, <3>2
  <2> QED BY <2>2, <2>3
<1>2. ASSUME NEW l \in Literal, LitFalse(m, l)
      PROVE  ~IsUndecided(m, l.variable) /\ l = FalseLit(m, l.variable)
  <2>1. l.variable \in Variable /\ l.negate \in BOOLEAN /\ m[l.variable] \in Int
    BY LiteralParts
  <2>2. ~IsUndecided(m, l.variable) /\ (l.negate <=> IsTrue(m, l.variable))
    BY <1>2, <2>1 DEF LitFalse, IsTrue, IsFalse, IsUndecided
  <2>3. l.negate = IsTrue(m, l.variable)
    BY <2>1, <2>2 DEF IsTrue
  <2>4. FalseLit(m, l.variable).negate = IsTrue(m, l.variable)
    BY DEF FalseLit
  <2> QED BY <1>1, <2>1, <2>2, <2>3, <2>4, LiteralParts
<1> QED BY <1>1, <1>2

\* What is open is seen and finite, and not learnt, which is below the level.
LEMMA OpenFacts ==
  ASSUME NEW m \in [Variable -> Int], NEW lv \in Nat, NEW a \in Analysis, LearntFalse(m, a, lv)
  PROVE  /\ IsFiniteSet(OpenVars(m, a)) /\ Cardinality(OpenVars(m, a)) \in Nat
         /\ \A v \in Variable : LevelOf(m, v) = lv => v \notin LearntVars(a)
<1>1. OpenVars(m, a) \subseteq a.seen
  BY DEF OpenVars
<1>2. IsFiniteSet(OpenVars(m, a))
  BY <1>1, FS_Subset DEF LearntFalse
<1>3. ASSUME NEW v \in Variable, LevelOf(m, v) = lv, v \in LearntVars(a) PROVE FALSE
  <2>1. PICK i \in DOMAIN a.learnt : v = a.learnt[i].variable
    BY <1>3 DEF LearntVars
  <2>2. LevelOf(m, v) <= a.back_track_to /\ a.back_track_to < lv
    BY <2>1 DEF LearntFalse
  <2> QED BY <1>3, <2>2, AnalysisParts
<1> QED BY <1>2, <1>3, FS_CardinalityType

\* What one more literal leaves of an analysis.
SameVisit(a, b) ==
  /\ b.clause = a.clause /\ b.first = a.first /\ b.variable = a.variable /\ b.value = a.value
  /\ b.why = a.why /\ a.seen \subseteq b.seen

\* Whatever is blamed, the analysis has its type, and a panic stays one.
LEMMA BlameTyped ==
  ASSUME NEW m \in [Variable -> Int], NEW a \in Analysis, NEW l \in Literal
  PROVE  BlameIn(m, a, l) \in Analysis /\ (a.panicked => BlameIn(m, a, l).panicked)
<1> DEFINE v == l.variable
           vl == LevelOf(m, v)
           l0 == [variable |-> v, negate |-> IsTrue(m, v)]
           b == BlameIn(m, a, l)
<1>1. v \in Variable /\ vl \in Nat /\ l0 \in Literal
  BY LiteralParts DEF LevelOf, IsTrue, Literal
<1> HIDE DEF v, l0
<1>2. /\ a.seen \cup {v} \in SUBSET Variable /\ a.causes + 1 \in Nat
      /\ a.learnt \in Seq(Literal) /\ Len(a.learnt) \in Nat
  BY <1>1, AnalysisParts
<1>3. Append(a.learnt, l0) \in Seq(Literal)
  BY <1>1, <1>2
<1>4. /\ (IF vl > a.back_track_to THEN vl ELSE a.back_track_to) \in Nat
      /\ (IF vl > a.back_track_to THEN Len(a.learnt) + 1 ELSE a.highest) \in Nat
  BY <1>1, <1>2, AnalysisParts
<1>5. \/ b = a
      \/ b = [a EXCEPT !.seen = @ \cup {v}, !.causes = @ + 1]
      \/ b = [a EXCEPT !.panicked = TRUE]
      \/ b = [a EXCEPT !.seen = @ \cup {v}, !.learnt = Append(@, l0),
                       !.highest = IF vl > a.back_track_to THEN Len(a.learnt) + 1 ELSE @,
                       !.back_track_to = IF vl > @ THEN vl ELSE @]
  BY DEF BlameIn, v, l0
<1> HIDE DEF b, vl
<1>6. b \in Analysis
  BY <1>2, <1>3, <1>4, <1>5 DEF Analysis
<1>7. a.panicked => b.panicked
  BY <1>5 DEF Analysis
<1> QED BY <1>6, <1>7 DEF b

\* A literal is blamed: its variable is seen then, unless it is the one resolved on.
LEMMA BlameGood ==
  ASSUME NEW m \in [Variable -> Int], NEW lv \in Nat \ {0}, \A v \in Variable : LevelOf(m, v) <= lv,
         NEW a \in Analysis, LearntFalse(m, a, lv), Counted(m, a, lv), NEW l \in Literal
  PROVE  LET b == BlameIn(m, a, l) IN
         \/ b.panicked
         \/ /\ b \in Analysis /\ LearntFalse(m, b, lv) /\ Counted(m, b, lv) /\ SameVisit(a, b)
            /\ l.variable \in b.seen \/ (~a.first /\ l.variable = a.variable)
<1> DEFINE v == l.variable
           vl == LevelOf(m, v)
           b == BlameIn(m, a, l)
<1>1. v \in Variable /\ m[v] \in Int /\ vl \in Nat /\ (vl = 0 <=> IsUndecided(m, v))
  BY LiteralParts DEF LevelOf, IsUndecided
<1> HIDE DEF v
<1>2. CASE Ignores(a, v)
  <2>1. b = a
    BY <1>2 DEF BlameIn, v
  <2> HIDE DEF b
  <2> QED BY <1>2, <2>1 DEF Ignores, SameVisit, v, b
<1>3. CASE ~Ignores(a, v) /\ vl = a.level
  <2>1. b = [a EXCEPT !.seen = @ \cup {v}, !.causes = @ + 1]
    BY <1>3 DEF BlameIn, v
  <2>2. /\ b.seen = a.seen \cup {v} /\ b.causes = a.causes + 1 /\ b.learnt = a.learnt
        /\ b.back_track_to = a.back_track_to /\ b.highest = a.highest /\ b.level = a.level
        /\ b.clause = a.clause /\ b.first = a.first /\ b.variable = a.variable /\ b.value = a.value
        /\ b.why = a.why
    BY <2>1 DEF Analysis
  <2>3. b \in Analysis
    <3>1. a.seen \cup {v} \in SUBSET Variable /\ a.causes + 1 \in Nat
      BY <1>1, AnalysisParts
    <3> QED BY <2>1, <3>1 DEF Analysis
  <2> HIDE DEF b
  <2>4. vl = lv
    BY <1>3 DEF Counted
  <2>5. v \notin LearntVars(a) /\ v \notin a.seen /\ ~IsUndecided(m, v)
    BY <1>1, <1>3, <2>4, OpenFacts DEF Ignores
  <2>6. LearntVars(b) = LearntVars(a)
    BY <2>2 DEF LearntVars
  <2>7. OpenVars(m, b) = OpenVars(m, a) \cup {v} /\ v \notin OpenVars(m, a)
    BY <2>2, <2>5, <2>6 DEF OpenVars
  <2>8. LearntFalse(m, b, lv)
    <3>1. IsFiniteSet(b.seen)
      BY <2>2, FS_AddElement DEF LearntFalse
    <3> QED BY <2>2, <2>6, <3>1 DEF LearntFalse
  <2>9. Counted(m, b, lv)
    <3>1. b.causes = Cardinality(OpenVars(m, b))
      <4>1. Cardinality(OpenVars(m, b)) = Cardinality(OpenVars(m, a)) + 1
        BY <2>7, OpenFacts, FS_AddElement
      <4> QED BY <2>2, <4>1 DEF Counted
    <3>2. \A w \in OpenVars(m, b) : LevelOf(m, w) = lv
      BY <2>4, <2>7 DEF Counted
    <3> QED BY <2>2, <3>1, <3>2 DEF Counted
  <2> QED BY <2>2, <2>3, <2>8, <2>9 DEF SameVisit, v, b
<1>4. CASE ~Ignores(a, v) /\ vl # a.level /\ (a.level <= 1 \/ IsUndecided(m, v))
  <2>1. b = [a EXCEPT !.panicked = TRUE]
    BY <1>4 DEF BlameIn, v
  <2>2. b.panicked
    BY <2>1 DEF Analysis
  <2> QED BY <2>2
<1>5. CASE ~Ignores(a, v) /\ vl # a.level /\ ~(a.level <= 1 \/ IsUndecided(m, v))
  <2> DEFINE l0 == [variable |-> v, negate |-> IsTrue(m, v)]
  <2>1. b = [a EXCEPT !.seen = @ \cup {v},
                    !.learnt = Append(@, l0),
                    !.highest = IF vl > a.back_track_to THEN Len(a.learnt) + 1 ELSE @,
                    !.back_track_to = IF vl > @ THEN vl ELSE @]
    BY <1>5 DEF BlameIn, v
  <2>2. l0 = FalseLit(m, v) /\ l0 \in Literal /\ LitFalse(m, l0) /\ l0.variable = v
    BY <1>1, <1>5, FalseLitFacts DEF FalseLit
  <2>3. /\ b.seen = a.seen \cup {v} /\ b.causes = a.causes /\ b.learnt = Append(a.learnt, l0)
        /\ b.back_track_to = (IF vl > a.back_track_to THEN vl ELSE a.back_track_to)
        /\ b.highest = (IF vl > a.back_track_to THEN Len(a.learnt) + 1 ELSE a.highest)
        /\ b.level = a.level
        /\ b.clause = a.clause /\ b.first = a.first /\ b.variable = a.variable /\ b.value = a.value
        /\ b.why = a.why
    BY <2>1 DEF Analysis
  <2> HIDE DEF l0
  <2>4. a.learnt \in Seq(Literal) /\ Len(a.learnt) \in Nat /\ a.back_track_to \in Nat /\ a.highest \in Nat
    BY AnalysisParts
  <2>5. Append(a.learnt, l0) \in Seq(Literal)
    BY <2>2, <2>4
  <2>6. b \in Analysis
    <3>1. a.seen \cup {v} \in SUBSET Variable
      BY <1>1, AnalysisParts
    <3>2. /\ (IF vl > a.back_track_to THEN vl ELSE a.back_track_to) \in Nat
          /\ (IF vl > a.back_track_to THEN Len(a.learnt) + 1 ELSE a.highest) \in Nat
      BY <1>1, <2>4
    <3> QED BY <2>1, <2>5, <3>1, <3>2 DEF Analysis
  <2> HIDE DEF b
  <2>7. /\ DOMAIN b.learnt = 1 .. Len(a.learnt) + 1 /\ DOMAIN a.learnt = 1 .. Len(a.learnt)
        /\ b.learnt[Len(a.learnt) + 1] = l0
        /\ \A i \in DOMAIN a.learnt : b.learnt[i] = a.learnt[i]
    BY <2>2, <2>3, <2>4, AppendSet
  <2>8. LearntVars(b) = LearntVars(a) \cup {v}
    <3>1. \A i \in DOMAIN b.learnt : i \in DOMAIN a.learnt \/ i = Len(a.learnt) + 1
      BY <2>4, <2>7
    <3>2. LearntVars(b) \subseteq LearntVars(a) \cup {v}
      BY <2>2, <2>7, <3>1 DEF LearntVars
    <3>3. LearntVars(a) \cup {v} \subseteq LearntVars(b)
      BY <2>2, <2>4, <2>7 DEF LearntVars
    <3> QED BY <3>2, <3>3
  <2>9. OpenVars(m, b) = OpenVars(m, a)
    <3>1. v \notin a.seen
      BY <1>5 DEF Ignores
    <3> QED BY <2>3, <2>8, <3>1 DEF OpenVars
  <2>10. vl < lv
    BY <1>1, <1>5 DEF Counted
  <2>11. LearntFalse(m, b, lv)
    <3>1. IsFiniteSet(b.seen)
      BY <2>3, FS_AddElement DEF LearntFalse
    <3>2. LearntVars(b) \subseteq b.seen
      BY <2>3, <2>8 DEF LearntFalse
    <3>3. b.back_track_to < lv /\ b.back_track_to >= vl /\ b.back_track_to >= a.back_track_to
      BY <1>1, <2>3, <2>4, <2>10 DEF LearntFalse
    <3>4. ASSUME NEW i \in DOMAIN b.learnt
          PROVE  LitFalse(m, b.learnt[i]) /\ LevelOf(m, b.learnt[i].variable) <= b.back_track_to
      <4>1. CASE i \in DOMAIN a.learnt
        <5>1. b.learnt[i] = a.learnt[i] /\ LitFalse(m, a.learnt[i])
              /\ LevelOf(m, a.learnt[i].variable) <= a.back_track_to
          BY <2>7, <4>1 DEF LearntFalse
        <5>2. a.learnt[i] \in Literal
          BY <2>4, <4>1
        <5>3. LevelOf(m, a.learnt[i].variable) \in Nat
          BY <5>2, LiteralParts DEF LevelOf
        <5>4. b.back_track_to \in Nat
          BY <2>6, AnalysisParts
        <5> QED BY <2>4, <3>3, <5>1, <5>3, <5>4
      <4>2. CASE i = Len(a.learnt) + 1
        <5>1. b.back_track_to \in Nat
          BY <2>6, AnalysisParts
        <5> QED BY <1>1, <2>2, <2>7, <3>3, <4>2, <5>1
      <4> QED BY <2>4, <2>7, <4>1, <4>2
    <3>5. b.highest \in DOMAIN b.learnt
      <4>1. CASE vl > a.back_track_to
        BY <2>3, <2>4, <2>7, <4>1
      <4>2. CASE ~(vl > a.back_track_to)
        <5>1. a.back_track_to # 0 /\ a.learnt # << >>
          BY <1>1, <1>5, <2>4, <4>2 DEF LearntFalse
        <5> QED BY <2>3, <2>4, <2>7, <4>2, <5>1 DEF LearntFalse
      <4> QED BY <4>1, <4>2
    <3>6. b.learnt # << >>
      BY <2>4, <2>7
    <3> QED BY <3>1, <3>2, <3>3, <3>4, <3>5, <3>6 DEF LearntFalse
  <2>12. Counted(m, b, lv)
    BY <2>3, <2>9 DEF Counted
  <2> QED BY <2>3, <2>6, <2>11, <2>12 DEF SameVisit, v, b
<1> QED BY <1>2, <1>3, <1>4, <1>5

\* The loop over the literals of the clause under analysis.
BlameDef(m, q, lv, a, f, S) ==
  IF S = {} THEN a ELSE BlameIn(m, f[S \ {Max(S)}], q[Max(S)])
Blamings(m, e, S, b) ==
  /\ b \in Analysis
  /\ \/ b.panicked
     \/ /\ LearntFalse(m, b, e.level) /\ Counted(m, b, e.level) /\ SameVisit(e.from, b)
        /\ \A i \in S : e.lits[i].variable \in b.seen
                        \/ (~e.from.first /\ e.lits[i].variable = e.from.variable)
Blames == INSTANCE Recursion WITH Def <- BlameDef, P <- Blamings

\* All literals of a clause are blamed.
LEMMA BlameAll ==
  ASSUME NEW m \in [Variable -> Int], NEW lv \in Nat \ {0}, \A v \in Variable : LevelOf(m, v) <= lv,
         NEW a \in Analysis, LearntFalse(m, a, lv), Counted(m, a, lv), NEW q \in Seq(Literal)
  PROVE  Blamings(m, [level |-> lv, from |-> a, lits |-> q], 1 .. Len(q), Blames!Loop(m, q, lv, a, Len(q)))
<1> DEFINE e == [level |-> lv, from |-> a, lits |-> q]
<1>1. DOMAIN q = 1 .. Len(q) /\ Len(q) \in Nat /\ \A i \in 1 .. Len(q) : q[i] \in Literal
  OBVIOUS
<1>2. Blames!Rounds(m, q, lv, a, Len(q))
  BY DEF Blames!Rounds, BlameDef, Blames!Max, Max
<1>3. ASSUME NEW S \in SUBSET (1 .. Len(q)), NEW i \in S, NEW b, Blamings(m, e, S \ {i}, b)
      PROVE  Blamings(m, e, S, BlameIn(m, b, q[i]))
  <2> DEFINE l == q[i]
             c == BlameIn(m, b, l)
  <2>1. l \in Literal /\ b \in Analysis
    BY <1>1, <1>3 DEF Blamings
  <2>2. c \in Analysis /\ (b.panicked => c.panicked)
    BY <2>1, BlameTyped
  <2>3. CASE b.panicked
    BY <2>2, <2>3 DEF Blamings
  <2>4. CASE ~b.panicked /\ ~c.panicked
    <3>1. /\ LearntFalse(m, b, lv) /\ Counted(m, b, lv) /\ SameVisit(a, b)
          /\ \A j \in S \ {i} : q[j].variable \in b.seen \/ (~a.first /\ q[j].variable = a.variable)
      BY <1>3, <2>4 DEF Blamings
    <3>2. /\ LearntFalse(m, c, lv) /\ Counted(m, c, lv) /\ SameVisit(b, c)
          /\ l.variable \in c.seen \/ (~b.first /\ l.variable = b.variable)
      BY <2>1, <2>4, <3>1, BlameGood
    <3> HIDE DEF c
    <3>3. SameVisit(a, c)
      BY <3>1, <3>2 DEF SameVisit
    <3>4. \A j \in S : q[j].variable \in c.seen \/ (~a.first /\ q[j].variable = a.variable)
      BY <3>1, <3>2 DEF SameVisit
    <3> QED BY <2>2, <3>2, <3>3, <3>4 DEF Blamings, c
  <2>5. CASE c.panicked
    BY <2>2, <2>5 DEF Blamings
  <2> QED BY <2>3, <2>4, <2>5
<1>4. Blamings(m, e, {}, a)
  BY DEF Blamings, SameVisit
<1>5. Blames!Keeps(m, q, lv, a, Len(q), m, e)
  <2> HIDE DEF e
  <2> QED BY <1>3, <1>4 DEF Blames!Keeps, BlameDef, Blames!Max, Max
<1>6. Blamings(m, e, 1 .. Len(q), Blames!Loop(m, q, lv, a, Len(q)))
  BY <1>1, <1>2, <1>5, Blames!FoldInduction, Tr!LeastNatural DEF Blames!WellOrdered
<1> QED BY <1>6

\* A clause is visited.
VisitedBy(a, b) ==
  [b EXCEPT !.why = Append(@, a.clause), !.first = FALSE,
            !.panicked = @ \/ a.clause = InstallRootClause]

\* Visiting a clause leaves what was visited a consequence of the clauses, and variables
\* to resolve on, unless it panics (analyze).
LEMMA VisitGood ==
  ASSUME NEW s, NEW lv \in Nat \ {0}, Good(s, lv, "any"), NEW a, Analyzing(s, a, lv)
  PROVE  LET q == s.clauses[a.clause].lits
             b == VisitedBy(a, Blames!Loop(Map(s), q, lv, a, Len(q)))
         IN b.panicked \/ Popping(s, b, lv)
<1> DEFINE m == Map(s)
           q == s.clauses[a.clause].lits
           b0 == Blames!Loop(m, q, lv, a, Len(q))
           b == VisitedBy(a, b0)
           e == [level |-> lv, from |-> a, lits |-> q]
<1>1. s.decision_tracker \in Tracker /\ Consistent(s.decision_tracker) /\ s.clauses \in Seq(ClauseType)
      /\ TopLevel(s.decision_tracker) <= lv
  BY GoodTracks
<1>2. m = s.decision_tracker.map /\ m \in [Variable -> Int]
  BY <1>1, TrailEntries DEF Map
<1>3. \A v \in Variable : LevelOf(m, v) <= lv /\ LevelOf(m, v) \in Nat /\ (LevelOf(m, v) = 0 <=> IsUndecided(m, v))
  <2>1. TopLevel(s.decision_tracker) \in Nat /\ \A v \in Variable : LevelOf(m, v) \in Nat
    BY <1>1, <1>2, TrailEntries
  <2> QED BY <1>1, <1>2, <2>1, LevelsBelow
<1>4. a \in Analysis /\ LearntFalse(m, a, lv) /\ Counted(m, a, lv) /\ a.clause \in DOMAIN s.clauses
  BY DEF Analyzing
<1>5. q \in Seq(Literal)
  <2>1. s.clauses[a.clause] \in ClauseType
    BY <1>1, <1>4
  <2> QED BY <2>1 DEF ClauseType
<1>6. DOMAIN q = 1 .. Len(q) /\ ToSet(q) = {q[i] : i \in 1 .. Len(q)} /\ ToSet(q) \subseteq Literal
  BY <1>5, ToSetType DEF ToSet
<1>7. Blamings(m, e, 1 .. Len(q), b0)
  BY <1>2, <1>3, <1>4, <1>5, BlameAll
<1> HIDE DEF b0
<1>8. CASE ~b.panicked
  <2>1. b0 \in Analysis /\ ~b0.panicked
    BY <1>7, <1>8 DEF Blamings, VisitedBy, Analysis
  <2>2. /\ b.why = Append(b0.why, a.clause) /\ b.first = FALSE /\ b.seen = b0.seen
        /\ b.learnt = b0.learnt /\ b.causes = b0.causes /\ b.back_track_to = b0.back_track_to
        /\ b.highest = b0.highest /\ b.level = b0.level
    BY <2>1 DEF VisitedBy, Analysis
  <2>3. b \in Analysis
    <3>1. b0.why \in Seq(Nat) /\ a.clause \in Nat /\ b0.panicked \in BOOLEAN
      BY <1>4, <2>1, AnalysisParts
    <3>2. Append(b0.why, a.clause) \in Seq(Nat) /\ (b0.panicked \/ a.clause = InstallRootClause) \in BOOLEAN
      BY <3>1
    <3> QED BY <2>1, <3>2 DEF VisitedBy, Analysis
  <2> HIDE DEF b
  <2>4. /\ LearntFalse(m, b0, lv) /\ Counted(m, b0, lv) /\ SameVisit(a, b0)
        /\ \A i \in 1 .. Len(q) : q[i].variable \in b0.seen
                                 \/ (~a.first /\ q[i].variable = a.variable)
    BY <1>7, <2>1 DEF Blamings
  <2> HIDE DEF q
  <2>5. LearntVars(b) = LearntVars(b0) /\ OpenVars(m, b) = OpenVars(m, b0) /\ Blamed(m, b) = Blamed(m, b0)
    BY <2>2 DEF LearntVars, OpenVars, Blamed
  <2>6. LearntFalse(m, b, lv) /\ Counted(m, b, lv)
    BY <2>2, <2>4, <2>5 DEF LearntFalse, Counted
  <2>7. a.seen \subseteq b.seen /\ b.seen \subseteq Variable
    BY <2>2, <2>3, <2>4, AnalysisParts DEF SameVisit
  <2>8. ASSUME NEW l \in ToSet(q), LitFalse(m, l), a.first \/ IsUndecided(m, a.variable)
        PROVE  l \in Blamed(m, b) /\ l.variable \in b.seen /\ ~IsUndecided(m, l.variable)
               /\ l.variable \in Variable
    <3>1. l \in Literal /\ l.variable \in Variable
      BY <1>6, LiteralParts
    <3>2. ~IsUndecided(m, l.variable) /\ l = FalseLit(m, l.variable)
      BY <1>2, <2>8, <3>1, FalseLitFacts
    <3>3. l.variable \in b.seen
      BY <1>6, <2>2, <2>4, <2>8, <3>2
    <3>4. l \in Blamed(m, b)
      BY <3>2, <3>3 DEF Blamed
    <3> QED BY <3>1, <3>2, <3>3, <3>4
  <2>9. ASSUME NEW v \in Variable, v \in b.seen, LevelOf(m, v) = lv PROVE v \in OpenVars(m, b)
    <3>1. v \notin LearntVars(b)
      BY <1>2, <2>3, <2>6, <2>9, OpenFacts
    <3> QED BY <1>3, <2>9, <3>1 DEF OpenVars
  <2>10. b.why = Append(a.why, a.clause) /\ ToSet(b.why) = ToSet(a.why) \cup {a.clause}
    <3>1. b0.why = a.why /\ a.why \in Seq(Nat) /\ a.clause \in Nat
      BY <1>4, <2>4, AnalysisParts DEF SameVisit
    <3>2. ToSet(Append(a.why, a.clause)) = ToSet(a.why) \cup {a.clause}
      BY <3>1, AppendSet
    <3> QED BY <2>2, <3>1, <3>2
  <2>11. CASE a.first
    <3>1. /\ \A l \in ToSet(q) : LitFalse(m, l)
          /\ a.why = << >> /\ \E l \in ToSet(q) : LevelOf(m, l.variable) = lv
      BY <2>11 DEF Analyzing, Falsifies, q
    <3>2. OpenVars(m, b) # {}
      BY <2>8, <2>9, <2>11, <3>1
    <3>3. Entail(s.clauses, b.why, Blamed(m, b))
      <4>1. ToSet(b.why) = {a.clause}
        BY <2>10, <3>1, ShortSequences
      <4>2. ASSUME NEW A, Sat(A, q) PROVE \E l \in Blamed(m, b) : (l.variable \in A) # l.negate
        BY <2>8, <2>11, <3>1, <4>2 DEF Sat
      <4>3. a.clause \in DOMAIN s.clauses /\ q # << >>
        BY DEF Analyzing, q
      <4> QED BY <4>1, <4>2, <4>3 DEF Entail, q
    <3> QED BY <2>2, <2>3, <2>6, <3>2, <3>3 DEF Popping, b, q, b0
  <2>12. CASE ~a.first
    <3>1. /\ OpenVars(m, a) # {} /\ IsUndecided(m, a.variable)
          /\ \A l \in ToSet(q) : l = [variable |-> a.variable, negate |-> ~a.value] \/ LitFalse(m, l)
          /\ Entail(s.clauses, a.why, Blamed(m, a) \cup {PoppedLit(a)})
      BY <2>12 DEF Analyzing, q
    <3>2. OpenVars(m, b) # {}
      <4>1. PICK v \in OpenVars(m, a) : TRUE
        BY <3>1
      <4>2. v \in a.seen /\ LevelOf(m, v) = lv
        BY <1>4 DEF OpenVars, Counted
      <4> QED BY <2>7, <2>9, <4>2
    <3>3. Entail(s.clauses, b.why, Blamed(m, b))
      <4>1. ASSUME NEW A, \A w \in ToSet(b.why) : Sat(A, s.clauses[w].lits)
            PROVE  \E l \in Blamed(m, b) : (l.variable \in A) # l.negate
        <5>1. Blamed(m, a) \subseteq Blamed(m, b)
          BY <2>7 DEF Blamed
        <5>2. \E l \in Blamed(m, a) \cup {PoppedLit(a)} : (l.variable \in A) # l.negate
          BY <2>10, <3>1, <4>1 DEF Entail
        <5>3. CASE \E l \in Blamed(m, a) : (l.variable \in A) # l.negate
          BY <5>1, <5>3
        <5>4. CASE (a.variable \in A) # a.value
          <6>1. Sat(A, q)
            BY <2>10, <4>1 DEF q
          <6>2. PICK l \in ToSet(q) : (l.variable \in A) # l.negate
            BY <6>1 DEF Sat
          <6>3. a.value \in BOOLEAN
            BY <1>4, AnalysisParts
          <6>4. l # [variable |-> a.variable, negate |-> ~a.value]
            BY <5>4, <6>2, <6>3
          <6> QED BY <2>8, <3>1, <6>2, <6>4
        <5> QED BY <5>2, <5>3, <5>4 DEF PoppedLit
      <4>2. \A w \in ToSet(b.why) : w \in DOMAIN s.clauses /\ s.clauses[w].lits # << >>
        <5>1. a.clause \in DOMAIN s.clauses /\ s.clauses[a.clause].lits # << >>
          BY DEF Analyzing
        <5> QED BY <2>10, <3>1, <5>1 DEF Entail
      <4> QED BY <4>1, <4>2 DEF Entail
    <3> QED BY <2>2, <2>3, <2>6, <3>2, <3>3 DEF Popping, b, q, b0
  <2> QED BY <2>11, <2>12
<1> QED BY <1>8 DEF b0

\* Less is decided: what goes against an assertion is still of the level.
LEMMA RecentShrinks ==
  ASSUME NEW s, NEW t, Sound(s), ListsOK(s), t.clauses = s.clauses,
         t.negative_assertions = s.negative_assertions, t.learnt_clause_ids = s.learnt_clause_ids,
         \A v \in Variable : Map(t)[v] \in {0, Map(s)[v]}, NEW lv, Recent(s, lv)
  PROVE  Recent(t, lv)
<1>1. \A v \in Variable : ~IsUndecided(Map(t), v) => Map(t)[v] = Map(s)[v]
  BY DEF IsUndecided
<1>2. ASSUME NEW i \in DOMAIN s.negative_assertions, IsTrue(Map(t), s.negative_assertions[i][1])
      PROVE  LevelIs(Map(t), s.negative_assertions[i][1], lv)
  <2>1. s.negative_assertions[i][1] \in Variable
    BY AssertionsTyped
  <2>2. Map(t)[s.negative_assertions[i][1]] = Map(s)[s.negative_assertions[i][1]]
    BY <1>1, <1>2, <2>1 DEF IsTrue, IsUndecided
  <2> QED BY <1>2, <2>2 DEF Recent, IsTrue, LevelIs, LevelOf
<1>3. ASSUME NEW i \in DOMAIN s.learnt_clause_ids, Len(s.clauses[s.learnt_clause_ids[i]].lits) = 1,
             LitFalse(Map(t), s.clauses[s.learnt_clause_ids[i]].lits[1])
      PROVE  LevelIs(Map(t), s.clauses[s.learnt_clause_ids[i]].lits[1].variable, lv)
  <2> DEFINE l == s.clauses[s.learnt_clause_ids[i]].lits[1]
  <2>1. l \in Literal
    BY AssertionsTyped
  <2> HIDE DEF l
  <2>2. l.variable \in Variable
    BY <2>1, LiteralParts
  <2>3. Map(t)[l.variable] # 0
    BY <1>3 DEF LitFalse, IsTrue, IsFalse, l
  <2>4. Map(t)[l.variable] = Map(s)[l.variable]
    BY <1>1, <2>2, <2>3 DEF IsUndecided
  <2>5. LitFalse(Map(s), l)
    BY <1>3, <2>4 DEF LitFalse, IsTrue, IsFalse, l
  <2>6. LevelIs(Map(s), l.variable, lv)
    BY <1>3, <2>5 DEF Recent, l
  <2> QED BY <2>4, <2>6 DEF LevelIs, LevelOf, l
<1> QED BY <1>2, <1>3 DEF Recent

\* The last entry of the trail is popped.
PoppedOff(s) ==
  [s EXCEPT !.decision_tracker = UndoLast(s.decision_tracker),
            !.panicked = UndoLastPanics(s.decision_tracker)]
AfterPop(s, a) ==
  LET d == Trail(s)[Len(Trail(s))]
  IN [a EXCEPT !.variable = d.variable, !.value = d.value, !.clause = d.derived_from,
               !.level = TopLevel(PoppedOff(s).decision_tracker),
               !.causes = IF d.variable \in a.seen /\ @ > 0 THEN @ - 1 ELSE @]

\* While a variable is to be resolved on, the trail has two entries, the last one of
\* the level.
LEMMA PopTracks ==
  ASSUME NEW s, NEW lv \in Nat, lv > 1, Good(s, lv, "any"), NEW v \in Variable, LevelOf(Map(s), v) = lv
  PROVE  LET x == s.decision_tracker
             y == PoppedOff(s).decision_tracker
             n == Len(x.stack)
         IN /\ n \in Nat /\ n >= 2 /\ LevelOf(x.map, x.stack[n].variable) = lv
            /\ y \in Tracker /\ Consistent(y)
            /\ ~HasUnpropagated(y)
            /\ Len(y.stack) = n - 1 /\ \A i \in 1 .. n - 1 : y.stack[i] = x.stack[i]
            /\ \A w \in Variable : y.map[w] = IF w = x.stack[n].variable THEN 0 ELSE x.map[w]
            /\ ~PoppedOff(s).panicked /\ Good(PoppedOff(s), lv, "any")
            /\ SameLists(s, PoppedOff(s)) /\ PoppedOff(s).clauses = s.clauses
<1> DEFINE x == s.decision_tracker
           n == Len(x.stack)
           y == UndoLast(x)
           t == PoppedOff(s)
<1>1. /\ x \in Tracker /\ Consistent(x) /\ Explained(x, s.clauses) /\ TopLevel(x) <= lv
      /\ Bottom(x, lv) /\ Shape(s)
  BY GoodTracks
<1>2. /\ x.stack \in Seq(Decision) /\ n \in Nat /\ x.map \in [Variable -> Int] /\ TopLevel(x) \in Nat
      /\ \A i \in 1 .. n : x.stack[i].variable \in Variable
      /\ \A w \in Variable : LevelOf(x.map, w) \in Nat
  BY <1>1, TrailEntries
<1>3. PICK i \in 1 .. n : x.stack[i].variable = v
  <2>1. ~IsUndecided(x.map, v)
    BY <1>2 DEF LevelOf, IsUndecided, Map
  <2> QED BY <1>1, <2>1 DEF Consistent
<1>4. x.stack # << >> /\ 1 \in 1 .. n /\ LevelOf(x.map, x.stack[1].variable) = 1
  BY <1>1, BottomEntry
<1>5. n >= 2 /\ n \in 1 .. n
  BY <1>2, <1>3, <1>4 DEF Map
<1>6. LevelOf(x.map, x.stack[n].variable) = lv
  <2>1. LevelOf(x.map, x.stack[n].variable) <= TopLevel(x)
    BY <1>1, <1>5, SameTracker, Tr!LevelsBelowTop
  <2>2. i < n => LevelOf(x.map, x.stack[i].variable) <= LevelOf(x.map, x.stack[n].variable)
    BY <1>1, <1>5 DEF Consistent
  <2>3. lv <= LevelOf(x.map, x.stack[n].variable)
    BY <1>2, <1>3, <2>2 DEF Map
  <2>4. LevelOf(x.map, x.stack[n].variable) \in Nat
    BY <1>2, <1>5
  <2> HIDE DEF x, n, y, t
  <2> QED BY <1>1, <1>2, <2>1, <2>3, <2>4
<1>7. n - 1 \in 0 .. n /\ y = CutTo(x, n - 1)
  BY <1>2, <1>5 DEF UndoLast
<1> HIDE DEF y
<1>8. /\ y \in Tracker /\ Consistent(y) /\ Len(y.stack) = n - 1 /\ y.propagate_index = n - 1
      /\ \A j \in 1 .. n - 1 : /\ y.stack[j] = x.stack[j]
                               /\ y.map[x.stack[j].variable] = x.map[x.stack[j].variable]
      /\ \A w \in Variable : y.map[w] \in {0, x.map[w]}
      /\ \A w \in Variable : y.map[w] # x.map[w] => \E j \in n - 1 + 1 .. n : x.stack[j].variable = w
      /\ TopLevel(y) <= TopLevel(x)
  <2> DEFINE k == n - 1
  <2>1. k \in 0 .. n /\ y = CutTo(x, k) /\ k + 1 = n - 1 + 1
    BY <1>7
  <2> HIDE DEF k, x, t
  <2>2. /\ CutTo(x, k) \in Tracker /\ Consistent(CutTo(x, k))
        /\ Len(CutTo(x, k).stack) = k
        /\ CutTo(x, k).propagate_index = k
        /\ \A j \in 1 .. k : /\ CutTo(x, k).stack[j] = x.stack[j]
                             /\ CutTo(x, k).map[x.stack[j].variable] = x.map[x.stack[j].variable]
        /\ \A w \in Variable : CutTo(x, k).map[w] \in {0, x.map[w]}
        /\ \A w \in Variable : CutTo(x, k).map[w] # x.map[w] =>
             \E j \in k + 1 .. Len(x.stack) : x.stack[j].variable = w
        /\ TopLevel(CutTo(x, k)) <= TopLevel(x)
    <3> HIDE DEF n
    <3>1. x \in Tracker /\ Consistent(x) /\ k \in 0 .. Len(x.stack)
      BY <1>1, <2>1 DEF n
    <3> QED BY <3>1, CutTrail
  <2> DEFINE z == CutTo(x, k)
  <2>3. z = y
    BY <2>1
  <2> HIDE DEF z
  <2>4. /\ z \in Tracker /\ Consistent(z) /\ Len(z.stack) = k /\ z.propagate_index = k
        /\ \A j \in 1 .. k : /\ z.stack[j] = x.stack[j]
                             /\ z.map[x.stack[j].variable] = x.map[x.stack[j].variable]
        /\ \A w \in Variable : z.map[w] \in {0, x.map[w]}
        /\ \A w \in Variable : z.map[w] # x.map[w] => \E j \in k + 1 .. n : x.stack[j].variable = w
        /\ TopLevel(z) <= TopLevel(x)
    BY <2>2 DEF z
  <2> QED BY <2>3, <2>4 DEF k
<1>9. y.map[x.stack[n].variable] = 0
  BY <1>2, <1>5, <1>7 DEF CutTo
<1>10. \A w \in Variable : y.map[w] = IF w = x.stack[n].variable THEN 0 ELSE x.map[w]
  <2> SUFFICES ASSUME NEW w \in Variable, w # x.stack[n].variable PROVE y.map[w] = x.map[w]
    BY <1>9
  <2>1. n - 1 + 1 .. n = {n}
    BY <1>2
  <2> QED BY <1>8, <2>1
<1>11. Explained(y, s.clauses)
  <2>1. /\ Len(y.stack) <= Len(x.stack) /\ \A j \in 1 .. Len(y.stack) : y.stack[j] = x.stack[j]
        /\ \A w \in Variable : y.map[w] \in {0, x.map[w]}
    BY <1>2, <1>5, <1>8
  <2> QED BY <1>1, <1>8, <2>1, ExplainedPrefix
<1>12. TopLevel(y) <= lv
  <2>1. TopLevel(y) \in Nat
    BY <1>8, TrailEntries
  <2> QED BY <1>1, <1>2, <1>8, <2>1
<1>13. Bottom(y, lv)
  <2>1. 1 \in 1 .. n - 1 /\ y.stack # << >>
    BY <1>2, <1>5, <1>8
  <2>2. LevelOf(y.map, y.stack[1].variable) = 1
    <3>1. y.stack[1] = x.stack[1] /\ y.map[x.stack[1].variable] = x.map[x.stack[1].variable]
      BY <1>8, <2>1
    <3> QED BY <1>4, <3>1 DEF LevelOf
  <2>3. IsRoot(y.stack[1])
    <3>1. x.stack # << >> /\ IsRoot(x.stack[1])
      BY <1>1, <1>4 DEF Bottom
    <3> QED BY <1>8, <2>1, <3>1
  <2> QED BY <2>1, <2>2, <2>3 DEF Bottom
<1>14. /\ Shape(t) /\ SameLists(s, t) /\ SameQueues(s, t) /\ t.clauses = s.clauses
       /\ t.watches = s.watches /\ t.decision_tracker = y /\ t.panicked = UndoLastPanics(x)
  BY <1>1 DEF Shape, SameLists, SameQueues, PoppedOff, y
<1> HIDE DEF t
<1>15. Good(t, lv, "any")
  BY <1>8, <1>11, <1>12, <1>13, <1>14, GoodTrail DEF TrailOK
<1>16. ~t.panicked
  <2>1. ~UndoLastPanics(x)
    BY <1>2, <1>5 DEF UndoLastPanics
  <2> QED BY <1>14, <2>1
<1>17. ~HasUnpropagated(y)
  BY <1>2, <1>8 DEF HasUnpropagated
<1> QED BY <1>2, <1>5, <1>6, <1>8, <1>10, <1>14, <1>15, <1>16, <1>17 DEF t

\* The trail is popped: on to the next entry, to the clause of a variable to be
\* resolved on, or to the asserting literal.
LEMMA PopGood ==
  ASSUME NEW s, NEW lv \in Nat, lv > 1, Good(s, lv, "any"), NEW a, Popping(s, a, lv)
  PROVE  LET d == Trail(s)[Len(Trail(s))]
             t == PoppedOff(s)
             b == AfterPop(s, a)
         IN /\ Good(t, lv, "any") /\ ~t.panicked /\ SameLists(s, t) /\ t.clauses = s.clauses
            /\ \A w \in Variable : Map(t)[w] \in {0, Map(s)[w]}
            /\ b.panicked = a.panicked
            /\ d.variable \notin a.seen => Popping(t, b, lv)
            /\ d.variable \in a.seen /\ a.causes <= 1 => Learning(t, b, lv)
            /\ d.variable \in a.seen /\ ~(a.causes <= 1) => Analyzing(t, b, lv)
<1> DEFINE x == s.decision_tracker
           n == Len(x.stack)
           t == PoppedOff(s)
           y == t.decision_tracker
           d == x.stack[n]
           b == AfterPop(s, a)
           m == x.map
<1>1. /\ a \in Analysis /\ LearntFalse(m, a, lv) /\ Counted(m, a, lv) /\ OpenVars(m, a) # {}
      /\ Entail(s.clauses, a.why, Blamed(m, a)) /\ ~a.first
  BY DEF Popping, Map
<1>2. x \in Tracker /\ Consistent(x) /\ Explained(x, s.clauses) /\ s.clauses \in Seq(ClauseType)
  BY GoodTracks
<1>3. m \in [Variable -> Int]
  BY <1>2, TrailEntries
<1>4. PICK v \in Variable : LevelOf(m, v) = lv
  BY <1>1, AnalysisParts DEF OpenVars, Counted
<1>5. /\ n \in Nat /\ n >= 2 /\ LevelOf(m, d.variable) = lv /\ ~HasUnpropagated(y)
      /\ y \in Tracker /\ Consistent(y)
      /\ Len(y.stack) = n - 1 /\ \A i \in 1 .. n - 1 : y.stack[i] = x.stack[i]
      /\ \A w \in Variable : y.map[w] = IF w = d.variable THEN 0 ELSE m[w]
      /\ ~t.panicked /\ Good(t, lv, "any") /\ SameLists(s, t) /\ t.clauses = s.clauses
  BY <1>4, PopTracks DEF Map
<1> HIDE DEF t
<1>6. /\ d \in Decision /\ d.variable \in Variable /\ d.value \in BOOLEAN /\ d.derived_from \in Nat
      /\ (IsTrue(m, d.variable) <=> d.value) /\ ~IsUndecided(m, d.variable)
  <2>1. n \in 1 .. n
    BY <1>5
  <2> QED BY <1>2, <2>1, TrailEntries DEF Consistent
<1>7. y.map \in [Variable -> Int] /\ TopLevel(y) \in Nat
  BY <1>5, TrailEntries
<1>8. b = [a EXCEPT !.variable = d.variable, !.value = d.value, !.clause = d.derived_from,
                    !.level = TopLevel(y),
                    !.causes = IF d.variable \in a.seen /\ @ > 0 THEN @ - 1 ELSE @]
  BY DEF AfterPop, Trail, t
<1> HIDE DEF b
<1>9. (IF d.variable \in a.seen /\ a.causes > 0 THEN a.causes - 1 ELSE a.causes) \in Nat
  BY <1>1, AnalysisParts
<1>10. b \in Analysis
  BY <1>1, <1>6, <1>7, <1>8, <1>9 DEF Analysis
<1>11. /\ b.variable = d.variable /\ b.value = d.value /\ b.clause = d.derived_from
       /\ b.level = TopLevel(y) /\ b.seen = a.seen /\ b.learnt = a.learnt
       /\ b.back_track_to = a.back_track_to /\ b.highest = a.highest /\ b.why = a.why
       /\ b.first = a.first /\ b.panicked = a.panicked
       /\ b.causes = IF d.variable \in a.seen /\ a.causes > 0 THEN a.causes - 1 ELSE a.causes
  BY <1>1, <1>8 DEF Analysis
<1> HIDE DEF d, n, x
<1>12. LearntVars(b) = LearntVars(a) /\ d.variable \notin LearntVars(a)
  <2>1. d.variable \notin LearntVars(a)
    BY <1>1, <1>3, <1>5, <1>6, OpenFacts
  <2> QED BY <1>11, <2>1 DEF LearntVars
<1>13. \A w \in Variable : w # d.variable => y.map[w] = m[w]
  BY <1>5
<1>14. IsUndecided(y.map, d.variable)
  BY <1>5, <1>6 DEF IsUndecided
<1>15. LearntFalse(y.map, b, lv)
  <2> SUFFICES ASSUME NEW i \in DOMAIN a.learnt
               PROVE  /\ LitFalse(y.map, a.learnt[i])
                      /\ LevelOf(y.map, a.learnt[i].variable) <= a.back_track_to
    BY <1>1, <1>11, <1>12 DEF LearntFalse
  <2>1. a.learnt[i] \in Literal
    BY <1>1, AnalysisParts
  <2>2. a.learnt[i].variable \in Variable /\ a.learnt[i].variable # d.variable
    BY <1>12, <2>1, LiteralParts DEF LearntVars
  <2>3. y.map[a.learnt[i].variable] = m[a.learnt[i].variable]
    BY <1>13, <2>2
  <2>4. LitFalse(m, a.learnt[i]) /\ LevelOf(m, a.learnt[i].variable) <= a.back_track_to
    BY <1>1 DEF LearntFalse
  <2> QED BY <2>3, <2>4 DEF LitFalse, IsTrue, IsFalse, LevelOf
<1>16. a.seen \subseteq Variable
  BY <1>1, AnalysisParts
<1>17. OpenVars(y.map, b) = OpenVars(m, a) \ {d.variable}
  BY <1>11, <1>12, <1>13, <1>14, <1>16 DEF OpenVars, IsUndecided
<1>18. OpenVars(y.map, b) # {} => TopLevel(y) = lv
  <2> SUFFICES ASSUME NEW w \in OpenVars(y.map, b) PROVE TopLevel(y) = lv
    OBVIOUS
  <2>1. w \in Variable /\ w # d.variable /\ LevelOf(m, w) = lv
    BY <1>1, <1>16, <1>17 DEF OpenVars, Counted
  <2>2. LevelOf(y.map, w) = lv
    BY <1>13, <2>1 DEF LevelOf
  <2>3. lv <= TopLevel(y)
    BY <1>5, <2>1, <2>2, LevelsBelow
  <2>4. TopLevel(y) <= lv
    BY <1>5, GoodTracks
  <2> QED BY <1>7, <2>3, <2>4
<1>19. \A w \in OpenVars(y.map, b) : LevelOf(y.map, w) = lv
  <2> SUFFICES ASSUME NEW w \in OpenVars(y.map, b) PROVE LevelOf(y.map, w) = lv
    OBVIOUS
  <2>1. w \in Variable /\ w # d.variable /\ LevelOf(m, w) = lv
    BY <1>1, <1>16, <1>17 DEF OpenVars, Counted
  <2> QED BY <1>13, <2>1 DEF LevelOf
<1>20. Blamed(m, a) \subseteq Blamed(y.map, b) \cup (IF d.variable \in a.seen THEN {PoppedLit(b)} ELSE {})
  <2> SUFFICES ASSUME NEW w \in a.seen, ~IsUndecided(m, w)
               PROVE  FalseLit(m, w) \in Blamed(y.map, b) \/ (d.variable \in a.seen /\ FalseLit(m, w) = PoppedLit(b))
    BY DEF Blamed
  <2>1. CASE w = d.variable
    <3>1. IsTrue(m, d.variable) = d.value
      BY <1>6 DEF IsTrue
    <3> QED BY <1>11, <2>1, <3>1 DEF FalseLit, PoppedLit
  <2>2. CASE w # d.variable
    <3>1. y.map[w] = m[w]
      BY <1>13, <1>16, <2>2
    <3>2. FalseLit(y.map, w) = FalseLit(m, w) /\ ~IsUndecided(y.map, w)
      BY <3>1 DEF FalseLit, IsTrue, IsUndecided
    <3> QED BY <1>11, <3>2 DEF Blamed
  <2> QED BY <2>1, <2>2
<1>21. ASSUME d.variable \notin a.seen PROVE Popping(t, b, lv)
  <2>1. OpenVars(y.map, b) = OpenVars(m, a) /\ b.causes = a.causes
    BY <1>11, <1>17, <1>21 DEF OpenVars
  <2>2. Counted(y.map, b, lv)
    BY <1>1, <1>11, <1>18, <1>19, <2>1 DEF Counted
  <2>3. Entail(t.clauses, b.why, Blamed(y.map, b))
    <3>1. Blamed(m, a) \subseteq Blamed(y.map, b)
      BY <1>20, <1>21
    <3> QED BY <1>1, <1>5, <1>11, <3>1 DEF Entail
  <2> QED BY <1>1, <1>10, <1>11, <1>15, <2>1, <2>2, <2>3 DEF Popping, Map
<1>22. ASSUME d.variable \in a.seen
       PROVE  /\ a.causes > 0 /\ b.causes = a.causes - 1
              /\ b.causes = Cardinality(OpenVars(y.map, b)) /\ IsFiniteSet(OpenVars(y.map, b))
  <2>1. d.variable \in OpenVars(m, a)
    BY <1>6, <1>12, <1>22 DEF OpenVars
  <2>2. IsFiniteSet(OpenVars(m, a)) /\ a.causes = Cardinality(OpenVars(m, a)) /\ a.causes \in Nat
    BY <1>1, <1>3, OpenFacts DEF Counted
  <2>3. Cardinality(OpenVars(y.map, b)) = a.causes - 1 /\ IsFiniteSet(OpenVars(y.map, b))
    BY <1>17, <2>1, <2>2, FS_RemoveElement
  <2>4. a.causes # 0
    BY <2>1, <2>2, FS_EmptySet
  <2> QED BY <1>11, <1>22, <2>2, <2>3, <2>4
<1>23. Entail(t.clauses, b.why, Blamed(y.map, b) \cup {PoppedLit(b)})
  <2>1. Blamed(m, a) \subseteq Blamed(y.map, b) \cup {PoppedLit(b)}
    BY <1>20
  <2>2. Entail(s.clauses, a.why, Blamed(y.map, b) \cup {PoppedLit(b)})
    BY <1>1, <2>1 DEF Entail
  <2> QED BY <1>5, <1>11, <2>2
<1>24. ASSUME d.variable \in a.seen, a.causes <= 1 PROVE Learning(t, b, lv)
  <2>1. OpenVars(y.map, b) = {}
    BY <1>1, <1>22, <1>24, AnalysisParts, FS_EmptySet
  <2>2. ASSUME NEW l \in Blamed(y.map, b) PROVE l \in ToSet(b.learnt)
    <3>1. PICK w \in b.seen : ~IsUndecided(y.map, w) /\ l = FalseLit(y.map, w)
      BY <2>2 DEF Blamed
    <3>2. w \in LearntVars(b)
      BY <2>1, <3>1 DEF OpenVars
    <3>3. PICK i \in DOMAIN b.learnt : b.learnt[i].variable = w
      BY <3>2 DEF LearntVars
    <3>4. b.learnt \in Seq(Literal)
      BY <1>10, AnalysisParts
    <3>5. b.learnt[i] \in Literal /\ LitFalse(y.map, b.learnt[i])
      BY <1>15, <3>4 DEF LearntFalse
    <3>6. b.learnt[i] = FalseLit(y.map, w)
      BY <1>7, <3>3, <3>5, FalseLitFacts
    <3> QED BY <3>1, <3>4, <3>6, ToSetType
  <2>3. Entail(t.clauses, b.why, ToSet(b.learnt) \cup {PoppedLit(b)})
    BY <1>23, <2>2 DEF Entail
  <2>4. b.variable \notin LearntVars(b) /\ IsUndecided(y.map, b.variable)
    BY <1>11, <1>12, <1>14
  <2> QED BY <1>5, <1>10, <1>15, <2>3, <2>4 DEF Learning, Map
<1>25. ASSUME d.variable \in a.seen, ~(a.causes <= 1) PROVE Analyzing(t, b, lv)
  <2>1. OpenVars(y.map, b) # {}
    <3>1. b.causes # 0
      BY <1>1, <1>22, <1>25, AnalysisParts
    <3>2. Cardinality({}) = 0
      BY FS_EmptySet
    <3>3. b.causes = Cardinality(OpenVars(y.map, b))
      BY <1>22, <1>25
    <3> QED BY <3>1, <3>2, <3>3
  <2>2. Counted(y.map, b, lv)
    BY <1>11, <1>18, <1>19, <1>22, <1>25, <2>1 DEF Counted
  <2>3. Follows(x, s.clauses, n)
    <3>1. PICK w \in OpenVars(y.map, b) : TRUE
      BY <2>1
    <3>2. w \in Variable /\ w # d.variable /\ LevelOf(m, w) = lv /\ ~IsUndecided(m, w)
      BY <1>1, <1>16, <1>17 DEF OpenVars, Counted
    <3>3. PICK j \in 1 .. n : x.stack[j].variable = w
      BY <1>2, <3>2 DEF Consistent, n
    <3>4. j # n
      BY <3>2, <3>3 DEF d
    <3>5. n \in 1 .. n /\ n - 1 \in 1 .. n /\ j <= n - 1
      BY <1>5, <3>3, <3>4
    <3>6. LevelOf(m, x.stack[n - 1].variable) >= lv
      <4>1. CASE j = n - 1
        <5>1. LevelOf(m, x.stack[n - 1].variable) = lv
          BY <3>2, <3>3, <4>1
        <5> QED BY <5>1
      <4>2. CASE j < n - 1
        <5>1. LevelOf(m, x.stack[j].variable) <= LevelOf(m, x.stack[n - 1].variable)
          BY <1>2, <3>5, <4>2 DEF Consistent, n
        <5>2. LevelOf(m, x.stack[n - 1].variable) \in Nat
          BY <1>2, <3>5, TrailEntries DEF n
        <5> QED BY <3>2, <3>3, <5>1, <5>2
      <4> QED BY <3>5, <4>1, <4>2
    <3>7. ~Opens(x, n)
      <4>1. LevelOf(m, x.stack[n - 1].variable) \in Nat
        BY <1>2, <3>5, TrailEntries DEF n
      <4> QED BY <1>5, <3>6, <4>1 DEF Opens, d
    <3> QED BY <1>2, <3>5, <3>7 DEF Explained, n
  <2>4. /\ d.derived_from \in DOMAIN s.clauses /\ s.clauses[d.derived_from].lits # << >>
        /\ \A l \in ToSet(s.clauses[d.derived_from].lits) :
             l = Own(d) \/ \E j \in 1 .. n - 1 : l = Falsified(x.stack[j])
    BY <2>3 DEF Follows, d, ToSet
  <2>5. ASSUME NEW l \in ToSet(s.clauses[d.derived_from].lits)
        PROVE  l = [variable |-> b.variable, negate |-> ~b.value] \/ LitFalse(y.map, l)
    <3>1. CASE l = Own(d)
      BY <1>11, <3>1 DEF Own
    <3>2. CASE \E j \in 1 .. n - 1 : l = Falsified(x.stack[j])
      <4>1. PICK j \in 1 .. n - 1 : l = Falsified(x.stack[j])
        BY <3>2
      <4>2. l = Falsified(y.stack[j]) /\ j \in 1 .. Len(y.stack)
        BY <1>5, <4>1
      <4>3. y.stack[j] \in Decision
        BY <1>5, <4>2, TrailEntries
      <4>4. l \in Literal
        BY <4>2, <4>3, LiteralParts
      <4> QED BY <1>5, <4>2, <4>4, FalseOnTrail
    <3> QED BY <2>4, <3>1, <3>2
  <2> QED BY <1>1, <1>5, <1>10, <1>11, <1>14, <1>15, <1>23, <2>1, <2>2, <2>4, <2>5 DEF Analyzing, Map
<1>26. \A w \in Variable : Map(t)[w] \in {0, Map(s)[w]}
  BY <1>5 DEF Map, x
<1> QED BY <1>5, <1>11, <1>21, <1>24, <1>25, <1>26 DEF d, n, x, t, b, Trail

----------------------------------------------------------------------------
(* analyze: the learnt clause                                               *)

\* The literals of the clause learnt, as a function of the analysis.
LearntOf(a) ==
  LET n == Len(a.learnt)
      swapped == [i \in 1 .. n |->
                    IF i = 1 THEN a.learnt[a.highest]
                    ELSE IF i = a.highest THEN a.learnt[1] ELSE a.learnt[i]]
  IN Append(swapped, PoppedLit(a))

\* They are those of the analysis and the asserting literal, which is the last one.
LEMMA LearntLits ==
  ASSUME NEW a \in Analysis, a.learnt # << >> => a.highest \in DOMAIN a.learnt
  PROVE  /\ LearntOf(a) \in Seq(Literal) /\ Len(LearntOf(a)) = Len(a.learnt) + 1 /\ Len(a.learnt) \in Nat
         /\ ToSet(LearntOf(a)) = ToSet(a.learnt) \cup {PoppedLit(a)}
         /\ LearntOf(a)[Len(a.learnt) + 1] = PoppedLit(a)
         /\ a.learnt # << >> => LearntOf(a)[1] \in ToSet(a.learnt)
<1> DEFINE q == a.learnt
           n == Len(q)
           h == a.highest
           w == [i \in 1 .. n |-> IF i = 1 THEN q[h] ELSE IF i = h THEN q[1] ELSE q[i]]
<1>1. q \in Seq(Literal) /\ n \in Nat /\ DOMAIN q = 1 .. n /\ PoppedLit(a) \in Literal
  <2>1. a.variable \in Variable /\ a.value \in BOOLEAN /\ q \in Seq(Literal)
    BY AnalysisParts
  <2>2. PoppedLit(a) \in Literal
    BY <2>1 DEF PoppedLit, Literal
  <2> QED BY <2>1, <2>2
<1>2. q # << >> => h \in 1 .. n /\ 1 \in 1 .. n
  BY <1>1
<1>3. \A i \in 1 .. n : w[i] \in Literal
  BY <1>1, <1>2
<1>4. LearntOf(a) = Append(w, PoppedLit(a))
  BY DEF LearntOf
<1>5. /\ \A i \in 1 .. n : \E j \in 1 .. n : w[i] = q[j]
      /\ \A j \in 1 .. n : \E i \in 1 .. n : q[j] = w[i]
  <2>1. ASSUME NEW i \in 1 .. n PROVE \E j \in 1 .. n : w[i] = q[j]
    BY <1>1, <1>2
  <2>2. ASSUME NEW j \in 1 .. n PROVE \E i \in 1 .. n : q[j] = w[i]
    <3>1. h \in 1 .. n /\ 1 \in 1 .. n
      BY <1>1, <1>2
    <3>2. CASE j = h
      BY <3>1, <3>2
    <3>3. CASE j = 1
      <4>1. w[h] = q[1]
        BY <3>1
      <4> QED BY <3>1, <3>3, <4>1
    <3>4. CASE j # h /\ j # 1
      BY <3>4
    <3> QED BY <3>2, <3>3, <3>4
  <2> QED BY <2>1, <2>2
<1>6. w \in Seq(Literal) /\ Len(w) = n
  <2>1. DOMAIN w = 1 .. n /\ w = [i \in 1 .. n |-> w[i]]
    OBVIOUS
  <2> HIDE DEF w
  <2> QED BY <1>1, <1>3, <2>1, MapSequence
<1> HIDE DEF w, q
<1>7. ToSet(w) = ToSet(q)
  <2>1. ToSet(w) = {w[i] : i \in 1 .. n} /\ ToSet(q) = {q[i] : i \in 1 .. n}
    BY <1>1, <1>6 DEF ToSet
  <2> QED BY <1>5, <2>1
<1>8. /\ Append(w, PoppedLit(a)) \in Seq(Literal) /\ Len(Append(w, PoppedLit(a))) = n + 1
      /\ \A i \in 1 .. n : Append(w, PoppedLit(a))[i] = w[i]
      /\ Append(w, PoppedLit(a))[n + 1] = PoppedLit(a)
      /\ ToSet(Append(w, PoppedLit(a))) = ToSet(w) \cup {PoppedLit(a)}
  BY <1>1, <1>6, AppendSet
<1>9. q # << >> => w[1] \in ToSet(w) /\ 1 \in 1 .. n
  BY <1>1, <1>2, <1>6, ToSetType
<1> QED BY <1>1, <1>4, <1>7, <1>8, <1>9 DEF q

\* The last element of a sequence is replaced.
LEMMA ReplaceLast ==
  ASSUME NEW T, NEW q \in Seq(T), NEW x, NEW y
  PROVE  [Append(q, x) EXCEPT ![Len(q) + 1] = y] = Append(q, y)
<1> DEFINE U == T \cup {x, y}
           f == Append(q, x)
           g == Append(q, y)
<1>1. q \in Seq(U) /\ x \in U /\ y \in U /\ Len(q) \in Nat
  OBVIOUS
<1> HIDE DEF U
<1>2. /\ f \in Seq(U) /\ g \in Seq(U)
      /\ DOMAIN f = 1 .. Len(q) + 1 /\ DOMAIN g = 1 .. Len(q) + 1
      /\ \A i \in 1 .. Len(q) : f[i] = g[i]
      /\ g[Len(q) + 1] = y
  BY <1>1
<1> HIDE DEF f, g
<1>3. g = [i \in 1 .. Len(q) + 1 |-> g[i]]
  BY <1>2
<1>4. [f EXCEPT ![Len(q) + 1] = y] = [i \in 1 .. Len(q) + 1 |-> IF i = Len(q) + 1 THEN y ELSE f[i]]
  BY <1>2
<1>5. \A i \in 1 .. Len(q) + 1 : g[i] = IF i = Len(q) + 1 THEN y ELSE f[i]
  BY <1>1, <1>2
<1> QED BY <1>3, <1>4, <1>5 DEF f, g

\* The state with the learnt clause, and after going back.
Noted(s, a) ==
  LET lits == LearntOf(a)
      watched == IF Len(lits) = 1 THEN << >> ELSE <<lits[1], lits[Len(lits)]>>
      added == AddClause(s, "Learnt", lits, watched)
  IN [added EXCEPT !.clauses[NewClause(s)].why = a.why,
                   !.learnt_clause_ids = Append(@, NewClause(s))]
BackTo(a) == IF a.back_track_to > 1 THEN a.back_track_to ELSE 1
AfterLearn(s, a) ==
  Assign(UndoTo(Noted(s, a), BackTo(a)), Satisfy(PoppedLit(a), NewClause(s)), BackTo(a))

\* The clause is learnt.
LEMMA NotedGood ==
  ASSUME NEW s, NEW lv \in Nat \ {0}, Good(s, lv, "any"), NEW a, Learning(s, a, lv)
  PROVE  LET t == Noted(s, a)
             id == NewClause(s)
         IN /\ Good(t, lv, "any") /\ SameClauses(s.clauses, t.clauses)
            /\ id \in DOMAIN t.clauses /\ t.clauses[id].lits = LearntOf(a)
            /\ t.decision_tracker = s.decision_tracker /\ t.panicked = s.panicked
            /\ t.negative_assertions = s.negative_assertions
            /\ t.learnt_clause_ids = Append(s.learnt_clause_ids, id)
<1> DEFINE K == s.clauses
           id == NewClause(s)
           lits == LearntOf(a)
           watched == IF Len(lits) = 1 THEN << >> ELSE <<lits[1], lits[Len(lits)]>>
           next == NextWatches(s.watches, id, watched)
           x0 == Clause("Learnt", lits, watched, next)
           x == [x0 EXCEPT !.why = a.why]
           t0 == [s EXCEPT !.clauses = Append(K, x), !.watches = WatchHeads(s.watches, id, watched)]
           t == Noted(s, a)
<1>1. /\ a \in Analysis /\ LearntFalse(Map(s), a, lv) /\ a.variable \notin LearntVars(a)
      /\ Entail(K, a.why, ToSet(a.learnt) \cup {PoppedLit(a)})
  BY DEF Learning
<1>2. /\ lits \in Seq(Literal) /\ Len(lits) = Len(a.learnt) + 1 /\ Len(a.learnt) \in Nat
      /\ ToSet(lits) = ToSet(a.learnt) \cup {PoppedLit(a)}
      /\ lits[Len(a.learnt) + 1] = PoppedLit(a)
      /\ a.learnt # << >> => lits[1] \in ToSet(a.learnt)
  BY <1>1, LearntLits DEF LearntFalse
<1>3. /\ Shape(s) /\ K \in Seq(ClauseType) /\ Len(K) \in Nat /\ id = Len(K) + 1
  BY GoodTracks DEF NewClause
<1> HIDE DEF lits
<1>4. Len(lits) # 1 => a.learnt # << >> /\ lits[1] \in ToSet(lits) /\ lits[Len(lits)] \in ToSet(lits)
                       /\ lits[1] # lits[Len(lits)]
  <2> SUFFICES ASSUME Len(lits) # 1
               PROVE  a.learnt # << >> /\ lits[1] \in ToSet(lits) /\ lits[Len(lits)] \in ToSet(lits)
                      /\ lits[1] # lits[Len(lits)]
    OBVIOUS
  <2>1. a.learnt # << >>
    BY <1>2
  <2>2. lits[1] \in ToSet(a.learnt) /\ lits[Len(lits)] = PoppedLit(a)
    BY <1>2, <2>1
  <2>3. lits[1].variable \in LearntVars(a)
    BY <2>2 DEF LearntVars, ToSet
  <2>4. PoppedLit(a).variable = a.variable
    BY DEF PoppedLit
  <2> QED BY <1>1, <1>2, <2>1, <2>2, <2>3, <2>4
<1>5. watched \in Seq(Literal) /\ (watched # << >> => Len(watched) = 2)
  <2>1. CASE Len(lits) = 1
    BY <2>1, ShortSequences
  <2>2. CASE Len(lits) # 1
    <3>1. lits[1] \in Literal /\ lits[Len(lits)] \in Literal
      BY <1>2, <1>4, <2>2, ToSetType
    <3> QED BY <2>2, <3>1
  <2> QED BY <2>1, <2>2
<1>6. watched # << >> => /\ watched[1] \in ToSet(lits) /\ watched[2] \in ToSet(lits) /\ watched[1] # watched[2]
  BY <1>4
<1> HIDE DEF watched
<1>7. /\ x0 \in ClauseType /\ x0.kind = "Learnt" /\ x0.lits = lits /\ x0.watched = watched
      /\ x0.next_watches = next /\ (watched # << >> => Len(x0.next_watches) = 2)
  <2>1. "Learnt" \in ClauseKind
    BY DEF ClauseKind
  <2> QED BY <1>2, <1>5, <2>1, ClauseFields
<1> HIDE DEF x0, next
<1>8. /\ x \in ClauseType /\ x.kind = "Learnt" /\ x.lits = lits /\ x.watched = watched
      /\ x.next_watches = next /\ x.why = a.why
  <2>1. a.why \in Seq(Nat)
    BY <1>1, AnalysisParts
  <2> QED BY <1>7, <2>1 DEF ClauseType
<1>9. WellBuilt(x)
  BY <1>5, <1>6, <1>7, <1>8 DEF WellBuilt
<1> HIDE DEF x
<1>10. /\ id \in DOMAIN Append(K, x) /\ Append(K, x)[id] = x
       /\ \A c \in DOMAIN K : c \in DOMAIN Append(K, x) /\ Append(K, x)[c] = K[c]
  BY <1>3, <1>8
<1>11. Derived(Append(K, x), Len(K) + 1)
  <2> DEFINE L == Append(K, x)
  <2>1. \A w \in ToSet(a.why) : w \in DOMAIN K /\ w \in 1 .. (Len(K) + 1) - 1 /\ K[w].lits # << >>
    <3>1. \A w \in ToSet(a.why) : w \in DOMAIN K /\ K[w].lits # << >>
      BY <1>1 DEF Entail
    <3>2. DOMAIN K = 1 .. Len(K) /\ Len(K) \in Nat
      BY <1>3
    <3> QED BY <3>1, <3>2
  <2>2. ASSUME NEW A, \A w \in ToSet(a.why) : Sat(A, L[w].lits) PROVE Sat(A, lits)
    <3>1. \A w \in ToSet(a.why) : Sat(A, K[w].lits)
      BY <1>10, <2>1, <2>2
    <3>2. \E l \in ToSet(a.learnt) \cup {PoppedLit(a)} : (l.variable \in A) # l.negate
      BY <1>1, <3>1 DEF Entail
    <3> QED BY <1>2, <3>2 DEF Sat
  <2>3. L[Len(K) + 1] = x /\ \A c \in DOMAIN K : c \in DOMAIN L /\ L[c] = K[c]
    BY <1>3, <1>10
  <2> HIDE DEF L
  <2>4. Derived(L, Len(K) + 1)
    BY <1>8, <2>1, <2>2, <2>3 DEF Derived
  <2> QED BY <2>4 DEF L
<1>12. /\ Shape(t0) /\ SameLists(s, t0) /\ SameQueues(s, t0) /\ t0.decision_tracker = s.decision_tracker
       /\ t0.clauses = Append(K, x) /\ t0.watches = WatchHeads(s.watches, id, watched)
       /\ t0.panicked = s.panicked
  BY <1>3 DEF Shape, SameLists, SameQueues
<1>13. t = [t0 EXCEPT !.learnt_clause_ids = Append(s.learnt_clause_ids, id)]
  <2>1. t = [[s EXCEPT !.clauses = Append(K, x0), !.watches = WatchHeads(s.watches, id, watched)]
               EXCEPT !.clauses[id].why = a.why, !.learnt_clause_ids = Append(@, id)]
    BY DEF Noted, AddClause, lits, watched, x0, next
  <2>2. [Append(K, x0) EXCEPT ![id].why = a.why] = [Append(K, x0) EXCEPT ![id] = x]
    <3>1. Append(K, x0)[id] = x0
      BY <1>3, <1>7
    <3> QED BY <3>1 DEF x
  <2>3. [Append(K, x0) EXCEPT ![id].why = a.why] = Append(K, x)
    <3>1. K \in Seq(ClauseType) /\ id = Len(K) + 1
      BY <1>3
    <3>2. [Append(K, x0) EXCEPT ![Len(K) + 1] = x] = Append(K, x)
      BY <3>1, ReplaceLast
    <3> QED BY <2>2, <3>1, <3>2
  <2> HIDE DEF t, id
  <2> QED BY <1>3, <2>1, <2>3 DEF Shape
<1> HIDE DEF t, t0
<1>14. Core(t0, lv) /\ SameClauses(K, t0.clauses)
  <2>1. Core(s, lv)
    BY DEF Good
  <2>2. /\ x.next_watches = NextWatches(s.watches, Len(K) + 1, x.watched)
        /\ t0.watches = WatchHeads(s.watches, Len(K) + 1, x.watched)
    BY <1>3, <1>8, <1>12 DEF next
  <2> HIDE DEF id
  <2> QED BY <1>8, <1>9, <1>11, <1>12, <2>1, <2>2, CoreAdd
<1>15. /\ Shape(t) /\ t.decision_tracker = s.decision_tracker /\ t.clauses = t0.clauses
       /\ t.watches = t0.watches /\ SameQueues(t0, t) /\ t.panicked = s.panicked
       /\ t.negative_assertions = s.negative_assertions
       /\ t.learnt_clause_ids = Append(s.learnt_clause_ids, id)
       /\ t.gate_requirers = t0.gate_requirers /\ t.conflicting_clauses = t0.conflicting_clauses
  BY <1>12, <1>13 DEF Shape, SameLists, SameQueues
<1>16. LearntOK(t.learnt_clause_ids, t.clauses)
  <2> DEFINE q == s.learnt_clause_ids
  <2>1. q \in Seq(Nat) /\ LearntOK(q, t0.clauses)
    BY <1>12, <1>14 DEF Core, ListsOK, LearntOK, SameLists
  <2>2. id \in Nat /\ lits # << >>
    BY <1>2, <1>3
  <2> HIDE DEF q, id
  <2>3. /\ Append(q, id) \in Seq(Nat) /\ DOMAIN Append(q, id) = 1 .. Len(q) + 1
        /\ \A i \in 1 .. Len(q) : Append(q, id)[i] = q[i] /\ i \in DOMAIN q
        /\ Append(q, id)[Len(q) + 1] = id /\ Len(q) \in Nat
    BY <2>1, <2>2
  <2>4. ASSUME NEW i \in DOMAIN Append(q, id)
        PROVE  LET e == Append(q, id)[i] IN
               e \in DOMAIN t0.clauses /\ t0.clauses[e].kind = "Learnt" /\ t0.clauses[e].lits # << >>
    <3>1. CASE i \in 1 .. Len(q)
      BY <2>1, <2>3, <3>1 DEF LearntOK
    <3>2. CASE i = Len(q) + 1
      BY <1>8, <1>10, <1>12, <2>2, <2>3, <3>2 DEF id
    <3> QED BY <2>3, <3>1, <3>2
  <2> QED BY <1>15, <2>3, <2>4 DEF LearntOK, q, id
<1>17. Core(t, lv)
  <2>1. ListsOK(t)
    BY <1>12, <1>14, <1>15, <1>16 DEF Core, ListsOK, SameLists
  <2> QED BY <1>12, <1>14, <1>15, <2>1 DEF Core
<1>18. Queues(t)
  BY <1>12, <1>15 DEF Good, Queues, SameQueues
<1> QED BY <1>8, <1>10, <1>12, <1>14, <1>15, <1>17, <1>18 DEF Good, t, lits

\* The solver goes back and assigns the asserting literal: only that is to be
\* propagated, at the level gone back to.
LEMMA LearnGood ==
  ASSUME NEW s, NEW lv \in Nat, lv > 1, Good(s, lv, "any"), Recent(s, lv), NEW a, Learning(s, a, lv)
  PROVE  LET t == AfterLearn(s, a)
             k == BackTo(a)
         IN /\ k \in Nat \ {0} /\ Good(t, k, "any") /\ t.panicked = s.panicked
            /\ Pending(t.decision_tracker, k) /\ Recent(t, k)
<1> DEFINE k == BackTo(a)
           id == NewClause(s)
           l == PoppedLit(a)
           u == Noted(s, a)
           w == UndoTo(u, k)
           t == AfterLearn(s, a)
           x == s.decision_tracker
           y == w.decision_tracker
           z == t.decision_tracker
<1>1. /\ a \in Analysis /\ LearntFalse(Map(s), a, lv) /\ a.variable \notin LearntVars(a)
      /\ IsUndecided(Map(s), a.variable) /\ ~HasUnpropagated(x)
  BY DEF Learning
<1>2. k \in Nat \ {0} /\ k < lv /\ a.back_track_to <= k
  BY <1>1, AnalysisParts DEF LearntFalse, BackTo
<1> HIDE DEF k
<1>3. /\ Good(u, lv, "any") /\ SameClauses(s.clauses, u.clauses)
      /\ id \in DOMAIN u.clauses /\ u.clauses[id].lits = LearntOf(a)
      /\ u.decision_tracker = x /\ u.panicked = s.panicked
      /\ u.negative_assertions = s.negative_assertions
      /\ u.learnt_clause_ids = Append(s.learnt_clause_ids, id)
  BY <1>2, NotedGood
<1> HIDE DEF u
<1>4. /\ Good(w, k, "any") /\ y = UndoUntil(x, k) /\ w.clauses = u.clauses /\ w.panicked = u.panicked
      /\ w.negative_assertions = u.negative_assertions /\ w.learnt_clause_ids = u.learnt_clause_ids
  <2>1. Shape(u)
    BY <1>3, GoodTracks
  <2>2. w.negative_assertions = u.negative_assertions /\ w.learnt_clause_ids = u.learnt_clause_ids
    BY <2>1 DEF UndoTo, Shape
  <2> HIDE DEF w
  <2>3. lv \in Nat \ {0} /\ k \in Nat
    BY <1>2
  <2> QED BY <1>3, <2>2, <2>3, UndoGood DEF w
<1> HIDE DEF w
<1>5. x \in Tracker /\ Consistent(x) /\ x.map \in [Variable -> Int] /\ Map(s) = x.map
  BY GoodTracks, TrailEntries DEF Map
<1>6. /\ y \in Tracker /\ (y = x \/ y.propagate_index = Len(y.stack))
      /\ \A v \in Variable : y.map[v] \in {0, x.map[v]}
      /\ \A v \in Variable : LevelOf(x.map, v) <= k => y.map[v] = x.map[v]
      /\ \A v \in Variable : LevelOf(y.map, v) <= k
  <2> HIDE DEF y
  <2>1. k \in Nat
    BY <1>2
  <2> QED BY <1>4, <1>5, <2>1, UndoTrail
<1>7. y.map \in [Variable -> Int] /\ Len(y.stack) \in Nat
  BY <1>6, TrailEntries
<1> HIDE DEF y
<1>8. l \in Literal /\ l.variable = a.variable /\ IsUndecided(y.map, a.variable) /\ a.variable \in Variable
  <2>1. a.variable \in Variable /\ a.value \in BOOLEAN
    BY <1>1, AnalysisParts
  <2>2. l \in Literal /\ l.variable = a.variable
    BY <2>1 DEF PoppedLit, Literal
  <2> QED BY <1>1, <1>5, <1>6, <2>1, <2>2 DEF IsUndecided
<1>9. /\ LearntOf(a) \in Seq(Literal) /\ Len(LearntOf(a)) = Len(a.learnt) + 1 /\ Len(a.learnt) \in Nat
      /\ ToSet(LearntOf(a)) = ToSet(a.learnt) \cup {l}
      /\ LearntOf(a)[Len(a.learnt) + 1] = l
  BY <1>1, LearntLits DEF LearntFalse
<1> HIDE DEF l
<1>10. \A m \in ToSet(LearntOf(a)) : m = l \/ LitFalse(y.map, m)
  <2> SUFFICES ASSUME NEW i \in DOMAIN a.learnt PROVE LitFalse(y.map, a.learnt[i])
    BY <1>9 DEF ToSet
  <2>1. LitFalse(x.map, a.learnt[i]) /\ LevelOf(x.map, a.learnt[i].variable) <= a.back_track_to
    BY <1>1, <1>5 DEF LearntFalse
  <2>2. a.learnt[i] \in Literal /\ a.back_track_to \in Nat
    BY <1>1, AnalysisParts
  <2>3. a.learnt[i].variable \in Variable /\ LevelOf(x.map, a.learnt[i].variable) \in Nat
    BY <1>5, <2>2, LiteralParts, TrailEntries
  <2>4. LevelOf(x.map, a.learnt[i].variable) <= k
    BY <1>2, <2>1, <2>2, <2>3
  <2>5. y.map[a.learnt[i].variable] = x.map[a.learnt[i].variable]
    BY <1>6, <2>3, <2>4
  <2> QED BY <2>1, <2>5 DEF LitFalse, IsTrue, IsFalse
<1>11. t = Assign(w, Satisfy(l, id), k)
  BY DEF AfterLearn, k, id, l, u, w
<1>12. id \in Nat /\ Satisfy(l, id) \in Decision /\ Satisfy(l, id).variable = a.variable
  <2>1. u.clauses \in Seq(ClauseType)
    BY <1>3, GoodTracks
  <2>2. id \in Nat
    BY <1>3, <2>1
  <2> HIDE DEF id
  <2> QED BY <1>8, <2>2, Satisfying
<1> HIDE DEF id
<1>13. Good(t, k, "any") /\ t.clauses = u.clauses /\ SameLists(w, t)
  <2>1. \A m \in ToSet(w.clauses[id].lits) : m = l \/ LitFalse(Map(w), m)
    BY <1>3, <1>4, <1>10 DEF Map, y
  <2>2. l \in ToSet(w.clauses[id].lits)
    BY <1>3, <1>4, <1>9
  <2> HIDE DEF t
  <2> QED BY <1>2, <1>3, <1>4, <1>8, <1>11, <2>1, <2>2, AssignGood
<1>14. /\ t.panicked = s.panicked
       /\ z = TryAddDecision(y, Satisfy(l, id), k)
  <2>1. TryAddResult(y, Satisfy(l, id)) # "conflict"
    BY <1>8, <1>12 DEF TryAddResult
  <2>2. t = [w EXCEPT !.decision_tracker = TryAddDecision(y, Satisfy(l, id), k)]
    BY <1>11, <2>1 DEF Assign, y
  <2>3. Shape(w)
    BY <1>4, GoodTracks
  <2> HIDE DEF t
  <2> QED BY <1>3, <1>4, <2>2, <2>3 DEF Shape
<1> HIDE DEF t, z
<1>15. Extends(y.map, z.map, k) /\ (Pending(y, k) => Pending(z, k))
  BY <1>2, <1>6, <1>12, <1>14, AssignExtends
<1>16. Pending(y, k)
  <2>1. y.propagate_index >= Len(y.stack)
    <3>1. y.propagate_index \in Nat
      BY <1>6, TrailEntries
    <3> QED BY <1>1, <1>6, <1>7, <3>1 DEF HasUnpropagated
  <2>2. y.propagate_index \in Nat
    BY <1>6, TrailEntries
  <2> QED BY <1>7, <2>1, <2>2 DEF Pending
<1>17. \A v \in Variable : LevelOf(x.map, v) = lv => IsUndecided(y.map, v)
  <2> SUFFICES ASSUME NEW v \in Variable, LevelOf(x.map, v) = lv, y.map[v] # 0 PROVE FALSE
    BY DEF IsUndecided
  <2>1. y.map[v] = x.map[v] /\ LevelOf(y.map, v) <= k
    BY <1>6
  <2>2. LevelOf(y.map, v) = lv
    BY <2>1 DEF LevelOf
  <2> QED BY <1>2, <2>1, <2>2
<1>18. Sound(s) /\ ListsOK(s) /\ Sound(w) /\ ListsOK(w)
  BY <1>4, GoodSound DEF Good, Core
<1>19. Recent(w, k)
  <2>1. ASSUME NEW i \in DOMAIN w.negative_assertions, IsTrue(y.map, w.negative_assertions[i][1])
        PROVE  FALSE
    <3> DEFINE v == s.negative_assertions[i][1]
    <3>1. v \in Variable /\ i \in DOMAIN s.negative_assertions /\ IsTrue(y.map, v)
      BY <1>3, <1>4, <1>18, <2>1, AssertionsTyped
    <3> HIDE DEF v
    <3>2. IsTrue(x.map, v)
      BY <1>6, <3>1 DEF IsTrue
    <3>3. LevelOf(x.map, v) = lv
      BY <1>5, <3>1, <3>2 DEF Recent, LevelIs, v
    <3> QED BY <1>17, <3>1, <3>3 DEF IsTrue, IsUndecided
  <2>2. ASSUME NEW i \in DOMAIN w.learnt_clause_ids, Len(w.clauses[w.learnt_clause_ids[i]].lits) = 1,
               LitFalse(y.map, w.clauses[w.learnt_clause_ids[i]].lits[1])
        PROVE  FALSE
    <3> DEFINE q == s.learnt_clause_ids
    <3>1. w.learnt_clause_ids = Append(q, id) /\ w.clauses = u.clauses
      BY <1>3, <1>4
    <3>2. q \in Seq(Nat) /\ LearntOK(q, s.clauses)
      BY <1>18 DEF ListsOK, LearntOK
    <3> HIDE DEF q
    <3>3. /\ DOMAIN Append(q, id) = 1 .. Len(q) + 1 /\ Len(q) \in Nat /\ DOMAIN q = 1 .. Len(q)
          /\ \A j \in 1 .. Len(q) : Append(q, id)[j] = q[j]
          /\ Append(q, id)[Len(q) + 1] = id
      BY <1>12, <3>2
    <3>4. CASE i \in DOMAIN q
      <4> DEFINE c == q[i]
                 m == s.clauses[c].lits[1]
      <4>1. w.learnt_clause_ids[i] = c /\ c \in DOMAIN s.clauses
        BY <3>1, <3>2, <3>3, <3>4 DEF LearntOK
      <4>2. u.clauses[c].lits = s.clauses[c].lits
        BY <1>3, <4>1 DEF SameClauses
      <4>3. m \in Literal
        BY <1>18, <3>4, AssertionsTyped DEF q
      <4> HIDE DEF m
      <4>4. LitFalse(y.map, m) /\ Len(s.clauses[c].lits) = 1
        BY <2>2, <3>1, <4>1, <4>2 DEF m
      <4>5. m.variable \in Variable
        BY <4>3, LiteralParts
      <4>6. LitFalse(x.map, m) /\ ~IsUndecided(y.map, m.variable)
        BY <1>6, <4>4, <4>5 DEF LitFalse, IsTrue, IsFalse, IsUndecided
      <4>7. LevelOf(x.map, m.variable) = lv
        BY <1>5, <3>4, <4>4, <4>6 DEF Recent, LevelIs, m, q
      <4> QED BY <1>17, <4>5, <4>6, <4>7
    <3>5. CASE i = Len(q) + 1
      <4>1. w.clauses[w.learnt_clause_ids[i]].lits = LearntOf(a)
        BY <1>3, <3>1, <3>3, <3>5
      <4>2. LearntOf(a)[1] = l
        BY <1>9, <2>2, <4>1
      <4> QED BY <1>8, <2>2, <4>1, <4>2 DEF LitFalse, IsTrue, IsFalse, IsUndecided
    <3> QED BY <3>1, <3>3, <3>4, <3>5
  <2>3. Map(w) = y.map
    BY DEF Map, y
  <2> QED BY <2>1, <2>2, <2>3 DEF Recent
<1>20. Recent(t, k)
  <2>1. SameClauses(w.clauses, t.clauses)
    BY <1>4, <1>13 DEF SameClauses
  <2>2. Extends(Map(w), Map(t), k)
    BY <1>15 DEF Map, y, z
  <2> QED BY <1>2, <1>13, <1>18, <1>19, <2>1, <2>2, SettledKept DEF SameLists
<1> QED BY <1>2, <1>13, <1>14, <1>15, <1>16, <1>20 DEF t, z, k

----------------------------------------------------------------------------
(* Every step keeps the invariant: run_sat, the encoder and what becomes of *)
(* a conflict                                                               *)

\* What the invariant says before a panic.
LEMMA BeforePanic ==
  ASSUME SolverInv, ~Panicked
  PROVE  Typed /\ Sound(st) /\ Levels /\ Propagated /\ UpToDate /\ Analyzed /\ ~st.panicked /\ ~an.panicked
  BY DEF SolverInv, Panicked

\* The places outside propagation and analysis, of which only the level is known.
Quiet == {"run_sat", "loop", "encode", "expand", "unsolvable", "returned", "done"}

\* There the invariant asks for a good state only.
LEMMA Elsewhere ==
  ASSUME Typed', pc' \in Quiet,
         pc' = "done" => Sound(st)',
         pc' \in {"run_sat", "returned"} => \E k : Good(st, k, "any")',
         pc' \in {"loop", "encode", "expand", "unsolvable"} => Good(st, level, "any")',
         pc' = "loop" => level' = starting_level' \/ level' # 0,
         pc' \in {"encode", "expand", "unsolvable"} => level' # 0
  PROVE  SolverInv'
<1>1. pc' \in {"run_sat", "returned"} => Good(st, TopLevel(dt), "any")'
  BY GoodAtTop DEF dt
<1>2. Levels'
  BY <1>1 DEF Levels, Working, Propagation, Quiet
<1>3. Sound(st)'
  BY GoodSound DEF Quiet
<1>4. Propagated' /\ UpToDate' /\ Analyzed'
  BY DEF Propagated, UpToDate, Analyzed, Propagation, Quiet
<1> QED BY <1>2, <1>3, <1>4 DEF SolverInv

\* Propagation starts.
LEMMA Propagates ==
  ASSUME Typed', pc' = "assertions", pos' = 1, Good(st, level, "any")', level' # 0,
         caller' = "learn" => Pending(dt, level)' /\ Recent(st, level)'
  PROVE  SolverInv'
<1>1. Levels'
  BY DEF Levels, Working, Propagation
<1>2. Sound(st)'
  BY GoodSound
<1>3. Asserted(st, pos - 1)'
  <2>1. (ListsOK(st) /\ Sound(st))'
    BY <1>2 DEF Good, Core
  <2>2. DOMAIN st.negative_assertions' \subseteq Nat \ {0}
    BY <2>1 DEF ListsOK, AssertionsOK
  <2> QED BY <2>2 DEF Asserted
<1>4. Propagated' /\ UpToDate' /\ Analyzed'
  BY <1>3 DEF Propagated, UpToDate, Analyzed, Propagation
<1> QED BY <1>1, <1>2, <1>4 DEF SolverInv

\* run_sat starts at the level of the trail.
LEMMA RunSatStep ==
  ASSUME SolverInv, RunSat PROVE SolverInv'
<1>1. Typed /\ Sound(st) /\ Levels
  BY BeforePanic DEF RunSat, At
<1>2. Good(st, TopLevel(dt), "any") /\ TopLevel(dt) \in Nat
  <2>1. st.decision_tracker \in Tracker
    BY <1>1 DEF Sound
  <2> QED BY <1>1, <2>1, TrailEntries DEF Levels, RunSat, At, dt
<1>3. Typed'
  BY <1>1, <1>2 DEF Typed, RunSat
<1> QED BY <1>2, <1>3, Elsewhere DEF RunSat, Quiet

\* The variable of the root or of a soft requirement, assigned because of the
\* install-root clause.
LEMMA RootDecision ==
  ASSUME NEW x \in Asker
  PROVE  /\ Satisfy(Pos(VarOf(x)), InstallRootClause) \in Decision
         /\ Satisfy(Neg(VarOf(x)), InstallRootClause) \in Decision
<1>1. VarOf(x) \in Variable
  BY Variables
<1> QED BY <1>1, LiteralParts, Satisfying DEF InstallRootClause

\* The root or a soft requirement opens a level.
LEMMA InstallGood ==
  ASSUME SolverInv, RootFirst, InstallRootSolvable
  PROVE  /\ Good(st', level', IF starting_level = 0 THEN "root" ELSE "any")
         /\ level' = starting_level + 1
<1> DEFINE d == Satisfy(Pos(VarOf(root_solvable)), InstallRootClause)
           fresh == NewEncoder(st)
           s == Assign(fresh, d, starting_level + 1)
           ph == IF starting_level = 0 THEN "root" ELSE "any"
<1>1. Typed /\ Levels /\ pc = "loop" /\ level = starting_level
  BY BeforePanic DEF InstallRootSolvable, At
<1>2. Good(fresh, level, ph) /\ level \in Nat /\ root_solvable \in Asker /\ d \in Decision
  BY <1>1, RootDecision, NewEncoderGood DEF Levels, Typed
<1>0. /\ level = 0 => IsRoot(d)
      /\ ph = "root" => d.variable = RootVar
  <2>1. level = 0 => root_solvable = Root
    BY <1>1 DEF RootFirst, InstallRootSolvable, At
  <2> QED BY <1>1, <2>1 DEF IsRoot, Satisfy, Pos, VarOf
<1> HIDE DEF d, ph
<1>3. Good(s, level + 1, ph)
  <2> DEFINE lv == level + 1
  <2>1. lv \in Nat \ {0} /\ level \in {lv - 1, lv} /\ lv # level /\ s = Assign(fresh, d, lv)
    BY <1>1, <1>2
  <2> HIDE DEF lv, s, fresh
  <2>2. Good(s, lv, ph)
    BY <1>0, <1>2, <2>1, GoodAssign
  <2> QED BY <2>2 DEF lv
<1> HIDE DEF s
<1>4. Good(QueueSolvable(s, root_solvable), level + 1, ph)
  BY <1>2, <1>3, QueueSolvableGood
<1>5. st' = QueueSolvable(s, root_solvable) /\ level' = level + 1
  BY <1>1 DEF InstallRootSolvable, s, d, fresh
<1> QED BY <1>1, <1>4, <1>5 DEF ph
LEMMA InstallStep ==
  ASSUME SolverInv, RootFirst, InstallRootSolvable PROVE SolverInv'
<1>1. Typed /\ pc' = "encode"
  BY BeforePanic DEF InstallRootSolvable, At
<1>2. starting_level \in Nat /\ level' = starting_level + 1 /\ Good(st', level', "any")
  <2>1. Good(st', level', IF starting_level = 0 THEN "root" ELSE "any") /\ level' = starting_level + 1
    BY InstallGood
  <2> QED BY <1>1, <2>1 DEF Good, Typed
<1>3. Typed'
  BY <1>1, <1>2 DEF Typed, InstallRootSolvable, run, Working
<1> QED BY <1>1, <1>2, <1>3, Elsewhere DEF Quiet

\* The loop starts propagation over.
LEMMA ContinueStep ==
  ASSUME SolverInv, ContinueLoop PROVE SolverInv'
<1>1. Typed /\ Levels /\ pc = "loop" /\ level # starting_level
  BY BeforePanic DEF ContinueLoop, At
<1>2. Typed'
  BY <1>1 DEF Typed, ContinueLoop, StartPropagate, run, Working, Propagation
<1> QED BY <1>1, <1>2, Propagates DEF Levels, ContinueLoop, StartPropagate

\* A request is answered and encoded.
LEMMA EncodeTaskGood ==
  ASSUME NEW ph, Good(st, level, ph), level \in Nat \ {0}, prob \in Problem, EncodeTask
  PROVE  Good(st', level, ph)
<1>3. PICK i \in DOMAIN st.tasks :
        st' = Handle(prob, [st EXCEPT !.tasks = RemoveAt(@, i), !.cached = @ \cup Needs(st.tasks[i])],
                     st.tasks[i], level)
  BY DEF EncodeTask
<1>4. Good(st', level, ph)
  <2> DEFINE s == [st EXCEPT !.tasks = RemoveAt(@, i), !.cached = @ \cup Needs(st.tasks[i])]
  <2>1. st.tasks[i] \in TaskType /\ Good(s, level, ph)
    BY TakeTaskGood
  <2> HIDE DEF s
  <2>2. Good(Handle(prob, s, st.tasks[i], level), level, ph)
    BY <2>1, HandleGood
  <2> QED BY <1>3, <2>2 DEF s
<1> QED BY <1>4
LEMMA EncodeStep ==
  ASSUME SolverInv, EncodeTask PROVE SolverInv'
<1>1. Typed /\ Levels /\ pc = "encode"
  BY BeforePanic DEF EncodeTask, At
<1>2. Good(st, level, "any") /\ level \in Nat /\ level # 0 /\ prob \in Problem
  BY <1>1 DEF Levels, Typed, Working
<1>4. Good(st', level, "any")
  BY <1>2, EncodeTaskGood
<1>5. Typed'
  BY <1>1 DEF Typed, EncodeTask, run
<1> QED BY <1>1, <1>2, <1>4, <1>5, Elsewhere DEF EncodeTask, Quiet

\* The last clauses of the encoder.
LEMMA EncodedGood ==
  ASSUME NEW lv \in Nat \ {0}, lv = level, NEW ph, Good(st, lv, ph)
  PROVE  Good(Encoded, lv, ph)
<1> DEFINE s == AddPendingForbidClauses(st, lv)
<1>1. Good(s, lv, ph)
  BY PendingForbidGood
<1> HIDE DEF s
<1>2. Good(AddPendingAtLeastOneClauses(s, lv), lv, ph)
  BY <1>1, PendingAtLeastOneGood
<1>3. Encoded = AddPendingAtLeastOneClauses(s, lv)
  BY DEF Encoded, s
<1> QED BY <1>2, <1>3

\* The encoder returns conflicting clauses.
LEMMA EncodeConflictStep ==
  ASSUME SolverInv, EncodeReturnsConflict PROVE SolverInv'
<1>1. Typed /\ Levels /\ pc = "encode"
  BY BeforePanic DEF EncodeReturnsConflict, At
<1>2. Good(st, level, "any") /\ level \in Nat \ {0} /\ starting_level \in Nat
  BY <1>1 DEF Levels, Typed, Working
<1>3. Good(Encoded, level, "any")
  BY <1>2, EncodedGood
<1>4. CASE st' = Encoded /\ pc' = "unsolvable" /\ level' = level
  <2>1. Typed'
    BY <1>1, <1>4 DEF Typed, EncodeReturnsConflict, run, Working
  <2> QED BY <1>2, <1>3, <1>4, <2>1, Elsewhere DEF Quiet
<1>5. CASE st' = UndoTo(Encoded, starting_level) /\ pc' = "loop" /\ level' = starting_level
  <2>1. Good(st', starting_level, "any")
    BY <1>2, <1>3, <1>5, UndoGood
  <2>2. starting_level' = starting_level
    BY DEF EncodeReturnsConflict, run
  <2>3. Typed'
    BY <1>1, <1>2, <1>5 DEF Typed, EncodeReturnsConflict, run, Working
  <2> QED BY <1>5, <2>1, <2>2, <2>3, Elsewhere DEF Quiet
<1> QED BY <1>4, <1>5 DEF EncodeReturnsConflict

\* The encoder returns without any.
LEMMA EncodeReturnsStep ==
  ASSUME SolverInv, EncodeReturns PROVE SolverInv'
<1>1. Typed /\ Levels /\ pc = "encode"
  BY BeforePanic DEF EncodeReturns, At
<1>2. Good(st, level, "any") /\ level \in Nat \ {0}
  BY <1>1 DEF Levels, Typed, Working
<1>3. Good(st', level, "any")
  BY <1>2, EncodedGood DEF EncodeReturns
<1>4. level' = level /\ UNCHANGED <<prob, root_solvable, starting_level, soft, result>>
  BY DEF EncodeReturns, run
<1>5. CASE StartPropagate /\ caller' = "run_sat"
  <2>1. Typed'
    BY <1>1, <1>4, <1>5 DEF Typed, StartPropagate, Working, Propagation
  <2> QED BY <1>2, <1>3, <1>4, <1>5, <2>1, Propagates DEF StartPropagate
<1>6. CASE pc' = "loop" /\ UNCHANGED <<caller, pos, cursor>>
  <2>1. Typed'
    BY <1>1, <1>4, <1>6 DEF Typed, Working
  <2> QED BY <1>2, <1>3, <1>4, <1>6, <2>1, Elsewhere DEF Quiet
<1> QED BY <1>5, <1>6 DEF EncodeReturns

\* The stuck gates are forced in the loop of Forces.
LEMMA ForcedGood ==
  ASSUME Good(st, level, "any"), level \in Nat \ {0}
  PROVE  Good(ForceStuckGates, level, "any")
<1> DEFINE q == StuckGates
           S == {req \in ToSet(st.gates) : IsStuck(req)}
<1>1. st.gates \in Seq(Requirement)
  BY DEF Good, Queues
<1>2. q \in Seq(Requirement) /\ ToSet(q) = ToSet(st.gates) \cap S
  BY <1>1, KeepElements DEF StuckGates
<1> HIDE DEF q
<1>3. ASSUME NEW i \in DOMAIN q
      PROVE  \E j \in DOMAIN st.gate_requirers[q[i]] : IsTrue(Map(st), st.gate_requirers[q[i]][j][1])
  <2>1. q[i] \in ToSet(q)
    BY <1>2, <1>3, ToSetType
  <2>2. IsStuck(q[i])
    BY <1>2, <2>1
  <2> QED BY <2>2 DEF IsStuck, map
<1>4. Good(Forces!Loop(st, q, level, 0, Len(q)), level, "any")
  BY <1>2, <1>3, ForceGood
<1>5. ForceStuckGates = Forces!Loop(st, q, level, 0, Len(q))
  <2>1. DOMAIN q = 1 .. Len(q)
    BY <1>2
  <2> QED BY <2>1 DEF ForceStuckGates, FoldLeft, MapThenFoldSet, Forces!Loop, Forces!Fix, ForceDef, ForcedBy, q, map
<1> QED BY <1>4, <1>5

\* Stuck gates are forced, new solvables and requirements queued.
LEMMA ExpandGood ==
  ASSUME SolverInv, Expand PROVE Good(st', level, "any") /\ level' = level /\ level # 0
<1>1. Typed /\ Levels /\ Sound(st) /\ pc = "expand"
  BY BeforePanic DEF Expand, At
<1>2. Good(st, level, "any") /\ level \in Nat \ {0}
  BY <1>1 DEF Levels, Typed, Working
<1> DEFINE s == NewEncoder(DrainAll(ForceStuckGates))
           fired == DrainedEntries(st)
<1>3. Good(s, level, "any") /\ fired \in Seq(EntryType)
  <2>1. Good(DrainAll(ForceStuckGates), level, "any") /\ fired \in Seq(EntryType)
    BY <1>2, ForcedGood, DrainAllGood
  <2> HIDE DEF fired
  <2> QED BY <1>2, <2>1, NewEncoderGood
<1>4. NewSolvables \in Seq(Asker)
  BY <1>1, NewSolvablesTyped
<1> HIDE DEF s, fired
<1>5. Good(QueueAll(s, NewSolvables), level, "any")
  BY <1>3, <1>4, QueueAllGood
<1>6. Good(FoldLeft(QueueDeferredRequirement, QueueAll(s, NewSolvables), fired), level, "any")
  BY <1>3, <1>5, QueueDeferredGood
<1>7. Good(st', level, "any") /\ level' = level
  BY <1>6 DEF Expand, s, fired
<1> QED BY <1>2, <1>7
LEMMA ExpandStep ==
  ASSUME SolverInv, Expand PROVE SolverInv'
<1>1. Typed /\ pc' \in {"encode", "loop", "returned"}
  BY BeforePanic DEF Expand, At
<1>2. Good(st', level, "any") /\ level' = level /\ level # 0
  BY ExpandGood
<1>3. Typed'
  BY <1>1, <1>2 DEF Typed, Expand, run, Working
<1> QED BY <1>1, <1>2, <1>3, Elsewhere DEF Quiet

\* solve is cancelled.
LEMMA CancelStep ==
  ASSUME SolverInv, Cancel PROVE SolverInv'
<1>1. Typed /\ Sound(st)
  BY BeforePanic DEF Cancel, At
<1>2. result'.solution = {}
  BY DEF Cancel, NoResult
<1>3. Typed'
  BY <1>1, <1>2 DEF Typed, Cancel, run
<1> QED BY <1>1, <1>3, Elsewhere DEF Cancel, Quiet

\* solve returns unsolvable.
LEMMA UnsolvableStep ==
  ASSUME Typed, Sound(st), Shape(st), ReturnUnsolvable,
         UNCHANGED <<prob, level, starting_level, root_solvable, soft, pos>>
  PROVE  SolverInv'
<1>1. pc' = "done" /\ result'.solution = {}
  BY DEF ReturnUnsolvable, NoResult
<1>2. Sound(st')
  <2>1. PICK b : st' = [st EXCEPT !.panicked = b]
    BY DEF ReturnUnsolvable
  <2> QED BY <2>1 DEF Sound, Shape
<1>3. Typed'
  BY <1>1 DEF Typed
<1> QED BY <1>1, <1>2, <1>3, Elsewhere DEF Quiet

\* run_sat_process_unsolvable: the problem is unsolvable, or a soft requirement is
\* decided against on its own level.
LEMMA ProcessGood ==
  ASSUME SolverInv, ProcessUnsolvable, starting_level # 0
  PROVE  Good(st', starting_level + 1, "any") /\ starting_level \in Nat /\ pc' = "returned" /\ UNCHANGED result
<1>1. Typed /\ Levels /\ Sound(st) /\ pc = "unsolvable"
  BY BeforePanic DEF ProcessUnsolvable, At
<1>2. Good(st, level, "any") /\ level \in Nat \ {0} /\ starting_level \in Nat /\ root_solvable \in Asker
  BY <1>1 DEF Levels, Typed, Working
<1> DEFINE d == Satisfy(Neg(VarOf(root_solvable)), InstallRootClause)
           s == UndoTo(st, starting_level)
           lv == starting_level + 1
<1>3. st' = Assign(s, d, lv) /\ pc' = "returned" /\ UNCHANGED result
  BY DEF ProcessUnsolvable
<1>4. Good(s, starting_level, "any")
  BY <1>2, UndoGood
<1>5. d \in Decision
  BY <1>2, RootDecision
<1>6. /\ lv \in Nat \ {0} /\ starting_level \in {lv - 1, lv} /\ lv # starting_level
  BY <1>2
<1> HIDE DEF s, d, lv
<1>7. Good(Assign(s, d, lv), lv, "any")
  BY <1>4, <1>5, <1>6, GoodAssign
<1> QED BY <1>2, <1>3, <1>7 DEF lv
LEMMA ProcessStep ==
  ASSUME SolverInv, ProcessUnsolvable PROVE SolverInv'
<1>1. Typed /\ Levels /\ Sound(st) /\ pc = "unsolvable"
  BY BeforePanic DEF ProcessUnsolvable, At
<1>2. Good(st, level, "any") /\ level \in Nat \ {0} /\ starting_level \in Nat /\ root_solvable \in Asker
  BY <1>1 DEF Levels, Typed, Working
<1>3. CASE ReturnUnsolvable
  BY <1>1, <1>2, <1>3, GoodTracks, UnsolvableStep DEF ProcessUnsolvable, run
<1>4. CASE starting_level # 0
  <2>1. Good(st', starting_level + 1, "any") /\ pc' = "returned" /\ UNCHANGED result
    BY <1>4, ProcessGood
  <2>2. Typed'
    BY <1>1, <2>1 DEF Typed, ProcessUnsolvable, run, Working
  <2> QED BY <2>1, <2>2, Elsewhere DEF Quiet
<1> QED BY <1>3, <1>4 DEF ProcessUnsolvable

\* A conflict in propagation called by run_sat.
LEMMA RunSatConflictStep ==
  ASSUME SolverInv, RunSatConflict PROVE SolverInv'
<1>1. Typed /\ Levels /\ pc = "conflict"
  BY BeforePanic DEF RunSatConflict, At
<1>2. Good(st, level, "any") /\ level \in Nat \ {0} /\ starting_level \in Nat
  BY <1>1 DEF Levels, Typed, Working
<1>3. starting_level' = starting_level
  BY DEF RunSatConflict, run
<1>4. CASE pc' = "unsolvable" /\ UNCHANGED <<st, level>>
  <2>1. Typed'
    BY <1>1, <1>4 DEF Typed, RunSatConflict, run, Working
  <2> QED BY <1>2, <1>4, <2>1, Elsewhere DEF Quiet
<1>5. CASE st' = UndoTo(st, starting_level) /\ level' = starting_level /\ pc' = "loop"
  <2>1. Good(st', starting_level, "any")
    BY <1>2, <1>5, UndoGood
  <2>2. Typed'
    BY <1>1, <1>2, <1>5 DEF Typed, RunSatConflict, run, Working
  <2> QED BY <1>3, <1>5, <2>1, <2>2, Elsewhere DEF Quiet
<1> QED BY <1>4, <1>5 DEF RunSatConflict

\* Nothing is left to decide.
LEMMA NothingStep ==
  ASSUME SolverInv, NothingToDecide PROVE SolverInv'
<1>1. Typed /\ Levels /\ pc = "decide"
  BY BeforePanic DEF NothingToDecide, At
<1>2. Good(st, level, "any") /\ level \in Nat \ {0}
  BY <1>1 DEF Levels, Typed, Working
<1>3. Good(st', level, "any") /\ level' = level /\ pc' = "expand"
  BY <1>2, MarksGood DEF NothingToDecide, dt
<1>4. Typed'
  BY <1>1, <1>3 DEF Typed, NothingToDecide, run, Working
<1> QED BY <1>2, <1>3, <1>4, Elsewhere DEF Quiet

\* The next soft requirement is tried.
LEMMA SoftStep ==
  ASSUME SolverInv, NextSoftRequirement PROVE SolverInv'
<1>1. Typed /\ Levels /\ pc = "returned"
  BY BeforePanic DEF NextSoftRequirement, At
<1>2. Good(st, TopLevel(dt), "any") /\ soft \in Nat
  BY <1>1 DEF Levels, Typed
<1>3. prob.soft[soft + 1] \in Asker
  <2>1. prob.soft \in Seq(Solvable)
    BY <1>1 DEF Typed, Problem
  <2>2. soft + 1 \in DOMAIN prob.soft
    BY <1>2, <2>1 DEF NextSoftRequirement
  <2> QED BY <2>1, <2>2 DEF Asker
<1>4. Typed' /\ pc' \in {"run_sat", "returned"} /\ st' = st
  BY <1>1, <1>3 DEF Typed, NextSoftRequirement
<1> QED BY <1>2, <1>4, Elsewhere DEF Quiet

\* solve returns a solution.
LEMMA SolutionStep ==
  ASSUME SolverInv, ReturnSolution PROVE SolverInv'
<1>1. Typed /\ Sound(st) /\ pc = "returned"
  BY BeforePanic DEF ReturnSolution, At
<1>2. ChosenSolvables \subseteq Solvable
  <2>1. Trail(st) \in Seq(Decision)
    BY <1>1, TrailEntries DEF Sound, Trail
  <2>2. ToSet(Trail(st)) \subseteq Decision
    BY <2>1, ToSetType
  <2> SUFFICES ASSUME NEW d \in ToSet(Trail(st)), d.variable.origin = "Solvable"
               PROVE  d.variable.id \in Solvable
    BY DEF ChosenSolvables
  <2>3. d.variable \in Variable
    BY <2>2 DEF Decision
  <2> QED BY <2>3, SolvableOrigin
<1>3. result'.solution = ChosenSolvables
  BY DEF ReturnSolution, NoResult
<1>4. Typed'
  BY <1>1, <1>2, <1>3 DEF Typed, ReturnSolution, run
<1> QED BY <1>1, <1>4, Elsewhere DEF ReturnSolution, Quiet

----------------------------------------------------------------------------
(* Every step keeps the invariant: propagation                              *)

\* A conflict was found.
LEMMA Conflicts ==
  ASSUME Typed', pc' = "conflict", Good(st, level, "any")', level' # 0, Falsifies(st, conflict.clause)',
         conflict'.variable \in Variable,
         caller' = "learn" =>
           /\ Recent(st, level)'
           /\ (\E l \in ToSet(st.clauses[conflict.clause].lits) : LevelIs(map, l.variable, level))'
  PROVE  SolverInv'
<1>1. Levels'
  BY DEF Levels, Working, Propagation
<1>2. Sound(st)'
  BY GoodSound
<1>3. Propagated' /\ UpToDate' /\ Analyzed'
  BY DEF Propagated, UpToDate, Analyzed, Propagation
<1> QED BY <1>1, <1>2, <1>3 DEF SolverInv

\* The literal of an assertion becomes true, or its clause is the conflict.
LEMMA UnitAsserted ==
  ASSUME Good(st, level, "any"), level \in Nat \ {0}, NEW c \in DOMAIN st.clauses, NEW l \in Literal,
         st.clauses[c].lits = <<l>> \/ ToSet(st.clauses[c].lits) = {l}, AssertUnit(Satisfy(l, c))
  PROVE  \/ /\ st' = st /\ pos' = pos /\ pc' = "conflict" /\ Falsifies(st, c) /\ LitFalse(map, l)
            /\ conflict' = [variable |-> l.variable, clause |-> c] /\ l \in ToSet(st.clauses[c].lits)
         \/ /\ pos' = pos + 1 /\ pc' = pc /\ conflict' = conflict
            /\ Good(st', level, "any") /\ SameLists(st, st') /\ st'.clauses = st.clauses
            /\ Extends(Map(st), Map(st'), level) /\ LitTrue(Map(st'), l)
            /\ Pending(dt, level) => Pending(st'.decision_tracker, level)
<1> DEFINE d == Satisfy(l, c)
           t == [st EXCEPT !.decision_tracker = TryAddDecision(st.decision_tracker, d, level)]
<1>1. ToSet(st.clauses[c].lits) = {l}
  <2>1. ToSet(<<l>>) = {l}
    BY DEF ToSet
  <2> QED BY <2>1
<1>2. /\ TryAddResult(dt, d) = "conflict" => Falsifies(st, c) /\ LitFalse(map, l)
      /\ TryAddResult(dt, d) # "conflict" =>
           /\ Good(t, level, "any") /\ SameLists(st, t) /\ t.clauses = st.clauses
           /\ Extends(Map(st), Map(t), level) /\ LitTrue(Map(t), l)
           /\ Pending(dt, level) => Pending(t.decision_tracker, level)
  BY <1>1, UnitGood DEF dt, map
<1>3. d.variable = l.variable /\ d.derived_from = c
  BY DEF Satisfy
<1>4. CASE TryAddResult(dt, d) = "conflict"
  BY <1>1, <1>2, <1>3, <1>4 DEF AssertUnit, Fail
<1>5. CASE TryAddResult(dt, d) # "conflict"
  <2>1. st' = t /\ pos' = pos + 1 /\ pc' = pc /\ conflict' = conflict
    BY <1>5 DEF AssertUnit, dt
  <2> HIDE DEF t
  <2> QED BY <1>2, <1>5, <2>1
<1> QED BY <1>4, <1>5

\* decide_assertions, one assertion or its end.
LEMMA AssertionsStep ==
  ASSUME SolverInv, DecideAssertions PROVE SolverInv'
<1>1. Typed /\ Levels /\ Sound(st) /\ Propagated /\ UpToDate /\ pc = "assertions"
  BY BeforePanic DEF DecideAssertions, At
<1>2. Good(st, level, "any") /\ level \in Nat \ {0} /\ pos \in Nat \ {0} /\ ListsOK(st)
  BY <1>1 DEF Levels, Typed, Working, Propagation, Propagated, Good, Core
<1>3. /\ Asserted(st, pos - 1)
      /\ caller = "learn" => Pending(dt, level) /\ Recent(st, level)
  BY <1>1 DEF Propagated, UpToDate, Propagation
<1>4. UNCHANGED <<prob, level, starting_level, root_solvable, soft, caller, cursor, an, result>>
  BY DEF DecideAssertions, run
<1> DEFINE na == st.negative_assertions
<1>5. na \in Seq(Variable \X Nat) /\ st.learnt_clause_ids \in Seq(Nat)
  BY <1>2 DEF ListsOK, AssertionsOK, LearntOK
<1>6. CASE pos > Len(na)
  <2>1. pc' = "learned" /\ pos' = 1 /\ st' = st
    BY <1>2, <1>5, <1>6 DEF DecideAssertions
  <2>2. Typed'
    BY <1>1, <1>4, <2>1 DEF Typed, Working, Propagation
  <2>3. Levels'
    BY <1>2, <1>4, <2>1 DEF Levels, Working, Propagation
  <2>4. Asserted(st, Len(st.negative_assertions)) /\ Learned(st, 0)
    <3>1. Len(na) <= pos - 1 /\ Len(na) \in Nat /\ DOMAIN na \subseteq Nat
      BY <1>2, <1>5, <1>6
    <3>2. \A i \in DOMAIN st.learnt_clause_ids : ~(i <= 0)
      BY <1>5
    <3>3. \A i \in DOMAIN na : i <= Len(na) => i <= pos - 1
      BY <1>2, <3>1
    <3> QED BY <1>3, <3>2, <3>3 DEF Asserted, Learned
  <2>5. (Asserted(st, Len(st.negative_assertions)) /\ Learned(st, pos - 1))'
    BY <2>1, <2>4
  <2>6. Propagated'
    BY <2>1, <2>5 DEF Propagated, Propagation
  <2>7. UpToDate' /\ Analyzed'
    BY <1>3, <1>4, <2>1 DEF UpToDate, Analyzed, Propagation, dt
  <2> QED BY <1>1, <2>1, <2>2, <2>3, <2>6, <2>7 DEF SolverInv
<1>7. CASE ~(pos > Len(na))
  <2> DEFINE v == na[pos][1]
             c == na[pos][2]
  <2>1. pos \in DOMAIN na /\ v \in Variable /\ c \in DOMAIN st.clauses /\ st.clauses[c].lits = <<Neg(v)>>
    BY <1>1, <1>2, <1>5, <1>7, AssertionsTyped
  <2>2. AssertUnit(Satisfy(Neg(v), c))
    BY <1>2, <1>5, <1>7 DEF DecideAssertions
  <2>3. Neg(v) \in Literal /\ Neg(v).variable = v
    BY <2>1, LiteralParts
  <2>4. /\ LitFalse(map, Neg(v)) <=> IsTrue(map, v)
        /\ LitTrue(Map(st'), Neg(v)) <=> IsFalse(Map(st'), v)
    BY DEF LitFalse, LitTrue, Neg
  <2>5. CASE /\ st' = st /\ pos' = pos /\ pc' = "conflict" /\ Falsifies(st, c) /\ LitFalse(map, Neg(v))
             /\ conflict' = [variable |-> v, clause |-> c] /\ Neg(v) \in ToSet(st.clauses[c].lits)
    <3>1. Typed'
      BY <1>1, <1>4, <2>5 DEF Typed, Working
    <3>2. conflict'.clause = c /\ conflict'.variable = v
      BY <2>5
    <3>3. caller = "learn" => LevelIs(Map(st), v, level)
      BY <1>3, <2>1, <2>4, <2>5 DEF Recent, map
    <3> HIDE DEF c, v
    <3>4. caller' = "learn" =>
           /\ Recent(st, level)'
           /\ (\E l \in ToSet(st.clauses[conflict.clause].lits) : LevelIs(map, l.variable, level))'
      BY <1>3, <1>4, <2>3, <2>5, <3>2, <3>3 DEF map
    <3>5. Falsifies(st, conflict.clause)'
      BY <2>5, <3>2
    <3> QED BY <1>2, <1>4, <2>1, <2>5, <3>1, <3>2, <3>4, <3>5, Conflicts
  <2>6. CASE /\ pos' = pos + 1 /\ pc' = pc /\ conflict' = conflict
             /\ Good(st', level, "any") /\ SameLists(st, st') /\ st'.clauses = st.clauses
             /\ Extends(Map(st), Map(st'), level) /\ LitTrue(Map(st'), Neg(v))
             /\ Pending(dt, level) => Pending(st'.decision_tracker, level)
    <3>1. Typed'
      BY <1>1, <1>2, <1>4, <2>6 DEF Typed
    <3>2. Levels'
      BY <1>1, <1>2, <1>4, <2>6 DEF Levels, Working, Propagation
    <3>3. st'.negative_assertions = na /\ st'.learnt_clause_ids = st.learnt_clause_ids
          /\ SameClauses(st.clauses, st'.clauses)
      BY <2>6 DEF SameLists, SameClauses
    <3>4. /\ Recent(st, level) => Recent(st', level)
          /\ Asserted(st', pos - 1)
      BY <1>1, <1>2, <1>3, <2>6, <3>3, SettledKept
    <3>5. Asserted(st', pos)
      <4>1. IsFalse(Map(st'), v)
        BY <2>4, <2>6
      <4>2. \A i \in DOMAIN na : i <= pos => i <= pos - 1 \/ i = pos
        BY <1>2, <1>5
      <4> QED BY <3>3, <3>4, <4>1, <4>2 DEF Asserted
    <3>6. Propagated'
      BY <1>1, <1>2, <2>6, <3>5 DEF Propagated, Propagation
    <3>7. UpToDate' /\ Analyzed'
      BY <1>1, <1>3, <1>4, <2>6, <3>4 DEF UpToDate, Analyzed, Propagation, dt
    <3>8. Sound(st)'
      BY <2>6, GoodSound
    <3> QED BY <3>1, <3>2, <3>6, <3>7, <3>8 DEF SolverInv
  <2> HIDE DEF v, c
  <2> QED BY <1>2, <2>1, <2>2, <2>3, <2>5, <2>6, UnitAsserted
<1> QED BY <1>6, <1>7

\* decide_learned, one clause or its end.
LEMMA LearnedStep ==
  ASSUME SolverInv, DecideLearned PROVE SolverInv'
<1>1. Typed /\ Levels /\ Sound(st) /\ Propagated /\ UpToDate /\ pc = "learned"
  BY BeforePanic DEF DecideLearned, At
<1>2. Good(st, level, "any") /\ level \in Nat \ {0} /\ pos \in Nat \ {0} /\ ListsOK(st)
  BY <1>1 DEF Levels, Typed, Working, Propagation, Propagated, Good, Core
<1>3. /\ Asserted(st, Len(st.negative_assertions)) /\ Learned(st, pos - 1)
      /\ caller = "learn" => Pending(dt, level) /\ Recent(st, level)
  BY <1>1 DEF Propagated, UpToDate, Propagation
<1>4. UNCHANGED <<prob, level, starting_level, root_solvable, soft, caller, cursor, an, result>>
  BY DEF DecideLearned, run
<1> DEFINE ids == st.learnt_clause_ids
<1>5. ids \in Seq(Nat)
  BY <1>2 DEF ListsOK, LearntOK
<1>6. CASE pos > Len(ids)
  <2>1. pc' = "next" /\ pos' = 1 /\ st' = st
    BY <1>2, <1>5, <1>6 DEF DecideLearned
  <2>2. Typed'
    BY <1>1, <1>4, <2>1 DEF Typed, Working, Propagation
  <2>3. Levels'
    BY <1>2, <1>4, <2>1 DEF Levels, Working, Propagation
  <2>4. Learned(st, Len(st.learnt_clause_ids))
    <3>1. Len(ids) <= pos - 1 /\ Len(ids) \in Nat /\ DOMAIN ids \subseteq Nat
      BY <1>2, <1>5, <1>6
    <3>2. \A i \in DOMAIN ids : i <= Len(ids) => i <= pos - 1
      BY <1>2, <3>1
    <3> QED BY <1>3, <3>2 DEF Learned
  <2>5. (Asserted(st, Len(st.negative_assertions)) /\ Learned(st, Len(st.learnt_clause_ids)))'
    BY <1>3, <2>1, <2>4
  <2>6. Propagated'
    BY <2>1, <2>5 DEF Propagated, Propagation
  <2>7. UpToDate' /\ Analyzed'
    BY <1>3, <1>4, <2>1 DEF UpToDate, Analyzed, Propagation, dt
  <2> QED BY <1>1, <2>1, <2>2, <2>3, <2>6, <2>7 DEF SolverInv
<1>7. CASE ~(pos > Len(ids))
  <2> DEFINE c == ids[pos]
             lits == st.clauses[c].lits
             l == lits[1]
  <2>1. pos \in DOMAIN ids /\ c \in DOMAIN st.clauses /\ lits \in Seq(Literal) /\ lits # << >> /\ l \in Literal
    BY <1>1, <1>2, <1>5, <1>7, AssertionsTyped
  <2>2. IF Len(lits) > 1 THEN pos' = pos + 1 /\ UNCHANGED <<st, pc, conflict>>
        ELSE AssertUnit(Satisfy(l, c))
    BY <1>2, <1>5, <1>7 DEF DecideLearned
  <2>3. l.variable \in Variable
    BY <2>1, LiteralParts
  <2>4. Len(lits) = 1 \/ (Len(lits) > 1 /\ Len(lits) # 1)
    <3> DEFINE n == Len(lits)
    <3>1. n \in Nat /\ n # 0
      BY <2>1
    <3> HIDE DEF n
    <3>2. n = 1 \/ (n > 1 /\ n # 1)
      BY <3>1
    <3> QED BY <3>2 DEF n
  <2>5. CASE Len(lits) > 1
    <3>1. pos' = pos + 1 /\ pc' = pc /\ st' = st
      BY <2>2, <2>5
    <3>2. Typed' /\ Levels'
      BY <1>1, <1>2, <1>4, <3>1 DEF Typed, Levels, Working, Propagation
    <3>3. Learned(st, pos)
      <4>1. Len(lits) # 1
        <5> DEFINE n == Len(lits)
        <5>1. n > 1 /\ n \in Nat
          BY <2>1, <2>5
        <5> HIDE DEF n
        <5>2. n # 1
          BY <5>1
        <5> QED BY <5>2 DEF n
      <4>2. \A i \in DOMAIN ids : i <= pos => i <= pos - 1 \/ i = pos
        BY <1>2, <1>5
      <4> QED BY <1>3, <4>1, <4>2 DEF Learned
    <3>4. (Asserted(st, Len(st.negative_assertions)) /\ Learned(st, pos - 1))'
      <4>1. pos' - 1 = pos
        BY <1>2, <3>1
      <4> QED BY <1>3, <3>1, <3>3, <4>1
    <3>5. Propagated'
      BY <1>1, <1>2, <3>1, <3>4 DEF Propagated, Propagation
    <3>6. UpToDate' /\ Analyzed'
      BY <1>1, <1>3, <1>4, <3>1 DEF UpToDate, Analyzed, Propagation, dt
    <3> QED BY <1>1, <3>1, <3>2, <3>5, <3>6 DEF SolverInv
  <2>6. CASE /\ st' = st /\ pos' = pos /\ pc' = "conflict" /\ Falsifies(st, c) /\ LitFalse(map, l)
             /\ conflict' = [variable |-> l.variable, clause |-> c] /\ l \in ToSet(st.clauses[c].lits)
             /\ Len(lits) = 1
    <3>1. Typed'
      BY <1>1, <1>4, <2>6 DEF Typed, Working
    <3>2. conflict'.clause = c /\ conflict'.variable = l.variable
      BY <2>6
    <3>3. caller = "learn" => LevelIs(Map(st), l.variable, level)
      BY <1>3, <2>1, <2>6 DEF Recent, map
    <3> HIDE DEF c, l
    <3>4. caller' = "learn" =>
           /\ Recent(st, level)'
           /\ (\E k \in ToSet(st.clauses[conflict.clause].lits) : LevelIs(map, k.variable, level))'
      BY <1>3, <1>4, <2>6, <3>2, <3>3 DEF map
    <3>5. Falsifies(st, conflict.clause)'
      BY <2>6, <3>2
    <3> QED BY <1>2, <1>4, <2>3, <2>6, <3>1, <3>2, <3>4, <3>5, Conflicts
  <2>7. CASE /\ pos' = pos + 1 /\ pc' = pc /\ conflict' = conflict
             /\ Good(st', level, "any") /\ SameLists(st, st') /\ st'.clauses = st.clauses
             /\ Extends(Map(st), Map(st'), level) /\ LitTrue(Map(st'), l)
             /\ Pending(dt, level) => Pending(st'.decision_tracker, level)
    <3>1. Typed'
      BY <1>1, <1>2, <1>4, <2>7 DEF Typed
    <3>2. Levels'
      BY <1>1, <1>2, <1>4, <2>7 DEF Levels, Working, Propagation
    <3>3. st'.negative_assertions = st.negative_assertions /\ st'.learnt_clause_ids = ids
          /\ SameClauses(st.clauses, st'.clauses)
      BY <2>7 DEF SameLists, SameClauses
    <3>4. /\ Recent(st, level) => Recent(st', level)
          /\ Asserted(st', Len(st.negative_assertions)) /\ Learned(st', pos - 1)
      BY <1>1, <1>2, <1>3, <2>7, <3>3, SettledKept
    <3>5. Learned(st', pos)
      <4>1. LitTrue(Map(st'), st'.clauses[ids[pos]].lits[1])
        BY <2>7
      <4>2. \A i \in DOMAIN ids : i <= pos => i <= pos - 1 \/ i = pos
        BY <1>2, <1>5
      <4> HIDE DEF c, lits, l
      <4> QED BY <3>3, <3>4, <4>1, <4>2 DEF Learned
    <3>6. pos' - 1 = pos
      BY <1>2, <2>7
    <3>7. (Asserted(st, Len(st.negative_assertions)) /\ Learned(st, pos - 1))'
      BY <3>3, <3>4, <3>5, <3>6
    <3>8. Propagated'
      BY <1>1, <1>2, <2>7, <3>7 DEF Propagated, Propagation
    <3>9. UpToDate' /\ Analyzed'
      BY <1>1, <1>3, <1>4, <2>7, <3>4 DEF UpToDate, Analyzed, Propagation, dt
    <3>10. Sound(st)'
      BY <2>7, GoodSound
    <3> QED BY <3>1, <3>2, <3>8, <3>9, <3>10 DEF SolverInv
  <2>8. CASE Len(lits) = 1
    <3>1. AssertUnit(Satisfy(l, c))
      BY <2>2, <2>8
    <3>2. ToSet(lits) = {l}
      BY <2>1, <2>8 DEF ToSet
    <3>3. ToSet(st.clauses[c].lits) = {l} /\ c \in DOMAIN st.clauses /\ l \in Literal
      BY <2>1, <3>2
    <3> HIDE DEF l, c, lits
    <3>4. \/ /\ st' = st /\ pos' = pos /\ pc' = "conflict" /\ Falsifies(st, c) /\ LitFalse(map, l)
             /\ conflict' = [variable |-> l.variable, clause |-> c] /\ l \in ToSet(st.clauses[c].lits)
          \/ /\ pos' = pos + 1 /\ pc' = pc /\ conflict' = conflict
             /\ Good(st', level, "any") /\ SameLists(st, st') /\ st'.clauses = st.clauses
             /\ Extends(Map(st), Map(st'), level) /\ LitTrue(Map(st'), l)
             /\ Pending(dt, level) => Pending(st'.decision_tracker, level)
      BY <1>2, <3>1, <3>3, UnitAsserted
    <3> QED BY <2>6, <2>7, <2>8, <3>4
  <2> QED BY <2>4, <2>5, <2>8
<1> QED BY <1>6, <1>7

\* The next decision is propagated, or all are.
LEMMA NextStep ==
  ASSUME SolverInv, NextDecisionToPropagate PROVE SolverInv'
<1>1. Typed /\ Levels /\ Sound(st) /\ Propagated /\ UpToDate /\ pc = "next"
  BY BeforePanic DEF NextDecisionToPropagate, At
<1>2. Good(st, level, "any") /\ level \in Nat \ {0} /\ pos \in Nat \ {0} /\ ListsOK(st)
  BY <1>1 DEF Levels, Typed, Working, Propagation, Propagated, Good, Core
<1>3. /\ Asserted(st, Len(st.negative_assertions)) /\ Learned(st, Len(st.learnt_clause_ids))
      /\ caller = "learn" => Pending(dt, level) /\ Recent(st, level)
  BY <1>1 DEF Propagated, UpToDate, Propagation
<1>4. UNCHANGED <<prob, level, starting_level, root_solvable, soft, caller, pos, an, result>>
  BY DEF NextDecisionToPropagate, run
<1>5. CASE ~HasUnpropagated(dt)
  <2>1. pc' = "decide" /\ st' = st
    BY <1>5 DEF NextDecisionToPropagate
  <2>2. Typed' /\ Levels'
    BY <1>1, <1>2, <1>4, <2>1 DEF Typed, Levels, Working, Propagation
  <2>3. (Asserted(st, Len(st.negative_assertions)) /\ Learned(st, Len(st.learnt_clause_ids))
         /\ ~HasUnpropagated(dt))'
    BY <1>3, <1>5, <2>1 DEF dt
  <2>4. Propagated'
    BY <2>1, <2>3 DEF Propagated, Propagation
  <2>5. UpToDate' /\ Analyzed'
    BY <2>1 DEF UpToDate, Analyzed, Propagation
  <2> QED BY <1>1, <2>1, <2>2, <2>4, <2>5 DEF SolverInv
<1>6. CASE HasUnpropagated(dt)
  <2> DEFINE x == st.decision_tracker
             i == x.propagate_index + 1
             d == x.stack[i]
             y == MarkPropagated(x)
             t == [st EXCEPT !.decision_tracker = y]
             cur == CursorOf(st.watches, st.clauses, Falsified(d))
  <2>1. cursor' = cur /\ st' = t /\ pc' = "visit"
    BY <1>6 DEF NextDecisionToPropagate, NextUnpropagated, dt
  <2>2. x \in Tracker /\ Consistent(x) /\ Shape(st)
    BY <1>2, GoodTracks
  <2>3. i \in 1 .. Len(x.stack) /\ x.propagate_index \in Nat /\ d \in Decision /\ d.variable \in Variable
    BY <1>6, <2>2, TrailEntries DEF HasUnpropagated, dt
  <2>4. Falsified(d) \in Literal /\ Falsified(d).variable = d.variable /\ LitFalse(x.map, Falsified(d))
    BY <2>2, <2>3, LiteralParts, FalseOnTrail
  <2>5. Good(t, level, "any") /\ y.map = x.map
    BY <1>2, MarksGood
  <2>6. y.stack = x.stack /\ y.propagate_index = i
    BY <2>2 DEF MarkPropagated, Tracker
  <2> HIDE DEF y
  <2>7. t.decision_tracker = y /\ t.clauses = st.clauses /\ t.watches = st.watches
        /\ t.negative_assertions = st.negative_assertions /\ t.learnt_clause_ids = st.learnt_clause_ids
    BY <2>2 DEF Shape
  <2> HIDE DEF t
  <2>8. Map(t) = Map(st)
    BY <2>5, <2>7 DEF Map
  <2>9. CursorOK(st.watches, st.clauses, cur) /\ cur.literal = Falsified(d)
    <3>1. LinksOK(st.watches, st.clauses)
      BY <1>2 DEF Good, Core
    <3> QED BY <2>4, <3>1, CursorStarts DEF CursorOf
  <2> HIDE DEF cur
  <2>10. caller = "learn" => Pending(y, level) /\ Recent(t, level) /\ LevelIs(Map(t), d.variable, level)
    <3> SUFFICES ASSUME Pending(dt, level), Recent(st, level)
                 PROVE  Pending(y, level) /\ Recent(t, level) /\ LevelIs(Map(t), d.variable, level)
      BY <1>3
    <3>1. Recent(t, level)
      BY <2>7, <2>8 DEF Recent
    <3>2. LevelIs(x.map, d.variable, level)
      BY <2>3 DEF Pending, dt
    <3>3. Pending(y, level)
      BY <2>3, <2>5, <2>6 DEF Pending, dt
    <3>4. Map(t) = x.map
      BY <2>8 DEF Map
    <3> QED BY <3>1, <3>2, <3>3, <3>4
  <2> HIDE DEF d, i, x
  <2>11. Typed' /\ Levels'
    BY <1>1, <1>2, <1>4, <2>1, <2>5 DEF Typed, Levels, Working, Propagation
  <2>12. (Asserted(st, Len(st.negative_assertions)) /\ Learned(st, Len(st.learnt_clause_ids)))'
    BY <1>3, <2>1, <2>7, <2>8 DEF Asserted, Learned
  <2>13. (CursorOK(st.watches, st.clauses, cursor) /\ LitFalse(map, cursor.literal))'
    BY <2>1, <2>4, <2>7, <2>8, <2>9 DEF map, Map, x
  <2>14. Propagated'
    BY <1>2, <1>4, <2>1, <2>12, <2>13 DEF Propagated, Propagation
  <2>15. UpToDate' /\ Analyzed'
    BY <1>4, <2>1, <2>4, <2>7, <2>9, <2>10 DEF UpToDate, Analyzed, Propagation, dt, map
  <2>16. Sound(st)'
    BY <2>1, <2>5, GoodSound
  <2> QED BY <2>11, <2>14, <2>15, <2>16 DEF SolverInv
<1> QED BY <1>5, <1>6

\* A watch list was walked to its end.
LEMMA EndStep ==
  ASSUME SolverInv, EndOfWatchers PROVE SolverInv'
<1>1. /\ Typed /\ Levels /\ Sound(st) /\ Propagated /\ UpToDate /\ pc = "visit" /\ pc' = "next"
      /\ UNCHANGED <<prob, st, level, starting_level, root_solvable, soft, caller, pos, an, result>>
  BY BeforePanic DEF EndOfWatchers, At, run
<1>2. Typed' /\ Levels'
  BY <1>1 DEF Typed, Levels, Working, Propagation
<1>3. Propagated'
  BY <1>1 DEF Propagated, Propagation
<1>4. UpToDate' /\ Analyzed'
  BY <1>1 DEF UpToDate, Analyzed, Propagation, dt
<1> QED BY <1>1, <1>2, <1>3, <1>4 DEF SolverInv

\* The walk along a watch list goes on.
LEMMA WalkGoesOn ==
  ASSUME SolverInv, ~Panicked, pc = "visit", pc' = "visit", pos' = pos, Good(st', level, "any"),
         UNCHANGED <<prob, level, starting_level, root_solvable, soft, caller, an, result>>,
         SameClauses(st.clauses, st'.clauses), SameLists(st, st'), Extends(Map(st), Map(st'), level),
         Pending(dt, level) => Pending(st'.decision_tracker, level),
         CursorOK(st'.watches, st'.clauses, cursor'), cursor'.literal = cursor.literal
  PROVE  SolverInv'
<1>1. Typed /\ Levels /\ Sound(st) /\ Propagated /\ UpToDate
  BY BeforePanic
<1>2. Good(st, level, "any") /\ level \in Nat \ {0} /\ pos # 0 /\ ListsOK(st)
  BY <1>1 DEF Levels, Typed, Working, Propagation, Propagated, Good, Core
<1>3. /\ Asserted(st, Len(st.negative_assertions)) /\ Learned(st, Len(st.learnt_clause_ids))
      /\ LitFalse(map, cursor.literal) /\ CursorOK(st.watches, st.clauses, cursor)
      /\ caller = "learn" => /\ Pending(dt, level) /\ Recent(st, level)
                             /\ LevelIs(map, cursor.literal.variable, level)
  BY <1>1 DEF Propagated, UpToDate, Propagation
<1>4. st'.negative_assertions = st.negative_assertions /\ st'.learnt_clause_ids = st.learnt_clause_ids
  BY DEF SameLists
<1>5. /\ Recent(st, level) => Recent(st', level)
      /\ Asserted(st', Len(st.negative_assertions)) /\ Learned(st', Len(st.learnt_clause_ids))
  BY <1>1, <1>2, <1>3, <1>4, SettledKept
<1>6. cursor.literal \in Literal /\ cursor.literal.variable \in Variable
  <2>1. cursor.literal \in Literal
    BY <1>3 DEF CursorOK
  <2> QED BY <2>1, LiteralParts
<1>7. Map(st')[cursor.literal.variable] = Map(st)[cursor.literal.variable]
  <2>1. Map(st)[cursor.literal.variable] # 0
    BY <1>3 DEF LitFalse, IsTrue, IsFalse, map
  <2> QED BY <1>6, <2>1 DEF Extends
<1>8. /\ LitFalse(Map(st'), cursor.literal)
      /\ LevelIs(map, cursor.literal.variable, level) => LevelIs(Map(st'), cursor.literal.variable, level)
  BY <1>3, <1>7 DEF LitFalse, IsTrue, IsFalse, LevelIs, LevelOf, map
<1>9. Typed' /\ Levels'
  BY <1>1, <1>2 DEF Typed, Levels, Working, Propagation
<1>10. Propagated'
  BY <1>2, <1>4, <1>5, <1>8 DEF Propagated, Propagation, map
<1>11. UpToDate' /\ Analyzed'
  BY <1>3, <1>5, <1>8 DEF UpToDate, Analyzed, Propagation, map, dt
<1>12. Sound(st)'
  BY GoodSound
<1> QED BY <1>9, <1>10, <1>11, <1>12 DEF SolverInv

\* The literals a watch may move to, or none: then all but the other watch are false.
LEMMA UnwatchedFacts ==
  ASSUME NEW lv, Good(st, lv, "any"), CursorOK(st.watches, st.clauses, cursor), Visited # 0,
         LitFalse(map, cursor.literal)
  PROVE  /\ Unwatched # << >> =>
              /\ VisitedClause.kind \in {"Requires", "Learnt"}
              /\ Unwatched[1] \in ToSet(VisitedClause.lits) /\ Unwatched[1] # cursor.literal
              /\ Unwatched[1] # OtherWatch
         /\ Unwatched = << >> =>
              \A l \in ToSet(VisitedClause.lits) : l = OtherWatch \/ LitFalse(map, l)
<1> DEFINE c == Visited
           lits == VisitedClause.lits
           S == {l \in ToSet(lits) : l # OtherWatch /\ ~LitFalse(map, l)}
<1>1. /\ lits \in Seq(Literal)
      /\ VisitedClause.kind \notin {"Requires", "Learnt"} => ToSet(lits) = {cursor.literal, OtherWatch}
  BY VisitedFacts DEF Visited, VisitedClause, OtherWatch
<1>2. CASE VisitedClause.kind \in {"Requires", "Learnt"}
  <2>1. Unwatched = Keep(lits, S)
    BY <1>2 DEF Unwatched
  <2> HIDE DEF lits, S
  <2>2. Unwatched \in Seq(Literal) /\ ToSet(Unwatched) = ToSet(lits) \cap S
    BY <1>1, <2>1, KeepElements
  <2>3. ASSUME Unwatched # << >> PROVE Unwatched[1] \in ToSet(lits) /\ Unwatched[1] \in S
    <3>1. Unwatched[1] \in ToSet(Unwatched)
      <4>1. 1 \in DOMAIN Unwatched
        BY <2>2, <2>3
      <4> QED BY <2>2, <4>1, ToSetType
    <3> QED BY <2>2, <3>1
  <2>4. ASSUME Unwatched = << >> PROVE ToSet(lits) \cap S = {}
    <3>1. ToSet(<< >>) = {}
      BY DEF ToSet
    <3> QED BY <2>2, <2>4, <3>1
  <2> QED BY <1>2, <2>3, <2>4 DEF S, lits
<1>3. CASE VisitedClause.kind \notin {"Requires", "Learnt"}
  <2>1. Unwatched = << >>
    BY <1>3 DEF Unwatched
  <2> QED BY <1>1, <1>3, <2>1
<1> QED BY <1>2, <1>3

\* A clause on a watch list: it holds, its watch moves, it is unit, or it is falsified.
LEMMA VisitStep ==
  ASSUME SolverInv, VisitClause PROVE SolverInv'
<1>1. Typed /\ Levels /\ Sound(st) /\ Propagated /\ UpToDate /\ pc = "visit" /\ ~Panicked /\ Visited # 0
  BY BeforePanic DEF VisitClause, At, EndOfList, NoClause
<1>2. Good(st, level, "any") /\ level \in Nat \ {0}
  BY <1>1 DEF Levels, Typed, Working, Propagation
<1>3. /\ LitFalse(map, cursor.literal) /\ CursorOK(st.watches, st.clauses, cursor)
      /\ caller = "learn" => Recent(st, level) /\ LevelIs(map, cursor.literal.variable, level)
  BY <1>1 DEF Propagated, UpToDate, Propagation
<1>4. UNCHANGED <<prob, level, starting_level, root_solvable, soft, caller, pos, an, result>>
  BY DEF VisitClause, run
<1>5. /\ Visited \in DOMAIN st.clauses /\ ToSet(VisitedClause.lits) \subseteq Literal
      /\ cursor.literal \in Literal /\ cursor.literal \in ToSet(VisitedClause.lits)
      /\ OtherWatch \in Literal /\ OtherWatch \in ToSet(VisitedClause.lits)
  BY <1>1, <1>2, <1>3, VisitedFacts DEF Visited, VisitedClause, OtherWatch
<1>6. /\ Unwatched # << >> =>
           /\ VisitedClause.kind \in {"Requires", "Learnt"}
           /\ Unwatched[1] \in ToSet(VisitedClause.lits) /\ Unwatched[1] # cursor.literal
           /\ Unwatched[1] # OtherWatch
      /\ Unwatched = << >> =>
           \A l \in ToSet(VisitedClause.lits) : l = OtherWatch \/ LitFalse(map, l)
  BY <1>1, <1>2, <1>3, UnwatchedFacts
<1>7. /\ CursorOK(st.watches, st.clauses, Advance(st.clauses, cursor))
      /\ Advance(st.clauses, cursor).literal = cursor.literal
      /\ CursorAfterUpdate(st.clauses, cursor).literal = cursor.literal
  <2>1. LinksOK(st.watches, st.clauses)
    BY <1>2 DEF Good, Core
  <2>2. CursorOK(st.watches, st.clauses, Advance(st.clauses, cursor))
    BY <1>1, <1>3, <2>1, CursorAdvances DEF Visited
  <2>3. cursor \in [literal : Literal, previous : Node, current : Node]
    BY <1>3 DEF CursorOK
  <2> QED BY <2>2, <2>3 DEF Advance, CursorAfterUpdate
<1>8. SameClauses(st.clauses, st.clauses) /\ SameLists(st, st) /\ Extends(Map(st), Map(st), level)
  BY DEF SameClauses, SameLists, Extends
<1> DEFINE unit == Satisfy(OtherWatch, Visited)
<1>9. CASE cursor' = Advance(st.clauses, cursor) /\ UNCHANGED <<st, pc, conflict>>
  <2>1. Good(st', level, "any") /\ pc' = "visit" /\ st' = st
    BY <1>1, <1>2, <1>9
  <2> QED BY <1>1, <1>4, <1>7, <1>8, <1>9, <2>1, WalkGoesOn DEF dt
<1>10. CASE /\ Unwatched # << >> /\ st' = MoveWatch(Unwatched[1])
            /\ cursor' = CursorAfterUpdate(st.clauses, cursor) /\ UNCHANGED <<pc, conflict>>
  <2> DEFINE b == Unwatched[1]
  <2>1. /\ b \in ToSet(VisitedClause.lits) /\ b # cursor.literal /\ b # OtherWatch
        /\ VisitedClause.kind \in {"Requires", "Learnt"}
    BY <1>6, <1>10
  <2> HIDE DEF b
  <2>2. LET t == [st EXCEPT !.watches = UpdatedHeads(st.watches, st.clauses, cursor, b),
                            !.clauses = UpdatedClauses(st.watches, st.clauses, cursor, b)]
        IN /\ Good(t, level, "any") /\ SameClauses(st.clauses, t.clauses)
           /\ SameLists(st, t) /\ t.decision_tracker = st.decision_tracker
           /\ t.panicked = st.panicked
           /\ CursorOK(t.watches, t.clauses, CursorAfterUpdate(st.clauses, cursor))
    BY <1>1, <1>2, <1>3, <2>1, MoveGood DEF Visited, VisitedClause, OtherWatch
  <2>3. st' = [st EXCEPT !.watches = UpdatedHeads(st.watches, st.clauses, cursor, b),
                         !.clauses = UpdatedClauses(st.watches, st.clauses, cursor, b)]
    BY <1>10 DEF MoveWatch, b
  <2>4. /\ Good(st', level, "any") /\ SameClauses(st.clauses, st'.clauses)
        /\ SameLists(st, st') /\ st'.decision_tracker = st.decision_tracker
        /\ CursorOK(st'.watches, st'.clauses, CursorAfterUpdate(st.clauses, cursor))
    BY <2>2, <2>3
  <2>5. Map(st') = Map(st) /\ (Pending(dt, level) => Pending(st'.decision_tracker, level))
    BY <2>4 DEF Map, dt
  <2> QED BY <1>1, <1>4, <1>7, <1>8, <1>10, <2>4, <2>5, WalkGoesOn
<1>11. CASE /\ Unwatched = << >> /\ IsUndecided(map, OtherWatch.variable)
            /\ st' = [st EXCEPT !.decision_tracker = TryAddDecision(dt, unit, level)]
            /\ cursor' = Advance(st.clauses, cursor) /\ UNCHANGED <<pc, conflict>>
  <2>1. TryAddResult(st.decision_tracker, unit) = "added"
    BY <1>11 DEF TryAddResult, Satisfy, map, Map
  <2>2. \A l \in ToSet(st.clauses[Visited].lits) : l = OtherWatch \/ LitFalse(Map(st), l)
    BY <1>6, <1>11 DEF VisitedClause, map
  <2>3. OtherWatch \in ToSet(st.clauses[Visited].lits)
    BY <1>5 DEF VisitedClause
  <2>4. st' = [st EXCEPT !.decision_tracker = TryAddDecision(st.decision_tracker, Satisfy(OtherWatch, Visited), level)]
    BY <1>11 DEF dt
  <2>5. /\ Good(st', level, "any") /\ SameLists(st, st') /\ st'.clauses = st.clauses
        /\ Extends(Map(st), Map(st'), level) /\ st'.watches = st.watches
        /\ Pending(st.decision_tracker, level) => Pending(st'.decision_tracker, level)
    BY <1>2, <1>5, <2>1, <2>2, <2>3, <2>4, UnitGood
  <2>6. SameClauses(st.clauses, st'.clauses) /\ CursorOK(st'.watches, st'.clauses, cursor')
        /\ cursor'.literal = cursor.literal /\ pc' = "visit"
    BY <1>1, <1>7, <1>8, <1>11, <2>5
  <2> QED BY <1>1, <1>4, <2>5, <2>6, WalkGoesOn DEF dt
<1>12. CASE /\ Unwatched = << >> /\ LitFalse(map, OtherWatch) /\ Fail(OtherWatch.variable, Visited)
            /\ UNCHANGED st
  <2>1. pc' = "conflict" /\ conflict'.clause = Visited /\ conflict'.variable = OtherWatch.variable
    BY <1>12 DEF Fail
  <2>2. Typed'
    BY <1>1, <1>4, <1>12, <2>1 DEF Typed, Working
  <2>3. Falsifies(st, Visited)
    <3>1. VisitedClause.lits # << >>
      BY <1>5 DEF ToSet
    <3> QED BY <1>5, <1>6, <1>12, <3>1 DEF Falsifies, VisitedClause, map
  <2>4. OtherWatch.variable \in Variable
    BY <1>5, LiteralParts
  <2>5. cursor.literal \in ToSet(st.clauses[Visited].lits)
    BY <1>5 DEF VisitedClause
  <2>6. Good(st, level, "any")' /\ level' # 0 /\ Falsifies(st, conflict.clause)'
    BY <1>2, <1>4, <1>12, <2>1, <2>3
  <2>7. caller' = "learn" =>
           /\ Recent(st, level)'
           /\ (\E l \in ToSet(st.clauses[conflict.clause].lits) : LevelIs(map, l.variable, level))'
    BY <1>3, <1>4, <1>12, <2>1, <2>5 DEF map
  <2> QED BY <2>1, <2>2, <2>4, <2>6, <2>7, Conflicts
<1> QED BY <1>9, <1>10, <1>11, <1>12 DEF VisitClause

\* A conflict in propagate_and_learn is analyzed, or the problem is unsolvable.
LEMMA LearnFromConflictStep ==
  ASSUME SolverInv, LearnFromConflict PROVE SolverInv'
<1>1. Typed /\ Levels /\ Sound(st) /\ Propagated /\ UpToDate /\ pc = "conflict" /\ caller = "learn"
  BY BeforePanic DEF LearnFromConflict, At
<1>2. Good(st, level, "any") /\ level \in Nat \ {0} /\ Shape(st)
  BY <1>1, GoodTracks DEF Levels, Typed, Working
<1>3. /\ Falsifies(st, conflict.clause) /\ conflict.variable \in Variable /\ Recent(st, level)
      /\ \E l \in ToSet(st.clauses[conflict.clause].lits) : LevelIs(map, l.variable, level)
  BY <1>1 DEF Propagated, UpToDate
<1>4. UNCHANGED <<prob, level, starting_level, root_solvable, soft, caller, pos, conflict>>
  BY DEF LearnFromConflict, run
<1>5. CASE level = 1
  BY <1>1, <1>2, <1>4, <1>5, UnsolvableStep DEF LearnFromConflict
<1>6. CASE level # 1
  <2> DEFINE a == [NoAnalysis EXCEPT !.clause = conflict.clause, !.level = level,
                                     !.variable = conflict.variable]
  <2>1. UNCHANGED st /\ an' = a /\ pc' = "analyze" /\ UNCHANGED result /\ level > 1
    BY <1>2, <1>6 DEF LearnFromConflict
  <2>2. /\ a.clause = conflict.clause /\ a.first = TRUE /\ a.seen = {} /\ a.causes = 0
        /\ a.learnt = << >> /\ a.back_track_to = 0 /\ a.why = << >> /\ a.level = level
    BY DEF NoAnalysis
  <2>3. conflict.clause \in DOMAIN st.clauses /\ conflict.clause \in Nat
    <3>1. conflict.clause \in DOMAIN st.clauses
      BY <1>3 DEF Falsifies
    <3>2. st.clauses \in Seq(ClauseType)
      BY <1>2, GoodTracks
    <3> QED BY <3>1, <3>2
  <2>4. a \in Analysis
    <3>1. NoAnalysis \in Analysis
      <4>1. << >> \in Seq(Literal) /\ << >> \in Seq(Nat) /\ RootVar \in Variable
        BY Variables
      <4> QED BY <4>1 DEF NoAnalysis, Analysis
    <3> QED BY <1>2, <1>3, <2>3, <3>1 DEF Analysis
  <2> HIDE DEF a
  <2>5. LearntVars(a) = {} /\ OpenVars(Map(st), a) = {}
    BY <2>2 DEF LearntVars, OpenVars
  <2>6. IsFiniteSet({}) /\ Cardinality({}) = 0
    BY FS_EmptySet
  <2>7. LearntFalse(Map(st), a, level)
    BY <1>2, <2>2, <2>5, <2>6 DEF LearntFalse
  <2>8. Counted(Map(st), a, level)
    BY <2>2, <2>5, <2>6 DEF Counted
  <2>9. \E l \in ToSet(st.clauses[a.clause].lits) : LevelOf(Map(st), l.variable) = level
    BY <1>3, <2>2 DEF LevelIs, map
  <2>10. Analyzing(st, a, level)
    BY <1>3, <2>2, <2>3, <2>4, <2>7, <2>8, <2>9 DEF Analyzing, Falsifies
  <2>11. Typed' /\ Levels'
    BY <1>1, <1>2, <1>4, <2>1 DEF Typed, Levels, Working, Propagation
  <2>12. Propagated' /\ UpToDate'
    BY <1>3, <2>1, <1>4 DEF Propagated, UpToDate, Propagation
  <2>13. Analyzed'
    BY <1>1, <1>4, <2>1, <2>10 DEF Analyzed
  <2> QED BY <1>1, <2>1, <2>11, <2>12, <2>13 DEF SolverInv
<1> QED BY <1>5, <1>6

\* analyze visits a clause.
LEMMA CauseStep ==
  ASSUME SolverInv, VisitCause PROVE SolverInv'
<1>1. /\ Typed /\ Levels /\ Sound(st) /\ UpToDate /\ pc = "analyze" /\ caller = "learn"
      /\ level > 1 /\ Analyzing(st, an, level)
  BY BeforePanic DEF VisitCause, At, Analyzed
<1>2. Good(st, level, "any") /\ level \in Nat \ {0} /\ Recent(st, level) /\ st.clauses \in Seq(ClauseType)
  BY <1>1, GoodTracks DEF Levels, Typed, Working, UpToDate
<1>3. UNCHANGED <<prob, st, level, starting_level, root_solvable, soft, caller, pos, result>> /\ pc' = "pop"
  BY DEF VisitCause, run
<1> DEFINE q == st.clauses[an.clause].lits
<1>4. q \in Seq(Literal) /\ DOMAIN q = 1 .. Len(q)
  <2>1. st.clauses[an.clause] \in ClauseType
    BY <1>1, <1>2 DEF Analyzing
  <2> QED BY <2>1 DEF ClauseType
<1>5. FoldLeft(Blame, an, q) = Blames!Loop(Map(st), q, level, an, Len(q))
  BY <1>4 DEF FoldLeft, MapThenFoldSet, Blames!Loop, Blames!Fix, BlameDef, Blame, BlameIn, map
<1>6. an' = VisitedBy(an, Blames!Loop(Map(st), q, level, an, Len(q)))
  BY <1>5 DEF VisitCause, VisitedBy
<1>7. an'.panicked \/ Popping(st, an', level)
  BY <1>1, <1>2, <1>6, VisitGood
<1>8. Typed' /\ Levels'
  BY <1>1, <1>2, <1>3 DEF Typed, Levels, Working, Propagation
<1>9. Propagated' /\ UpToDate'
  BY <1>2, <1>3 DEF Propagated, UpToDate, Propagation
<1>10. ~Panicked' => Analyzed'
  BY <1>1, <1>3, <1>7 DEF Analyzed, Panicked
<1> QED BY <1>1, <1>3, <1>8, <1>9, <1>10 DEF SolverInv

\* analyze pops an entry of the trail.
LEMMA PopStep ==
  ASSUME SolverInv, PopTrail PROVE SolverInv'
<1>1. /\ Typed /\ Levels /\ Sound(st) /\ UpToDate /\ pc = "pop" /\ caller = "learn"
      /\ level > 1 /\ Popping(st, an, level)
  BY BeforePanic DEF PopTrail, At, Analyzed
<1>2. Good(st, level, "any") /\ level \in Nat /\ level # 0 /\ Recent(st, level) /\ ListsOK(st)
  BY <1>1 DEF Levels, Typed, Working, UpToDate, Good, Core
<1>3. UNCHANGED <<prob, level, starting_level, root_solvable, soft, caller, pos, result>>
  BY DEF PopTrail, run
<1>4. st' = PoppedOff(st) /\ an' = AfterPop(st, an)
  BY DEF PopTrail, Popped, PoppedOff, AfterPop, LastEntry, dt, Trail
<1> DEFINE d == Trail(st)[Len(Trail(st))]
<1>5. pc' = IF d.variable \notin an.seen THEN "pop" ELSE IF an.causes <= 1 THEN "learn" ELSE "analyze"
  BY DEF PopTrail, LastEntry
<1>6. /\ Good(st', level, "any") /\ SameLists(st, st') /\ st'.clauses = st.clauses
      /\ \A w \in Variable : Map(st')[w] \in {0, Map(st)[w]}
      /\ d.variable \notin an.seen => Popping(st', an', level)
      /\ d.variable \in an.seen /\ an.causes <= 1 => Learning(st', an', level)
      /\ d.variable \in an.seen /\ ~(an.causes <= 1) => Analyzing(st', an', level)
  BY <1>1, <1>2, <1>4, PopGood
<1> HIDE DEF d
<1>7. Recent(st', level)
  <2>1. st'.negative_assertions = st.negative_assertions /\ st'.learnt_clause_ids = st.learnt_clause_ids
    BY <1>6 DEF SameLists
  <2> QED BY <1>1, <1>2, <1>6, <2>1, RecentShrinks
<1>8. pc' \in {"pop", "learn", "analyze"}
  BY <1>5
<1>9. Typed' /\ Levels'
  BY <1>1, <1>2, <1>3, <1>6, <1>8 DEF Typed, Levels, Working, Propagation
<1>10. Propagated' /\ UpToDate'
  BY <1>3, <1>7, <1>8 DEF Propagated, UpToDate, Propagation
<1>11. Analyzed'
  BY <1>1, <1>3, <1>5, <1>6 DEF Analyzed
<1>12. Sound(st)'
  BY <1>6, GoodSound
<1> QED BY <1>9, <1>10, <1>11, <1>12 DEF SolverInv

\* The clause is learnt, the trail undone and the asserting literal assigned.
LEMMA LearnStep ==
  ASSUME SolverInv, Learn PROVE SolverInv'
<1>1. /\ Typed /\ Levels /\ UpToDate /\ pc = "learn" /\ caller = "learn"
      /\ level > 1 /\ Learning(st, an, level)
  BY BeforePanic DEF Learn, At, Analyzed
<1>2. Good(st, level, "any") /\ level \in Nat /\ Recent(st, level)
  BY <1>1 DEF Levels, Typed, Working, UpToDate
<1>3. UNCHANGED <<prob, starting_level, root_solvable, soft, caller, result>>
      /\ pc' = "assertions" /\ pos' = 1 /\ level' = BackTo(an)
  BY DEF Learn, run, StartPropagate, BacktrackLevel, BackTo
<1>4. st' = AfterLearn(st, an)
  <2>1. LearntLiterals = LearntOf(an) /\ AssertingLiteral = PoppedLit(an) /\ BacktrackLevel = BackTo(an)
    BY DEF LearntLiterals, LearntOf, AssertingLiteral, PoppedLit, BacktrackLevel, BackTo
  <2> QED BY <2>1 DEF Learn, AfterLearn, Noted
<1>5. /\ level' \in Nat \ {0} /\ Good(st', level', "any")
      /\ Pending(st'.decision_tracker, level') /\ Recent(st', level')
  BY <1>1, <1>2, <1>3, <1>4, LearnGood
<1>6. Typed'
  BY <1>1, <1>3, <1>5 DEF Typed, Working, Propagation
<1> QED BY <1>3, <1>5, <1>6, Propagates DEF dt

\* The candidates of a clause that are still undecided.
LEMMA OpenCandidatesTyped ==
  ASSUME Good(st, level, "any"), NEW c \in DOMAIN st.clauses, OpenCandidates(c) # << >>
  PROVE  /\ OpenCandidates(c)[1] \in Literal /\ IsUndecided(map, OpenCandidates(c)[1].variable)
         /\ c \in Nat
<1> DEFINE lits == st.clauses[c].lits
           q == CandidatesOf(c)
           S == {l \in ToSet(q) : IsUndecided(map, l.variable)}
           r == OpenCandidates(c)
<1>1. st.clauses \in Seq(ClauseType)
  BY GoodTracks
<1>2. st.clauses[c] \in ClauseType /\ c \in Nat
  BY <1>1
<1>3. lits \in Seq(Literal) /\ st.clauses[c].condition \in Seq(Literal)
  BY <1>2 DEF ClauseType
<1> DEFINE n == Len(st.clauses[c].condition) + 2
<1>4. n \in Nat \ {0} /\ q = SubSeq(lits, n, Len(lits)) /\ Len(lits) \in Nat
  <2>1. Len(st.clauses[c].condition) \in Nat /\ Len(lits) \in Nat
    BY <1>3
  <2> QED BY <2>1 DEF CandidatesOf
<1> HIDE DEF n, lits
<1>5. SubSeq(lits, n, Len(lits)) \in Seq(Literal)
  <2>1. \A i \in n .. Len(lits) : lits[i] \in Literal
    BY <1>3, <1>4
  <2> QED BY <1>3, <1>4, <2>1, SubSeqProperties
<1>6. q \in Seq(Literal) /\ r = Keep(q, S)
  BY <1>4, <1>5 DEF OpenCandidates
<1> HIDE DEF q, S, r
<1>7. r \in Seq(Literal) /\ ToSet(r) = ToSet(q) \cap S
  BY <1>6, KeepElements
<1>8. 1 \in DOMAIN r
  BY <1>7 DEF r
<1>9. r[1] \in Literal /\ r[1] \in ToSet(r)
  BY <1>7, <1>8, ToSetType
<1> QED BY <1>2, <1>7, <1>9 DEF r, S

\* The next decision opens a level: what was settled stays so, and only the decision
\* is not propagated.
LEMMA DecideGood ==
  ASSUME NEW s, NEW k \in Nat \ {0}, Good(s, k, "any"), Settled(s), ~HasUnpropagated(s.decision_tracker),
         NEW l \in Literal, IsUndecided(Map(s), l.variable), NEW c \in Nat
  PROVE  LET t == Assign([s EXCEPT !.decision_tracker = TakeSyncFloor(s.decision_tracker)],
                         Satisfy(l, c), k + 1)
         IN Good(t, k + 1, "any") /\ Pending(t.decision_tracker, k + 1) /\ Recent(t, k + 1)
<1> DEFINE x == s.decision_tracker
           u == TakeSyncFloor(x)
           s0 == [s EXCEPT !.decision_tracker = u]
           d == Satisfy(l, c)
           lv == k + 1
           y == TryAddDecision(u, d, lv)
           t == Assign(s0, d, lv)
<1>1. Good(s0, k, "any") /\ u.map = x.map
  BY MarksGood
<1>2. x \in Tracker /\ Shape(s)
  BY GoodTracks
<1>3. u.stack = x.stack /\ u.propagate_index = x.propagate_index
  BY <1>2 DEF TakeSyncFloor, Tracker
<1>4. d \in Decision /\ d.variable = l.variable
  BY Satisfying
<1> HIDE DEF u, d
<1>5. s0.decision_tracker = u /\ s0.clauses = s.clauses /\ s0.negative_assertions = s.negative_assertions
      /\ s0.learnt_clause_ids = s.learnt_clause_ids
  BY <1>2 DEF Shape
<1> HIDE DEF s0
<1>6. u \in Tracker /\ Map(s0) = u.map /\ Map(s) = x.map /\ Shape(s0) /\ ListsOK(s0) /\ Sound(s0)
  BY <1>1, <1>5, GoodTracks, GoodSound DEF Map, Good, Core
<1>7. TryAddResult(u, d) = "added"
  BY <1>1, <1>4, <1>6 DEF TryAddResult
<1>8. t = [s0 EXCEPT !.decision_tracker = y]
  BY <1>5, <1>7 DEF Assign
<1>9. lv \in Nat \ {0} /\ k \in {lv - 1, lv} /\ k # lv
  OBVIOUS
<1> HIDE DEF lv
<1>10. Good(t, lv, "any") /\ t.clauses = s0.clauses /\ SameLists(s0, t)
  BY <1>1, <1>4, <1>9, GoodAssign
<1>11. Extends(u.map, y.map, lv) /\ (Pending(u, lv) => Pending(y, lv))
  BY <1>4, <1>6, <1>9, AssignExtends
<1> HIDE DEF y
<1>12. t.decision_tracker = y
  BY <1>6, <1>8 DEF Shape
<1> HIDE DEF t
<1>13. Pending(u, lv)
  <2>1. Len(u.stack) \in Nat /\ u.propagate_index \in Nat /\ ~(u.propagate_index < Len(u.stack))
    BY <1>3, <1>6, TrailEntries DEF HasUnpropagated
  <2> QED BY <2>1 DEF Pending
<1>14. t.negative_assertions = s0.negative_assertions /\ t.learnt_clause_ids = s0.learnt_clause_ids
       /\ SameClauses(s0.clauses, t.clauses)
  BY <1>10 DEF SameLists, SameClauses
<1>15. Extends(Map(s0), Map(t), lv)
  BY <1>6, <1>11, <1>12 DEF Map
<1>16. Asserted(s0, Len(s.negative_assertions)) /\ Learned(s0, Len(s.learnt_clause_ids))
  BY <1>1, <1>5, <1>6 DEF Settled, Asserted, Learned
<1>17. Asserted(t, Len(s.negative_assertions)) /\ Learned(t, Len(s.learnt_clause_ids))
  BY <1>6, <1>9, <1>14, <1>15, <1>16, SettledKept
<1>18. Recent(t, lv)
  <2>1. ListsOK(t) /\ Sound(t) /\ t.decision_tracker \in Tracker
    BY <1>10, GoodSound, GoodTracks DEF Good, Core
  <2>2. t.negative_assertions \in Seq(Variable \X Nat) /\ t.learnt_clause_ids \in Seq(Nat)
    BY <2>1 DEF ListsOK, AssertionsOK, LearntOK
  <2>3. ASSUME NEW i \in DOMAIN t.negative_assertions
        PROVE  ~IsTrue(Map(t), t.negative_assertions[i][1])
    <3>1. i <= Len(t.negative_assertions)
      BY <2>2
    <3>2. IsFalse(Map(t), t.negative_assertions[i][1])
      BY <1>5, <1>14, <1>17, <3>1 DEF Asserted
    <3>3. t.negative_assertions[i][1] \in Variable
      BY <2>1, AssertionsTyped
    <3>4. Map(t)[t.negative_assertions[i][1]] \in Int
      BY <2>1, <3>3, TrailEntries DEF Map
    <3> QED BY <3>2, <3>4 DEF IsTrue, IsFalse
  <2>4. ASSUME NEW i \in DOMAIN t.learnt_clause_ids, Len(t.clauses[t.learnt_clause_ids[i]].lits) = 1
        PROVE  ~LitFalse(Map(t), t.clauses[t.learnt_clause_ids[i]].lits[1])
    <3> DEFINE m == t.clauses[t.learnt_clause_ids[i]].lits[1]
    <3>1. i <= Len(t.learnt_clause_ids)
      BY <2>2
    <3>2. LitTrue(Map(t), m)
      BY <1>5, <1>14, <1>17, <2>4, <3>1 DEF Learned
    <3>3. m \in Literal
      BY <2>1, AssertionsTyped
    <3> HIDE DEF m
    <3>4. ~LitFalse(Map(t), m)
      BY <2>1, <3>2, <3>3, TruthValues DEF Map
    <3> QED BY <3>4 DEF m
  <2> QED BY <2>3, <2>4 DEF Recent
<1> QED BY <1>10, <1>12, <1>13, <1>11, <1>18 DEF t, lv, s0, u, d

\* A candidate is decided on, or none is open and the program panics.
LEMMA DecideStep ==
  ASSUME SolverInv, Decide PROVE SolverInv'
<1>1. Typed /\ Levels /\ Sound(st) /\ Propagated /\ pc = "decide"
  BY BeforePanic DEF Decide, At
<1>2. Good(st, level, "any") /\ level \in Nat \ {0}
  BY <1>1 DEF Levels, Typed, Working
<1>3. Settled(st) /\ ~HasUnpropagated(dt)
  BY <1>1 DEF Propagated, Settled
<1>4. UNCHANGED <<prob, starting_level, root_solvable, soft, result>>
  BY DEF Decide, run
<1>5. PICK c \in Eligible :
       IF OpenCandidates(c) = << >>
       THEN st' = [st EXCEPT !.panicked = TRUE] /\ UNCHANGED <<level, caller, pc, pos, cursor>>
       ELSE /\ st' = Assign([st EXCEPT !.decision_tracker = TakeSyncFloor(dt)],
                            Satisfy(OpenCandidates(c)[1], c), level + 1)
            /\ level' = level + 1
            /\ caller' = "learn"
            /\ StartPropagate
  BY DEF Decide
<1>6. c \in DOMAIN st.clauses
  BY <1>5 DEF Eligible
<1>7. CASE OpenCandidates(c) = << >>
  <2>1. st' = [st EXCEPT !.panicked = TRUE] /\ UNCHANGED <<level, pc, pos>>
    BY <1>5, <1>7
  <2>2. Shape(st)
    BY <1>2, GoodTracks
  <2>3. st'.panicked = TRUE /\ Sound(st')
    BY <1>1, <2>1, <2>2 DEF Sound, Shape
  <2>4. Typed' /\ Panicked'
    BY <1>1, <1>4, <2>1, <2>3 DEF Typed, Panicked
  <2> QED BY <2>3, <2>4 DEF SolverInv
<1>8. CASE OpenCandidates(c) # << >>
  <2> DEFINE l == OpenCandidates(c)[1]
  <2>1. l \in Literal /\ IsUndecided(Map(st), l.variable) /\ c \in Nat
    BY <1>2, <1>6, <1>8, OpenCandidatesTyped DEF map
  <2>2. /\ st' = Assign([st EXCEPT !.decision_tracker = TakeSyncFloor(st.decision_tracker)],
                        Satisfy(l, c), level + 1)
        /\ level' = level + 1 /\ caller' = "learn" /\ pc' = "assertions" /\ pos' = 1
    BY <1>5, <1>8 DEF StartPropagate, dt
  <2> HIDE DEF l
  <2>3. Good(st', level + 1, "any") /\ Pending(st'.decision_tracker, level + 1) /\ Recent(st', level + 1)
    BY <1>2, <1>3, <2>1, <2>2, DecideGood DEF dt
  <2>4. Typed'
    BY <1>1, <1>4, <2>2 DEF Typed, Working, Propagation
  <2>5. level' # 0 /\ Good(st, level, "any")' /\ Pending(dt, level)' /\ Recent(st, level)'
    BY <1>2, <2>2, <2>3 DEF dt
  <2> QED BY <2>2, <2>4, <2>5, Propagates
<1> QED BY <1>7, <1>8

----------------------------------------------------------------------------
(* The initial state                                                        *)

\* The trail is empty, the only clause is the install-root clause, which is on no
\* list, and nothing is queued.
LEMMA InitialGood ==
  Good(InitialState, 0, "any")
<1> DEFINE s == InitialState
           x == Clause("InstallRoot", << >>, << >>, << >>)
           K == <<x>>
<1>1. /\ s.decision_tracker = Clear /\ s.clauses = K /\ s.watches = EmptyHeads
      /\ s.negative_assertions = << >> /\ s.learnt_clause_ids = << >>
      /\ s.gate_requirers = [r \in Requirement |-> << >>] /\ s.conflicting_clauses = << >>
      /\ s.tasks = << >> /\ s.gates = << >> /\ s.pending_forbid_clauses = << >>
      /\ s.at_most_one_trackers = [n \in Name |-> [variables |-> << >>, helpers |-> 0]]
      /\ s.new_at_least_one_packages = << >> /\ s.deferred_requirements = << >>
      /\ Shape(s)
  BY DEF InitialState, Shape
<1>2. x.kind = "InstallRoot" /\ x.lits = << >> /\ x.watched = << >> /\ x \in ClauseType
  BY DEF Clause, ClauseType, ClauseKind
<1> HIDE DEF x
<1>3. K \in Seq(ClauseType) /\ DOMAIN K = {1} /\ K[1] = x
  BY <1>2
<1> HIDE DEF K, s
<1>4. ClausesOK(K)
  BY <1>2, <1>3 DEF ClausesOK, WellBuilt
<1>5. \A l : \A c : ~On(K, l, c)
  BY <1>2, <1>3 DEF On
<1>6. LinksOK(EmptyHeads, K)
  <2>1. EmptyHeads \in [Literal -> Nat] /\ \A l \in Literal : EmptyHeads[l] = 0
    BY DEF EmptyHeads, NoClause
  <2>2. LinksFrom(EmptyHeads, K)
    BY <1>5, <2>1 DEF LinksFrom
  <2> DEFINE rank == [l \in Literal |-> [c \in DOMAIN K |-> 0]]
  <2>3. rank \in [Literal -> [DOMAIN K -> Nat]] /\ Descends(K, rank)
    BY <1>5 DEF Descends
  <2> HIDE DEF rank
  <2> QED BY <2>1, <2>2, <2>3 DEF LinksOK
<1>7. /\ Clear \in Tracker /\ Clear.stack = << >> /\ \A v \in Variable : Clear.map[v] = 0
  BY SameTracker, Tr!ClearProperties
<1>8. TrailOK(Clear, K, 0)
  <2>1. Len(Clear.stack) = 0 /\ 1 .. 0 = {}
    BY <1>7
  <2>2. Consistent(Clear) /\ Explained(Clear, K)
    BY <1>7, <2>1 DEF Consistent, Explained, IsUndecided
  <2>3. TopLevel(Clear) = 0 /\ Bottom(Clear, 0)
    BY <1>7 DEF TopLevel, Bottom
  <2> QED BY <1>7, <2>2, <2>3 DEF TrailOK
<1>9. ListsOK(s)
  <2>1. DOMAIN << >> = {}
    OBVIOUS
  <2>2. AssertionsOK(<< >>, K) /\ LearntOK(<< >>, K) /\ ReportedOK(<< >>, K)
    BY <2>1 DEF AssertionsOK, LearntOK, ReportedOK
  <2>3. RequirersOK([r \in Requirement |-> << >>], K)
    BY <2>1 DEF RequirersOK
  <2> QED BY <1>1, <2>2, <2>3 DEF ListsOK
<1>10. Core(s, 0)
  BY <1>1, <1>4, <1>6, <1>8, <1>9 DEF Core
<1>11. TrackersOK(s.at_most_one_trackers)
  <2> DEFINE tr == [variables |-> << >>, helpers |-> 0]
  <2>1. tr \in TrackerType /\ tr.variables = << >> /\ tr.helpers = 0
    BY DEF TrackerType
  <2>2. \A n \in Name : TrackerOK(n, tr)
    <3>1. IsInjective(<< >>)
      BY DEF IsInjective
    <3> QED BY <2>1, <3>1 DEF TrackerOK
  <2> HIDE DEF tr
  <2> QED BY <1>1, <2>1, <2>2 DEF TrackersOK, tr
<1>12. Queues(s)
  BY <1>1, <1>11 DEF Queues
<1> QED BY <1>10, <1>12 DEF Good, s

\* The solver starts in a state of the invariant.
LEMMA InvariantStarts ==
  ASSUME Init PROVE SolverInv
<1>1. Good(st, 0, "any") /\ st.decision_tracker = Clear
  BY InitialGood DEF Init, InitialState
<1>2. Sound(st)
  BY <1>1, GoodSound
<1>3. TopLevel(dt) = 0
  BY <1>1, SameTracker, Tr!ClearProperties DEF TopLevel, dt
<1>4. Typed
  BY SolverAssumption DEF Init, Typed, Asker, NoResult
<1>5. Levels /\ Propagated /\ UpToDate /\ Analyzed
  BY <1>1, <1>3 DEF Init, Levels, Propagated, UpToDate, Analyzed, Propagation, Working
<1> QED BY <1>2, <1>4, <1>5 DEF SolverInv

\* Every step keeps it.
LEMMA InvariantKept ==
  ASSUME SolverInv, RootFirst, [Next]_vars PROVE SolverInv'
<1>1. CASE UNCHANGED vars
  <2>1. UNCHANGED <<dt, map, Panicked>>
    BY <1>1 DEF vars, dt, map, Panicked
  <2> QED BY <1>1, <2>1 DEF vars, SolverInv, Typed, Levels, Propagated, UpToDate, Analyzed, dt, map, Panicked
<1>2. CASE Next
  BY <1>2, RunSatStep, InstallStep, ContinueStep, EncodeStep, EncodeConflictStep, EncodeReturnsStep,
     ExpandStep, CancelStep, AssertionsStep, LearnedStep, NextStep, EndStep, VisitStep,
     RunSatConflictStep, LearnFromConflictStep, ProcessStep, CauseStep, PopStep, LearnStep,
     DecideStep, NothingStep, SoftStep, SolutionStep
  DEF Next
<1> QED BY <1>1, <1>2

----------------------------------------------------------------------------
(* Walks along the watch lists                                              *)

\* The loop of a walk along the list of literal l: it stands at clauses of the
\* list, each the successor of the one before and lower in rank, and has either
\* come to the end or taken a step in every round.
WalkDef(H, K, l, d, f, S) ==
  IF S = {} THEN <<NodeIn(K, l, H[l])>>
  ELSE LET w == f[S \ {Max(S)}]
           node == Last(w)
       IN IF node = NoNode THEN w
          ELSE Append(w, NodeIn(K, l, K[node.clause].next_watches[node.index]))
Linked(K, start, w) ==
  /\ w \in Seq(Node) /\ w # << >> /\ w[1] = start.node
  /\ \A i \in 1 .. Len(w) : w[i] # NoNode => w[i].clause # 0 /\ At2(K, start.literal, w[i])
  /\ \A i \in 1 .. Len(w) - 1 :
       /\ w[i] # NoNode
       /\ w[i + 1] = NodeIn(K, start.literal, Succ(K, start.literal, w[i].clause))
  /\ \A i, j \in 1 .. Len(w) :
       i < j /\ w[j] # NoNode => start.rank[w[j].clause] < start.rank[w[i].clause]
Walked(K, start, S, w) ==
  /\ Linked(K, start, w)
  /\ IsFiniteSet(S) /\ (Last(w) = NoNode \/ Len(w) = Cardinality(S) + 1)
Walks == INSTANCE Recursion WITH Def <- WalkDef, P <- Walked

\* A round of the walk.
LEMMA WalkRound ==
  ASSUME NEW K, NEW start, NEW l \in Literal, start.literal = l,
         NEW w, Linked(K, start, w), Last(w) # NoNode,
         \A c \in DOMAIN K : start.rank[c] \in Nat,
         \A c \in DOMAIN K : On(K, l, c) =>
           /\ Succ(K, l, c) \in Nat
           /\ Succ(K, l, c) # 0 => On(K, l, Succ(K, l, c)) /\ start.rank[Succ(K, l, c)] < start.rank[c]
  PROVE  LET u == Append(w, NodeIn(K, l, K[Last(w).clause].next_watches[Last(w).index]))
         IN Linked(K, start, u) /\ Len(u) = Len(w) + 1
<1> DEFINE n == Len(w)
           c == Last(w).clause
           node == NodeIn(K, l, K[c].next_watches[Last(w).index])
           u == Append(w, node)
<1>1. n \in Nat /\ n >= 1 /\ w \in Seq(Node) /\ Last(w) = w[n] /\ n \in 1 .. n
  BY DEF Linked, Last
<1>2. c # 0 /\ On(K, l, c) /\ c \in DOMAIN K /\ Last(w).index = Place(K, l, c)
  BY <1>1 DEF Linked, At2, On
<1> HIDE DEF c
<1>3. node = NodeIn(K, l, Succ(K, l, c))
  BY <1>2 DEF Succ, c
<1> HIDE DEF node
<1>4. /\ node \in Node /\ node.clause = Succ(K, l, c)
      /\ node # NoNode => /\ node.clause # 0 /\ At2(K, l, node)
                          /\ start.rank[node.clause] < start.rank[c]
  <2> DEFINE id == Succ(K, l, c)
  <2>1. id \in Nat /\ (id # 0 => On(K, l, id) /\ start.rank[id] < start.rank[c]) /\ node = NodeIn(K, l, id)
    BY <1>2, <1>3
  <2> HIDE DEF id
  <2> QED BY <2>1, NodeOf DEF id
<1>5. /\ u \in Seq(Node) /\ Len(u) = n + 1 /\ u[n + 1] = node /\ u # << >>
      /\ \A i \in 1 .. n : u[i] = w[i]
  BY <1>1, <1>4
<1> HIDE DEF u, n
<1>6. u[1] = start.node
  BY <1>1, <1>5 DEF Linked
<1>7. \A i \in 1 .. n + 1 : i \in 1 .. n \/ i = n + 1
  BY <1>1
<1>8. \A i \in 1 .. Len(u) : u[i] # NoNode => u[i].clause # 0 /\ At2(K, l, u[i])
  BY <1>4, <1>5, <1>7 DEF Linked, n
<1>9. \A i \in 1 .. Len(u) - 1 : u[i] # NoNode /\ u[i + 1] = NodeIn(K, l, Succ(K, l, u[i].clause))
  <2> SUFFICES ASSUME NEW i \in 1 .. n
               PROVE  u[i] # NoNode /\ u[i + 1] = NodeIn(K, l, Succ(K, l, u[i].clause))
    BY <1>1, <1>5
  <2>1. CASE i = n
    BY <1>1, <1>3, <1>5, <2>1 DEF c
  <2>2. CASE i # n
    <3>1. i \in 1 .. n - 1 /\ i + 1 \in 1 .. n
      BY <1>1, <2>2
    <3> QED BY <1>5, <3>1 DEF Linked, n
  <2> QED BY <2>1, <2>2
<1>10. \A i, j \in 1 .. Len(u) : i < j /\ u[j] # NoNode => start.rank[u[j].clause] < start.rank[u[i].clause]
  <2> SUFFICES ASSUME NEW i \in 1 .. n, NEW j \in 1 .. n + 1, i < j, u[j] # NoNode
               PROVE  start.rank[u[j].clause] < start.rank[u[i].clause]
    BY <1>1, <1>5, <1>7
  <2>1. CASE j \in 1 .. n
    BY <1>5, <2>1 DEF Linked, n
  <2>2. CASE j = n + 1
    <3>1. start.rank[node.clause] < start.rank[c]
      BY <1>4, <1>5, <2>2
    <3>2. CASE i = n
      BY <1>1, <1>5, <2>2, <3>1, <3>2 DEF c
    <3>3. CASE i # n
      <4>1. i < n /\ w[n] # NoNode /\ w[i] # NoNode
        BY <1>1, <3>3 DEF Linked, n
      <4>2. start.rank[c] < start.rank[w[i].clause]
        BY <1>1, <4>1 DEF Linked, n, c
      <4>3. w[i].clause \in DOMAIN K /\ node.clause \in DOMAIN K
        BY <1>4, <1>5, <2>2, <4>1 DEF Linked, n, At2, On
      <4>4. start.rank[w[i].clause] \in Nat /\ start.rank[node.clause] \in Nat /\ start.rank[c] \in Nat
        BY <1>2, <4>3
      <4>5. u[i] = w[i] /\ u[j] = node
        BY <1>5, <2>2
      <4> QED BY <3>1, <4>2, <4>4, <4>5
    <3> QED BY <3>2, <3>3
  <2> QED BY <1>7, <2>1, <2>2
<1>11. Linked(K, start, u)
  BY <1>5, <1>6, <1>8, <1>9, <1>10 DEF Linked
<1> QED BY <1>5, <1>11 DEF u, node, c, n

\* A walk along a list ends, and what it meets is linked.
LEMMA WalkEnds ==
  ASSUME NEW H, NEW K, ClausesOK(K), LinksOK(H, K), NEW l \in Literal,
         NEW r \in [DOMAIN K -> Nat],
         \A c \in DOMAIN K : On(K, l, c) /\ Succ(K, l, c) # 0 => r[Succ(K, l, c)] < r[c]
  PROVE  LET w == Walk(H, K, l)
         IN /\ Linked(K, [literal |-> l, node |-> NodeIn(K, l, H[l]), rank |-> r], w)
            /\ Last(w) = NoNode
<1> DEFINE start == [literal |-> l, node |-> NodeIn(K, l, H[l]), rank |-> r]
           n == Len(K)
           w == Walks!Loop(H, K, l, 0, n)
<1>1. K \in Seq(ClauseType) /\ n \in Nat /\ DOMAIN K = 1 .. n
  BY DEF ClausesOK
<1> HIDE DEF n
<1>2. /\ H[l] \in Nat /\ (H[l] # 0 => On(K, l, H[l]))
      /\ \A c \in DOMAIN K : On(K, l, c) =>
           /\ Succ(K, l, c) \in Nat
           /\ Succ(K, l, c) # 0 => On(K, l, Succ(K, l, c)) /\ r[Succ(K, l, c)] < r[c]
  BY DEF LinksOK, LinksFrom
<1>3. start.literal = l /\ start.node = NodeIn(K, l, H[l]) /\ start.rank = r
  OBVIOUS
<1> HIDE DEF start
<1>4. Linked(K, start, <<NodeIn(K, l, H[l])>>)
  <2> DEFINE node == NodeIn(K, l, H[l])
  <2>1. node \in Node /\ (node # NoNode => node.clause # 0 /\ At2(K, l, node))
    <3> DEFINE id == H[l]
    <3>1. id \in Nat /\ (id # 0 => On(K, l, id)) /\ node = NodeIn(K, l, id)
      BY <1>2
    <3> HIDE DEF id
    <3> QED BY <3>1, NodeOf DEF id
  <2>2. node = start.node
    BY <1>3
  <2> HIDE DEF node
  <2> QED BY <1>3, <2>1, <2>2 DEF Linked
<1>5. Walks!Rounds(H, K, l, 0, n)
  BY DEF Walks!Rounds, WalkDef, Walks!Max, Max
<1>6. ASSUME NEW f, NEW S \in SUBSET (1 .. n),
             S # {} => Max(S) \in S /\ Walked(K, start, S \ {Max(S)}, f[S \ {Max(S)}])
      PROVE  Walked(K, start, S, WalkDef(H, K, l, 0, f, S))
  <2>1. IsFiniteSet(S)
    <3>1. IsFiniteSet(1 .. n)
      BY <1>1, FS_Interval
    <3> QED BY <3>1, FS_Subset
  <2>2. CASE S = {}
    <3>1. Cardinality(S) = 0
      BY <2>2, FS_EmptySet
    <3> QED BY <1>4, <2>1, <2>2, <3>1 DEF Walked, WalkDef
  <2>3. CASE S # {}
    <3> DEFINE x == Max(S)
               T == S \ {x}
               v == f[T]
    <3>1. x \in S /\ Walked(K, start, T, v)
      BY <1>6, <2>3
    <3>2. Cardinality(T) = Cardinality(S) - 1 /\ Cardinality(S) \in Nat
      BY <2>1, <3>1, FS_RemoveElement, FS_CardinalityType
    <3>3. WalkDef(H, K, l, 0, f, S) =
            IF Last(v) = NoNode THEN v
            ELSE Append(v, NodeIn(K, l, K[Last(v).clause].next_watches[Last(v).index]))
      BY <2>3 DEF WalkDef
    <3> HIDE DEF x, T, v
    <3>4. CASE Last(v) = NoNode
      BY <2>1, <3>1, <3>3, <3>4 DEF Walked
    <3>5. CASE Last(v) # NoNode
      <4> DEFINE u == Append(v, NodeIn(K, l, K[Last(v).clause].next_watches[Last(v).index]))
      <4>1. Linked(K, start, u) /\ Len(u) = Len(v) + 1
        BY <1>2, <1>3, <3>1, <3>5, WalkRound DEF Walked
      <4>2. Len(v) = Cardinality(T) + 1
        BY <3>1, <3>5 DEF Walked
      <4> HIDE DEF u
      <4>3. Len(u) = Cardinality(S) + 1
        BY <3>2, <4>1, <4>2
      <4>4. WalkDef(H, K, l, 0, f, S) = u
        BY <3>3, <3>5 DEF u
      <4> QED BY <2>1, <4>1, <4>3, <4>4 DEF Walked
    <3> QED BY <3>4, <3>5
  <2> QED BY <2>2, <2>3
<1>7. Walks!Keeps(H, K, l, 0, n, K, start)
  BY <1>6 DEF Walks!Keeps, Walks!Max, Max
<1>8. Walked(K, start, 1 .. n, w)
  BY <1>1, <1>5, <1>7, Walks!FoldInduction, Tr!LeastNatural DEF Walks!WellOrdered
<1>9. Walk(H, K, l) = w
  BY <1>1 DEF Walk, FoldLeft, MapThenFoldSet, Walks!Loop, Walks!Fix, WalkDef
<1> HIDE DEF w
<1>10. IsFiniteSet(1 .. n) /\ Cardinality(1 .. n) = n
  <2>1. IsFiniteSet(1 .. n) /\ Cardinality(1 .. n) = IF 1 > n THEN 0 ELSE n - 1 + 1
    BY <1>1, FS_Interval
  <2> QED BY <1>1, <2>1
<1>11. Last(w) = NoNode
  <2> SUFFICES ASSUME Last(w) # NoNode PROVE FALSE
    OBVIOUS
  <2>1. Linked(K, start, w) /\ Len(w) = n + 1
    BY <1>8, <1>10 DEF Walked
  <2>2. w[n + 1] # NoNode
    BY <2>1 DEF Last
  <2>3. \A i \in 1 .. n + 1 : w[i] # NoNode /\ w[i].clause \in 1 .. n
    <3> SUFFICES ASSUME NEW i \in 1 .. n + 1 PROVE w[i] # NoNode /\ w[i].clause \in 1 .. n
      OBVIOUS
    <3>1. w[i] # NoNode
      <4>1. CASE i = n + 1
        BY <2>2, <4>1
      <4>2. CASE i # n + 1
        <5>1. i \in 1 .. Len(w) - 1
          BY <1>1, <2>1, <4>2
        <5> QED BY <2>1, <5>1 DEF Linked
      <4> QED BY <4>1, <4>2
    <3>2. At2(K, l, w[i])
      BY <1>3, <2>1, <3>1 DEF Linked
    <3> QED BY <1>1, <3>1, <3>2 DEF At2, On
  <2> DEFINE g == [i \in 1 .. n + 1 |-> w[i].clause]
  <2>4. ASSUME NEW i \in 1 .. n + 1, NEW j \in 1 .. n + 1, i < j PROVE w[i].clause # w[j].clause
    <3>1. r[w[j].clause] < r[w[i].clause]
      BY <1>3, <2>1, <2>3, <2>4 DEF Linked
    <3>2. r[w[j].clause] \in Nat /\ r[w[i].clause] \in Nat
      BY <1>1, <2>3
    <3> QED BY <3>1, <3>2
  <2>5. g \in Injection(1 .. n + 1, 1 .. n)
    <3>1. \A i, j \in 1 .. n + 1 : i # j => i < j \/ j < i
      BY <1>1
    <3>2. g \in [1 .. n + 1 -> 1 .. n] /\ \A i \in 1 .. n + 1 : g[i] = w[i].clause
      BY <2>3
    <3> HIDE DEF g
    <3>3. \A i, j \in 1 .. n + 1 : g[i] = g[j] => i = j
      BY <2>4, <3>1, <3>2
    <3> QED BY <3>2, <3>3 DEF Injection, IsInjective
  <2> HIDE DEF g
  <2>6. Cardinality(1 .. n + 1) = n + 1
    <3>1. Cardinality(1 .. n + 1) = IF 1 > n + 1 THEN 0 ELSE n + 1 - 1 + 1
      BY <1>1, FS_Interval
    <3> QED BY <1>1, <3>1
  <2>7. Cardinality(1 .. n + 1) <= Cardinality(1 .. n)
    BY <1>10, <2>5, FS_Injection
  <2> QED BY <1>1, <1>10, <2>6, <2>7
<1> QED BY <1>8, <1>9, <1>11 DEF Walked, start

\* It meets every clause of the list once, and no other.
LEMMA WalkMeetsAll ==
  ASSUME NEW H, NEW K, ClausesOK(K), LinksOK(H, K), NEW l \in Literal
  PROVE  LET w == Walk(H, K, l)
         IN /\ Last(w) = NoNode /\ IsInjective(w)
            /\ {w[i].clause : i \in 1 .. Len(w) - 1} = {c \in DOMAIN K : On(K, l, c)}
<1> DEFINE w == Walk(H, K, l)
           n == Len(w) - 1
<1>1. PICK rank \in [Literal -> [DOMAIN K -> Nat]] : Descends(K, rank)
  BY DEF LinksOK
<1> DEFINE r == rank[l]
           start == [literal |-> l, node |-> NodeIn(K, l, H[l]), rank |-> r]
<1>2. /\ r \in [DOMAIN K -> Nat]
      /\ \A c \in DOMAIN K : On(K, l, c) /\ Succ(K, l, c) # 0 => r[Succ(K, l, c)] < r[c]
  BY <1>1 DEF Descends
<1> HIDE DEF r
<1>3. Linked(K, start, w) /\ Last(w) = NoNode
  BY <1>2, WalkEnds
<1>4. start.literal = l /\ start.node = NodeIn(K, l, H[l]) /\ start.rank = r
  OBVIOUS
<1> HIDE DEF start, w
<1>5. w \in Seq(Node) /\ n \in Nat /\ Len(w) = n + 1 /\ DOMAIN w = 1 .. n + 1 /\ w[n + 1] = NoNode
  BY <1>3 DEF Linked, Last
<1> HIDE DEF n
<1>6. \A i \in 1 .. n : /\ w[i] # NoNode /\ w[i].clause # 0 /\ On(K, l, w[i].clause)
                        /\ w[i + 1] = NodeIn(K, l, Succ(K, l, w[i].clause))
  <2>1. \A i \in 1 .. n : i \in 1 .. Len(w) /\ i \in 1 .. Len(w) - 1
    BY <1>5
  <2> QED BY <1>3, <1>4, <2>1 DEF Linked, At2
<1>7. IsInjective(w)
  <2>1. ASSUME NEW i \in 1 .. n + 1, NEW j \in 1 .. n + 1, i < j PROVE w[i] # w[j]
    <3>1. i \in 1 .. n /\ w[i] # NoNode
      BY <1>5, <1>6, <2>1
    <3>2. CASE w[j] = NoNode
      BY <3>1, <3>2
    <3>3. CASE w[j] # NoNode
      <4>1. j \in 1 .. n
        BY <1>5, <3>3
      <4>2. r[w[j].clause] < r[w[i].clause]
        BY <1>3, <1>4, <1>5, <2>1, <3>3 DEF Linked
      <4>3. r[w[j].clause] \in Nat
        BY <1>2, <1>6, <4>1 DEF On
      <4> QED BY <4>2, <4>3
    <3> QED BY <3>2, <3>3
  <2>2. \A i, j \in 1 .. n + 1 : i # j => i < j \/ j < i
    BY <1>5
  <2> QED BY <1>5, <2>1, <2>2 DEF IsInjective
<1> DEFINE M == {w[i].clause : i \in 1 .. n}
           O == {c \in DOMAIN K : On(K, l, c)}
<1>8. M \subseteq O
  BY <1>6 DEF On
<1>9. O \subseteq M
  <2> DEFINE C == O \ M
             Above(c) == {d \in C : r[c] < r[d]}
             N == {Cardinality(Above(c)) : c \in C}
  <2> SUFFICES ASSUME C # {} PROVE FALSE
    OBVIOUS
  <2>1. IsFiniteSet(C) /\ C \subseteq DOMAIN K /\ \A c \in C : c # 0
    <3>1. K \in Seq(ClauseType)
      BY DEF ClausesOK
    <3>2. DOMAIN K = 1 .. Len(K) /\ Len(K) \in Int
      BY <3>1
    <3>3. IsFiniteSet(1 .. Len(K))
      BY <3>2, FS_Interval
    <3> QED BY <3>2, <3>3, FS_Subset
  <2>2. \A c \in C : IsFiniteSet(Above(c)) /\ Cardinality(Above(c)) \in Nat
    BY <2>1, FS_Subset, FS_CardinalityType
  <2>3. PICK c \in C : \A d \in C : Cardinality(Above(c)) <= Cardinality(Above(d))
    <3> HIDE DEF C, Above
    <3>1. N \subseteq Nat /\ N # {}
      BY <2>2
    <3>2. PICK k \in N : \A m \in N : k <= m
      <4> HIDE DEF N
      <4> QED BY <3>1, Tr!LeastNatural
    <3> QED BY <3>2
  <2>4. H[l] = c \/ \E d \in DOMAIN K : On(K, l, d) /\ Succ(K, l, d) = c
    BY DEF LinksOK, LinksFrom
  <2>5. H[l] # c
    <3> SUFFICES ASSUME H[l] = c PROVE FALSE
      OBVIOUS
    <3>1. c # 0 /\ On(K, l, c) /\ c \in Nat
      BY <2>1 DEF LinksOK
    <3>2. NodeIn(K, l, c).clause = c /\ NodeIn(K, l, c) # NoNode
      BY <3>1, NodeOf DEF NoNode, NoClause
    <3>3. w[1] = NodeIn(K, l, c)
      BY <1>3, <1>4 DEF Linked
    <3>4. 1 \in 1 .. n
      BY <1>5, <3>2, <3>3
    <3>5. c \in M
      BY <3>2, <3>3, <3>4
    <3> QED BY <3>5
  <2>6. PICK d \in DOMAIN K : On(K, l, d) /\ Succ(K, l, d) = c
    BY <2>4, <2>5
  <2>7. d \notin M
    <3> SUFFICES ASSUME NEW i \in 1 .. n, d = w[i].clause PROVE FALSE
      OBVIOUS
    <3>1. c # 0 /\ On(K, l, c) /\ c \in Nat
      BY <2>1, <2>6 DEF LinksOK, LinksFrom
    <3>2. NodeIn(K, l, c).clause = c /\ NodeIn(K, l, c) # NoNode
      BY <3>1, NodeOf DEF NoNode, NoClause
    <3>3. w[i + 1] = NodeIn(K, l, c)
      BY <1>6, <2>6
    <3>4. i + 1 \in 1 .. n
      BY <1>5, <3>2, <3>3
    <3>5. c \in M
      BY <3>2, <3>3, <3>4
    <3> QED BY <3>5
  <2>8. d \in C /\ r[c] < r[d]
    BY <1>2, <2>1, <2>6, <2>7
  <2>9. Above(d) \subseteq Above(c) /\ d \in Above(c) /\ d \notin Above(d)
    <3>1. \A e \in C : r[e] \in Nat
      BY <1>2
    <3> HIDE DEF C
    <3> QED BY <2>8, <3>1
  <2>10. Cardinality(Above(d)) < Cardinality(Above(c))
    <3> HIDE DEF Above
    <3>1. /\ Cardinality(Above(d)) <= Cardinality(Above(c)) /\ Cardinality(Above(d)) # Cardinality(Above(c))
          /\ Cardinality(Above(d)) \in Nat /\ Cardinality(Above(c)) \in Nat
      BY <2>2, <2>8, <2>9, FS_Subset
    <3> QED BY <3>1
  <2> HIDE DEF Above, C
  <2> QED BY <2>2, <2>3, <2>8, <2>10
<1> QED BY <1>3, <1>5, <1>7, <1>8, <1>9 DEF n, w

\* The watch lists are exact when they are linked.
LEMMA LinkedExactly ==
  ASSUME NEW H, NEW K, ClausesOK(K), LinksOK(H, K)
  PROVE  ListsAreExact(H, K)
<1> DEFINE W(l) == Walk(H, K, l)
           heads == {m \in DOMAIN H : H[m] # NoClause}
           lists == {<<l, W(l)>> : l \in heads}
           Met(l, walk) == {<<l, walk[i].clause>> : i \in 1 .. Len(walk) - 1}
           Watching == UNION {{<<l, c>> : l \in ToSet(K[c].watched)} : c \in DOMAIN K}
<1>1. /\ DOMAIN H = Literal /\ heads \subseteq Literal /\ \A l \in Literal : H[l] = 0 <=> l \notin heads
      /\ K \in Seq(ClauseType) /\ \A c \in DOMAIN K : WellBuilt(K[c])
  BY DEF LinksOK, NoClause, ClausesOK
<1>2. \A l \in Literal : /\ Last(W(l)) = NoNode /\ IsInjective(W(l))
                         /\ {W(l)[i].clause : i \in 1 .. Len(W(l)) - 1} = {c \in DOMAIN K : On(K, l, c)}
  BY WalkMeetsAll
<1> HIDE DEF W
<1>3. \A l : \A c \in DOMAIN K : On(K, l, c) <=> l \in ToSet(K[c].watched)
  <2> SUFFICES ASSUME NEW c \in DOMAIN K PROVE \A l : On(K, l, c) <=> l \in ToSet(K[c].watched)
    OBVIOUS
  <2> DEFINE q == K[c].watched
  <2>0. K[c] \in ClauseType
    BY <1>1
  <2>1. q \in Seq(Literal) /\ WellBuilt(K[c])
    BY <1>1, <2>0 DEF ClauseType
  <2>2. CASE q = << >>
    BY <2>2, ShortSequences DEF On
  <2>3. CASE q # << >>
    <3>1. Len(q) = 2
      BY <2>1, <2>3 DEF WellBuilt
    <3> HIDE DEF q
    <3>2. DOMAIN q = {1, 2}
      BY <2>1, <3>1
    <3>3. ToSet(q) = {q[1], q[2]}
      BY <3>2 DEF ToSet
    <3> QED BY <2>3, <3>3 DEF On, q
  <2> QED BY <2>2, <2>3
<1>4. \A l \in Literal : \A c \in DOMAIN K : On(K, l, c) => l \in heads
  <2> SUFFICES ASSUME NEW l \in Literal, NEW c \in DOMAIN K, On(K, l, c), H[l] = 0 PROVE FALSE
    BY <1>1
  <2>1. \A d \in DOMAIN K : On(K, l, d) => d # 0 /\ \E e \in DOMAIN K : On(K, l, e) /\ Succ(K, l, e) = d
    <3>1. 0 \notin DOMAIN K
      BY <1>1
    <3> QED BY <3>1 DEF LinksOK, LinksFrom
  <2> DEFINE w == W(l)
  <2>2. c \in {w[i].clause : i \in 1 .. Len(w) - 1}
    BY <1>2
  <2>3. PICK rank \in [Literal -> [DOMAIN K -> Nat]] : Descends(K, rank)
    BY DEF LinksOK
  <2>4. Linked(K, [literal |-> l, node |-> NodeIn(K, l, H[l]), rank |-> rank[l]], w)
    BY <2>3, WalkEnds DEF Descends, W
  <2>5. w[1] = NoNode
    BY <2>4 DEF Linked, NodeIn, NoClause
  <2>6. Len(w) \in Nat /\ Len(w) - 1 >= 1
    <3>1. Len(w) \in Nat
      BY <2>4 DEF Linked
    <3> QED BY <2>2, <3>1
  <2> QED BY <2>4, <2>5, <2>6 DEF Linked
<1>5. \A x \in lists : Last(x[2]) = NoNode /\ IsInjective(x[2])
  BY <1>1, <1>2
<1>6. \A l \in Literal : Met(l, W(l)) = {<<l, c>> : c \in {e \in DOMAIN K : On(K, l, e)}}
  BY <1>2
<1>7. UNION {Met(x[1], x[2]) : x \in lists} = Watching
  <2>1. UNION {Met(x[1], x[2]) : x \in lists} = UNION {Met(l, W(l)) : l \in heads}
    <3> HIDE DEF heads, Met
    <3>1. \A l : <<l, W(l)>>[1] = l /\ <<l, W(l)>>[2] = W(l)
      OBVIOUS
    <3> DEFINE M(x) == Met(x[1], x[2])
    <3>2. \A l : M(<<l, W(l)>>) = Met(l, W(l))
      BY <3>1
    <3> HIDE DEF M
    <3>3. {M(x) : x \in lists} = {Met(l, W(l)) : l \in heads}
      BY <3>2, Zenon
    <3> QED BY <3>3 DEF M
  <2> HIDE DEF lists, Met
  <2>2. ASSUME NEW p \in UNION {Met(l, W(l)) : l \in heads} PROVE p \in Watching
    <3>1. PICK l \in heads : p \in Met(l, W(l))
      OBVIOUS
    <3>2. PICK c \in DOMAIN K : On(K, l, c) /\ p = <<l, c>>
      BY <1>1, <1>6, <3>1
    <3> QED BY <1>3, <3>2
  <2>3. ASSUME NEW p \in Watching PROVE p \in UNION {Met(l, W(l)) : l \in heads}
    <3>1. PICK c \in DOMAIN K : p \in {<<l, c>> : l \in ToSet(K[c].watched)}
      OBVIOUS
    <3>2. PICK l \in ToSet(K[c].watched) : p = <<l, c>>
      BY <3>1
    <3>3. l \in Literal
      <4>0. K[c] \in ClauseType
        BY <1>1
      <4>1. K[c].watched \in Seq(Literal)
        BY <4>0 DEF ClauseType
      <4> QED BY <4>1, ToSetType
    <3>4. On(K, l, c) /\ l \in heads
      BY <1>3, <1>4, <3>3
    <3>5. p \in Met(l, W(l))
      BY <1>6, <3>2, <3>3, <3>4
    <3> QED BY <3>4, <3>5
  <2> HIDE DEF heads, Watching
  <2> QED BY <2>1, <2>2, <2>3
<1>8. /\ \A x \in lists : Last(x[2]) = NoNode /\ IsInjective(x[2])
      /\ UNION {Met(x[1], x[2]) : x \in lists} = Watching
  BY <1>5, <1>7
<1> QED BY <1>8 DEF ListsAreExact, W

----------------------------------------------------------------------------
(* What the invariant says                                                  *)

----------------------------------------------------------------------------
(* analyze_unsolvable                                                       *)

\* Where an assignment differs from an entry of the trail.
Differs(A, d) == (d.variable \in A) # d.value

\* One entry of the trail, from the last to the first, and the loop over them.
\* After k rounds whatever satisfies the clauses of the core differs from an
\* involved entry that is still to come.
UnexplainedIn(s, d) ==
  \/ d.derived_from = InstallRootClause
  \/ \E l \in ToSet(s.clauses[d.derived_from].lits) : LitTrue(Map(s), l) /\ l.variable # d.variable
VarsIn(s, c) == {s.clauses[c].lits[i].variable : i \in DOMAIN s.clauses[c].lits}
ExplainIn(s, acc, d) ==
  IF d.variable = RootVar \/ d.variable \notin acc.involved THEN acc
  ELSE [involved |-> acc.involved \cup VarsIn(s, d.derived_from),
        core |-> AddToConflict(acc.core, CausesIn(s.clauses)[d.derived_from]),
        panics |-> acc.panics \/ UnexplainedIn(s, d)]
ExplainDef(acc, q, s, d, f, S) ==
  IF S = {} THEN acc ELSE ExplainIn(s, f[S \ {Max(S)}], q[Max(S)])
Reaching(s, acc, k) ==
  LET stack == s.decision_tracker.stack
  IN /\ acc.core \in Seq(Nat)
     /\ \A A : RootVar \in A /\ (\A w \in ToSet(acc.core) \ {InstallRootClause} : Sat(A, s.clauses[w].lits))
               => \E i \in 1 .. Len(stack) - k : stack[i].variable \in acc.involved /\ Differs(A, stack[i])
Reaches(s, e, S, acc) ==
  \A k \in 0 .. Len(s.decision_tracker.stack) : S = 1 .. k => Reaching(s, acc, k)
Explains == INSTANCE Recursion WITH Def <- ExplainDef, P <- Reaches

\* The clauses of a Conflict and the causes added to it.
LEMMA ConflictAdds ==
  ASSUME NEW core \in Seq(Nat), NEW ids \in Seq(Nat)
  PROVE  AddToConflict(core, ids) \in Seq(Nat) /\ ToSet(AddToConflict(core, ids)) = ToSet(core) \cup ToSet(ids)
<1>1. DOMAIN ids = 1 .. Len(ids)
  OBVIOUS
<1>2. AddToConflict(core, ids) = Collect!Loop(core, ids, 0, 0, Len(ids))
  BY <1>1 DEF AddToConflict, FoldLeft, MapThenFoldSet, Collect!Loop, Collect!Fix, CollectDef
<1> QED BY <1>2, CollectedAll

\* On a trail of one level every entry but the first follows from its reason.
LEMMA OneLevel ==
  ASSUME NEW x, NEW K, TrailOK(x, K, 1), NEW i \in 1 .. Len(x.stack), i # 1
  PROVE  Follows(x, K, i)
<1> DEFINE n == Len(x.stack)
<1>1. x \in Tracker /\ Consistent(x) /\ Bottom(x, 1) /\ TopLevel(x) <= 1 /\ Explained(x, K)
  BY DEF TrailOK
<1>2. n \in Nat /\ \A j \in 1 .. n : LevelOf(x.map, x.stack[j].variable) \in Nat
  BY <1>1, TrailEntries
<1>3. x.stack # << >> /\ TopLevel(x) = LevelOf(x.map, x.stack[n].variable)
  BY <1>2 DEF TopLevel
<1>4. \A j, k \in 1 .. n : j < k => LevelOf(x.map, x.stack[j].variable) <= LevelOf(x.map, x.stack[k].variable)
  BY <1>1 DEF Consistent
<1>5. LevelOf(x.map, x.stack[1].variable) = 1
  BY <1>1, <1>3 DEF Bottom
<1> HIDE DEF n
<1>6. i \in 1 .. n /\ 1 \in 1 .. n /\ n \in 1 .. n /\ i - 1 \in 1 .. n /\ i - 1 < i
  BY <1>2 DEF n
<1>7. LevelOf(x.map, x.stack[i].variable) <= 1
  <2>1. CASE i = n
    BY <1>1, <1>3, <2>1
  <2>2. CASE i < n
    <3>1. LevelOf(x.map, x.stack[i].variable) <= LevelOf(x.map, x.stack[n].variable)
      BY <1>4, <1>6, <2>2
    <3> QED BY <1>1, <1>2, <1>3, <1>6, <3>1
  <2> QED BY <1>6, <2>1, <2>2
<1>8. LevelOf(x.map, x.stack[i - 1].variable) >= 1
  <2>1. CASE i - 1 = 1
    BY <1>5, <2>1
  <2>2. CASE 1 < i - 1
    BY <1>4, <1>5, <1>6, <2>2
  <2> QED BY <1>6, <2>1, <2>2
<1>9. ~Opens(x, i)
  BY <1>2, <1>6, <1>7, <1>8 DEF Opens
<1> QED BY <1>1, <1>9 DEF Explained

\* A variable cannot differ from a value and from the other one.
LEMMA NotBoth ==
  ASSUME NEW A, NEW v, NEW b \in BOOLEAN, (v \in A) # b, NEW m, m = ~b
  PROVE  ~((v \in A) # m)
  OBVIOUS

\* One round of the loop.
LEMMA ExplainRound ==
  ASSUME NEW s, Good(s, 1, "any"), NEW k \in 1 .. Len(s.decision_tracker.stack),
         NEW acc, Reaching(s, acc, k - 1)
  PROVE  Reaching(s, ExplainIn(s, acc, s.decision_tracker.stack[Len(s.decision_tracker.stack) + 1 - k]), k)
<1> DEFINE x == s.decision_tracker
           n == Len(x.stack)
           K == s.clauses
           p == n + 1 - k
           d == x.stack[p]
           c == d.derived_from
           ids == CausesIn(K)[c]
           new == ExplainIn(s, acc, d)
<1>1. x \in Tracker /\ Consistent(x) /\ TrailOK(x, K, 1) /\ ClausesOK(K) /\ Bottom(x, 1)
  BY DEF Good, Core, TrailOK
<1>2. n \in Nat /\ \A i \in 1 .. n : x.stack[i] \in Decision /\ x.stack[i].value \in BOOLEAN
  BY <1>1, TrailEntries
<1>3. p \in 1 .. n /\ 1 \in 1 .. n /\ n - (k - 1) = p /\ n - k = p - 1
  BY <1>2
<1>4. IsRoot(x.stack[1])
  <2>1. x.stack # << >>
    BY <1>2, <1>3
  <2> QED BY <1>1, <2>1 DEF Bottom
<1>5. d.variable = RootVar => p = 1
  <2>1. \A i, j \in 1 .. n : i < j => x.stack[i].variable # x.stack[j].variable
    BY <1>1 DEF Consistent
  <2>2. x.stack[1].variable = RootVar
    BY <1>4 DEF IsRoot
  <2> HIDE DEF n, p
  <2> QED BY <1>2, <1>3, <2>1, <2>2
<1>6. /\ acc.core \in Seq(Nat)
      /\ \A A : RootVar \in A /\ (\A w \in ToSet(acc.core) \ {InstallRootClause} : Sat(A, K[w].lits))
                => \E i \in 1 .. p : x.stack[i].variable \in acc.involved /\ Differs(A, x.stack[i])
  BY <1>3 DEF Reaching
<1> HIDE DEF n
<1>7. CASE d.variable = RootVar \/ d.variable \notin acc.involved
  <2>1. new = acc
    BY <1>7 DEF ExplainIn
  <2>2. ASSUME NEW A, RootVar \in A, \A w \in ToSet(acc.core) \ {InstallRootClause} : Sat(A, K[w].lits)
        PROVE  \E i \in 1 .. p - 1 : x.stack[i].variable \in acc.involved /\ Differs(A, x.stack[i])
    <3>1. PICK i \in 1 .. p : x.stack[i].variable \in acc.involved /\ Differs(A, x.stack[i])
      BY <1>6, <2>2
    <3>2. i # p
      <4> SUFFICES ASSUME i = p PROVE FALSE
        OBVIOUS
      <4>1. d.variable = RootVar /\ p = 1
        BY <1>5, <1>7, <3>1
      <4>2. d.value
        BY <1>4, <4>1 DEF IsRoot
      <4> QED BY <2>2, <3>1, <4>1, <4>2 DEF Differs
    <3>3. i \in 1 .. p - 1
      BY <1>2, <1>3, <3>2
    <3> QED BY <3>1, <3>3
  <2> HIDE DEF p, d, new
  <2> QED BY <1>3, <1>6, <2>1, <2>2 DEF Reaching, n, p, d, new
<1>8. CASE d.variable # RootVar /\ d.variable \in acc.involved
  <2>1. p # 1
    BY <1>4, <1>8 DEF IsRoot
  <2>2. Follows(x, K, p)
    <3> HIDE DEF p, d
    <3> QED BY <1>1, <1>3, <2>1, OneLevel DEF n
  <2>3. /\ c \in DOMAIN K
        /\ \A l \in ToSet(K[c].lits) : l = Own(d) \/ \E j \in 1 .. p - 1 : l = Falsified(x.stack[j])
        /\ K[c].lits # << >>
    <3>1. /\ c \in DOMAIN K /\ Own(d) \in ToSet(K[c].lits)
          /\ \A l \in ToSet(K[c].lits) : l = Own(d) \/ \E j \in 1 .. p - 1 : l = Falsified(x.stack[j])
      BY <2>2 DEF Follows
    <3>2. K[c].lits # << >>
      <4> HIDE DEF d, c
      <4> QED BY <3>1, ShortSequences
    <3> QED BY <3>1, <3>2
  <2>4. ids \in Seq(Nat) /\ Implies(ids, K, K[c].lits)
    <3> HIDE DEF c, d, p
    <3> QED BY <1>1, <2>3, CausesImply
  <2>5. /\ new.involved = acc.involved \cup VarsIn(s, c)
        /\ new.core = AddToConflict(acc.core, ids)
    BY <1>8 DEF ExplainIn
  <2> HIDE DEF ids, new
  <2>6. new.core \in Seq(Nat) /\ ToSet(new.core) = ToSet(acc.core) \cup ToSet(ids)
    BY <1>6, <2>4, <2>5, ConflictAdds
  <2>7. ASSUME NEW A, RootVar \in A, \A w \in ToSet(new.core) \ {InstallRootClause} : Sat(A, K[w].lits)
        PROVE  \E i \in 1 .. p - 1 : x.stack[i].variable \in new.involved /\ Differs(A, x.stack[i])
    <3>1. PICK i \in 1 .. p : x.stack[i].variable \in acc.involved /\ Differs(A, x.stack[i])
      <4> HIDE DEF p
      <4> QED BY <1>6, <2>6, <2>7
    <3>2. CASE i # p
      <4>1. i \in 1 .. p - 1
        BY <1>2, <1>3, <3>2
      <4> QED BY <2>5, <3>1, <4>1
    <3>3. CASE i = p
      <4>1. Differs(A, d)
        BY <3>1, <3>3
      <4>2. Sat(A, K[c].lits)
        BY <2>4, <2>6, <2>7 DEF Implies
      <4>3. PICK l \in ToSet(K[c].lits) : (l.variable \in A) # l.negate
        BY <4>2 DEF Sat
      <4>4. l # Own(d)
        <5>1. Own(d).variable = d.variable /\ Own(d).negate = ~d.value
          BY DEF Own
        <5>2. d.value \in BOOLEAN
          BY <1>2, <1>3
        <5> HIDE DEF d
        <5> SUFFICES ASSUME l = Own(d) PROVE FALSE
          OBVIOUS
        <5>3. l.variable = d.variable /\ l.negate = ~d.value
          BY <5>1
        <5>4. ~((d.variable \in A) # l.negate)
          BY <4>1, <5>2, <5>3, NotBoth DEF Differs
        <5> QED BY <4>3, <5>3, <5>4
      <4>5. PICK j \in 1 .. p - 1 : l = Falsified(x.stack[j])
        BY <2>3, <4>4
      <4>6. l.variable = x.stack[j].variable /\ l.negate = x.stack[j].value
        BY <4>5 DEF Falsified
      <4>7. Differs(A, x.stack[j])
        BY <4>3, <4>6 DEF Differs
      <4>8. l.variable \in VarsIn(s, c)
        BY DEF VarsIn, ToSet
      <4> QED BY <2>5, <4>6, <4>7, <4>8
    <3> QED BY <3>2, <3>3
  <2> HIDE DEF p, d
  <2> QED BY <1>3, <2>6, <2>7 DEF Reaching, n, p, d, new
<1> QED BY <1>7, <1>8

\* The clauses of the Conflict that analyze_unsolvable makes of a clause that is
\* falsified at the first level refute the root.
LEMMA CoreRefutes ==
  ASSUME Good(st, 1, "any"), NEW c, Falsifies(st, c)
  PROVE  Refutes(st.clauses, AnalyzeUnsolvable(c).core)
<1> DEFINE x == st.decision_tracker
           K == st.clauses
           n == Len(x.stack)
           q == Reverse(Trail(st))
           acc == [involved |-> LitVars(c), core |-> AddToConflict(<< >>, Causes[c]), panics |-> TopLevel(dt) # 1]
<1>1. x \in Tracker /\ Consistent(x) /\ ClausesOK(K) /\ K \in Seq(ClauseType)
  BY DEF Good, Core, TrailOK, ClausesOK
<1>2. /\ n \in Nat /\ x.stack \in Seq(Decision)
      /\ \A i \in 1 .. n : x.stack[i] \in Decision /\ x.stack[i].variable \in Variable
  BY <1>1, TrailEntries
<1>3. Len(q) = n /\ DOMAIN q = 1 .. n /\ \A i \in 1 .. n : q[i] = x.stack[n + 1 - i]
  BY <1>2 DEF Reverse, Trail
<1>4. Causes = CausesIn(K) /\ DOMAIN K = 1 .. Len(K)
  <2>1. DOMAIN K = 1 .. Len(K)
    BY <1>1
  <2> QED BY <2>1 DEF Causes, CausesIn, Causing!Fix, CauseDef
<1>5. /\ c \in DOMAIN K /\ K[c].lits # << >> /\ K[c].lits \in Seq(Literal)
      /\ \A l \in ToSet(K[c].lits) : LitFalse(x.map, l)
  <2>1. c \in DOMAIN K /\ K[c].lits # << >> /\ \A l \in ToSet(K[c].lits) : LitFalse(x.map, l)
    BY DEF Falsifies, Map
  <2>2. K[c] \in ClauseType
    BY <1>1, <2>1
  <2> QED BY <2>1, <2>2 DEF ClauseType
<1>6. AnalyzeUnsolvable(c) = Explains!Loop(acc, q, st, 0, n)
  BY <1>3, <1>4 DEF AnalyzeUnsolvable, FoldLeft, MapThenFoldSet, Explains!Loop, Explains!Fix, ExplainDef,
     ExplainIn, LitVars, VarsIn, Unexplained, UnexplainedIn, map
<1>7. Reaching(st, acc, 0)
  <2> DEFINE ids == CausesIn(K)[c]
  <2>1. ids \in Seq(Nat) /\ Implies(ids, K, K[c].lits)
    BY <1>1, <1>5, CausesImply
  <2>2. acc.involved = LitVars(c) /\ acc.core = AddToConflict(<< >>, ids)
    BY <1>4
  <2> HIDE DEF ids, acc
  <2>3. acc.core \in Seq(Nat) /\ ToSet(acc.core) = ToSet(ids)
    <3>1. << >> \in Seq(Nat) /\ ToSet(<< >>) = {}
      BY ShortSequences
    <3>2. AddToConflict(<< >>, ids) \in Seq(Nat) /\ ToSet(AddToConflict(<< >>, ids)) = ToSet(<< >>) \cup ToSet(ids)
      BY <2>1, <3>1, ConflictAdds
    <3> QED BY <2>2, <3>1, <3>2
  <2>4. ASSUME NEW A, RootVar \in A, \A w \in ToSet(acc.core) \ {InstallRootClause} : Sat(A, K[w].lits)
        PROVE  \E i \in 1 .. n : x.stack[i].variable \in acc.involved /\ Differs(A, x.stack[i])
    <3>1. Sat(A, K[c].lits)
      BY <2>1, <2>3, <2>4 DEF Implies
    <3>2. PICK l \in ToSet(K[c].lits) : (l.variable \in A) # l.negate
      BY <3>1 DEF Sat
    <3>3. l \in Literal /\ LitFalse(x.map, l)
      BY <1>5, ToSetType
    <3>4. PICK j \in 1 .. n : l = Falsified(x.stack[j])
      BY <1>1, <3>3, FalseOnTrail
    <3>5. l.variable = x.stack[j].variable /\ l.negate = x.stack[j].value
      BY <3>4 DEF Falsified
    <3>6. l.variable \in LitVars(c)
      BY DEF LitVars, ToSet
    <3> QED BY <2>2, <3>2, <3>5, <3>6 DEF Differs
  <2>5. n - 0 = n
    BY <1>2
  <2> QED BY <2>3, <2>4, <2>5 DEF Reaching
<1> HIDE DEF acc, q, n
<1>8. ASSUME NEW k \in 1 .. n PROVE Max(1 .. k) = k /\ (1 .. k) \ {k} = 1 .. k - 1 /\ 1 .. k # {} /\ k - 1 \in 0 .. n
  <2>1. k \in 1 .. k /\ \A y \in 1 .. k : k >= y
    BY <1>2
  <2>2. \A z \in 1 .. k : (\A y \in 1 .. k : z >= y) => z = k
    BY <1>2, <2>1
  <2>3. Max(1 .. k) = k
    BY <2>1, <2>2 DEF Max
  <2>4. k \in Nat /\ k >= 1 /\ k <= n
    BY <1>2
  <2>5. (1 .. k) \ {k} = 1 .. k - 1
    BY <2>4
  <2>6. 1 .. k # {}
    BY <2>1
  <2>7. k - 1 \in 0 .. n
    BY <1>2, <2>4
  <2> QED BY <2>3, <2>5, <2>6, <2>7
<1>9. ASSUME NEW f, NEW S \in SUBSET (1 .. n),
             S # {} => Max(S) \in S /\ Reaches(st, 0, S \ {Max(S)}, f[S \ {Max(S)}])
      PROVE  Reaches(st, 0, S, ExplainDef(acc, q, st, 0, f, S))
  <2> SUFFICES ASSUME NEW k \in 0 .. n, S = 1 .. k
               PROVE  Reaching(st, ExplainDef(acc, q, st, 0, f, S), k)
    BY DEF Reaches, n
  <2>1. CASE k = 0
    <3>1. S = {}
      BY <1>2, <2>1
    <3> QED BY <1>7, <2>1, <3>1 DEF ExplainDef
  <2>2. CASE k # 0
    <3> DEFINE a == f[1 .. k - 1]
    <3>1. k \in 1 .. n /\ Max(S) = k /\ S \ {Max(S)} = 1 .. k - 1 /\ S # {} /\ k - 1 \in 0 .. n
      BY <1>2, <1>8, <2>2
    <3>2. Reaching(st, a, k - 1)
      BY <1>9, <3>1 DEF Reaches, n
    <3>3. ExplainDef(acc, q, st, 0, f, S) = ExplainIn(st, a, x.stack[n + 1 - k])
      BY <1>3, <3>1 DEF ExplainDef
    <3> HIDE DEF a
    <3>4. Reaching(st, ExplainIn(st, a, x.stack[n + 1 - k]), k)
      BY <3>1, <3>2, ExplainRound DEF n
    <3> QED BY <3>3, <3>4
  <2> QED BY <2>1, <2>2
<1>10. Explains!Rounds(acc, q, st, 0, n)
  BY DEF Explains!Rounds, ExplainDef, Explains!Max, Max
<1>11. Explains!Keeps(acc, q, st, 0, n, st, 0)
  BY <1>9 DEF Explains!Keeps, Explains!Max, Max
<1>12. Reaches(st, 0, 1 .. n, Explains!Loop(acc, q, st, 0, n))
  BY <1>2, <1>10, <1>11, Explains!FoldInduction, Tr!LeastNatural DEF Explains!WellOrdered
<1>13. Reaching(st, AnalyzeUnsolvable(c), n)
  <2>1. n \in 0 .. n
    BY <1>2
  <2> QED BY <1>6, <1>12, <2>1 DEF Reaches, n
<1>14. 1 .. n - n = {}
  BY <1>2
<1> QED BY <1>13, <1>14 DEF Reaching, Refutes, n

----------------------------------------------------------------------------
(* The root is installed first, and what is unsolvable is refuted           *)

\* A step between places where both ask for nothing new.
LEMMA SteadyStep ==
  ASSUME RootFirst, Refuted, ~Panicked, pc \in Working \cup {"loop"},
         pc' \in (Working \cup {"loop"}) \ {"encode", "unsolvable"},
         UNCHANGED <<starting_level, root_solvable, result>>
  PROVE  RootFirst' /\ Refuted'
  BY DEF RootFirst, Refuted, Working, Propagation

\* Most steps are.
LEMMA SteadySteps ==
  ASSUME RootFirst, Refuted,
         \/ ContinueLoop \/ EncodeReturns \/ DecideAssertions \/ DecideLearned
         \/ NextDecisionToPropagate \/ EndOfWatchers \/ VisitClause
         \/ VisitCause \/ PopTrail \/ Learn \/ Decide \/ NothingToDecide
  PROVE  RootFirst' /\ Refuted'
<1> DEFINE Places == (Working \cup {"loop"}) \ {"encode", "unsolvable"}
           Steady == /\ ~Panicked /\ pc \in Working \cup {"loop"} /\ pc' \in Places
                     /\ UNCHANGED <<starting_level, root_solvable, result>>
<1>1. CASE ContinueLoop \/ EncodeReturns \/ EndOfWatchers \/ VisitCause \/ PopTrail \/ Learn \/ NothingToDecide
  <2>1. Steady
    BY <1>1 DEF ContinueLoop, EncodeReturns, EndOfWatchers, VisitCause, PopTrail, Learn, NothingToDecide,
       StartPropagate, At, run, Working, Propagation
  <2> QED BY <2>1, SteadyStep
<1>2. CASE DecideAssertions \/ DecideLearned
  <2>1. /\ ~Panicked /\ pc \in {"assertions", "learned"}
        /\ UNCHANGED <<starting_level, root_solvable, result>>
    BY <1>2 DEF DecideAssertions, DecideLearned, At, run
  <2>2. \A d : AssertUnit(d) => pc' \in {pc, "conflict"}
    BY DEF AssertUnit, Fail
  <2>3. pc' \in {pc, "conflict", "learned", "next"}
    BY <1>2, <2>2 DEF DecideAssertions, DecideLearned
  <2>4. Steady
    BY <2>1, <2>3 DEF Working, Propagation
  <2> QED BY <2>4, SteadyStep
<1>3. CASE NextDecisionToPropagate
  <2>1. Steady
    BY <1>3 DEF NextDecisionToPropagate, At, run, Working, Propagation
  <2> QED BY <2>1, SteadyStep
<1>4. CASE VisitClause
  <2>1. ~Panicked /\ pc = "visit" /\ UNCHANGED <<starting_level, root_solvable, result>>
    BY <1>4 DEF VisitClause, At, run
  <2>2. pc' \in {pc, "conflict"}
    BY <1>4 DEF VisitClause, Fail
  <2>3. Steady
    BY <2>1, <2>2 DEF Working, Propagation
  <2> QED BY <2>3, SteadyStep
<1>5. CASE Decide
  <2>1. ~Panicked /\ pc = "decide" /\ UNCHANGED <<starting_level, root_solvable, result>>
    BY <1>5 DEF Decide, At, run
  <2>2. pc' \in {pc, "assertions"}
    BY <1>5 DEF Decide, StartPropagate
  <2>3. Steady
    BY <2>1, <2>2 DEF Working, Propagation
  <2> QED BY <2>3, SteadyStep
<1> QED BY <1>1, <1>2, <1>3, <1>4, <1>5

\* solve starts with the root, and returns before it starts.
LEMMA StartKeepsRoot ==
  ASSUME SolverInv, RootFirst, Refuted, RunSat \/ InstallRootSolvable \/ NextSoftRequirement \/ Cancel \/ ReturnSolution
  PROVE  RootFirst' /\ Refuted'
<1>1. CASE RunSat
  <2>1. pc = "run_sat" /\ ~Panicked /\ Levels
    BY <1>1, BeforePanic DEF RunSat, At
  <2>2. TopLevel(dt) = 0 <=> dt.stack = << >>
    <3>1. TrailOK(dt, st.clauses, TopLevel(dt))
      BY <2>1 DEF Levels, Good, Core, dt
    <3> QED BY <3>1, AtLevelZero
  <2>3. pc' = "loop" /\ starting_level' = TopLevel(dt) /\ UNCHANGED <<root_solvable, result>>
    BY <1>1 DEF RunSat
  <2>4. starting_level' = 0 => root_solvable' = Root
    BY <2>1, <2>2, <2>3 DEF RootFirst
  <2> QED BY <2>1, <2>3, <2>4 DEF RootFirst, Refuted
<1>2. CASE InstallRootSolvable
  <2>1. /\ pc = "loop" /\ ~Panicked /\ pc' = "encode" /\ caller' = "install"
        /\ UNCHANGED <<starting_level, root_solvable, result>>
    BY <1>2 DEF InstallRootSolvable, At, run
  <2>2. Good(st', level', IF starting_level = 0 THEN "root" ELSE "any")
    BY <1>2, InstallGood
  <2>3. Good(st, level, Phase)'
    BY <2>1, <2>2 DEF Phase
  <2> QED BY <2>1, <2>3 DEF RootFirst, Refuted, Working
<1>3. CASE NextSoftRequirement
  <2>1. pc = "returned" /\ ~Panicked /\ pc' \in {"run_sat", "returned"} /\ UNCHANGED <<st, starting_level, result>>
    BY <1>3 DEF NextSoftRequirement, At
  <2>2. dt' = dt /\ dt.stack # << >>
    BY <2>1 DEF RootFirst, dt
  <2> QED BY <2>1, <2>2 DEF RootFirst, Refuted, Working, Propagation
<1>4. CASE Cancel \/ ReturnSolution
  <2>1. pc' = "done" /\ result'.kind # "unsolvable"
    BY <1>4 DEF Cancel, ReturnSolution, NoResult
  <2> QED BY <2>1 DEF RootFirst, Refuted, Working, Propagation
<1> QED BY <1>1, <1>2, <1>3, <1>4

\* While the root is encoded no conflict can be found, since nothing is decided that
\* its clauses could go against.
LEMMA EncodeKeepsRoot ==
  ASSUME SolverInv, SolverInv', RootFirst, Refuted, EncodeTask \/ EncodeReturnsConflict \/ Expand
  PROVE  RootFirst' /\ Refuted'
<1>1. CASE EncodeTask
  <2>1. /\ pc = "encode" /\ ~Panicked /\ Typed /\ Levels
        /\ UNCHANGED <<pc, level, caller, starting_level, root_solvable, result>>
    BY <1>1, BeforePanic DEF EncodeTask, At, run
  <2>2. Good(st', level, Phase)
    <3>1. Good(st, level, Phase)
      BY <2>1 DEF RootFirst
    <3> QED BY <1>1, <2>1, <3>1, EncodeTaskGood DEF Typed, Levels, Working
  <2>3. Good(st, level, Phase)'
    BY <2>1, <2>2 DEF Phase
  <2> QED BY <2>1, <2>3 DEF RootFirst, Refuted, Working
<1>2. CASE EncodeReturnsConflict
  <2>1. /\ pc = "encode" /\ ~Panicked /\ Typed /\ Levels /\ Encoded.conflicting_clauses # << >>
        /\ UNCHANGED <<starting_level, root_solvable, result>>
        /\ (caller = "install" /\ pc' = "unsolvable") \/ pc' = "loop"
    BY <1>2, BeforePanic DEF EncodeReturnsConflict, At, run
  <2>2. Good(Encoded, level, Phase)
    <3>1. level \in Nat \ {0} /\ Good(st, level, Phase)
      BY <2>1 DEF RootFirst, Typed, Levels, Working
    <3> QED BY <3>1, EncodedGood
  <2>3. Phase # "root"
    BY <2>1, <2>2 DEF Good, OnlyRoot
  <2>4. CASE caller = "install" /\ pc' = "unsolvable"
    <3>1. starting_level # 0
      BY <2>3, <2>4 DEF Phase
    <3> QED BY <2>1, <2>4, <3>1 DEF RootFirst, Refuted, Working, Propagation
  <2>5. CASE pc' = "loop"
    BY <2>1, <2>5, SteadyStep DEF Working
  <2> QED BY <2>1, <2>4, <2>5
<1>3. CASE Expand
  <2>1. /\ pc = "expand" /\ ~Panicked
        /\ UNCHANGED <<starting_level, root_solvable, result>>
        /\ (caller' = "expand" /\ pc' = "encode") \/ pc' \in {"loop", "returned"}
    BY <1>3 DEF Expand, At, run
  <2>2. Good(st', level, "any") /\ level' = level /\ level # 0
    BY <1>3, ExpandGood
  <2>3. dt'.stack # << >>
    <3>1. TrailOK(dt', st'.clauses, level)
      BY <2>2 DEF Good, Core, dt
    <3> QED BY <2>2, <3>1, AtLevelZero
  <2>4. pc' = "encode" => Good(st, level, Phase)'
    BY <2>1, <2>2 DEF Phase
  <2> QED BY <2>1, <2>3, <2>4 DEF RootFirst, Refuted, Working, Propagation
<1> QED BY <1>1, <1>2, <1>3

\* The Conflict that is returned is made of a clause that is falsified at level 1.
LEMMA ReturnRefutes ==
  ASSUME Good(st, 1, "any"), Falsifies(st, conflict.clause), ReturnUnsolvable
  PROVE  RootFirst' /\ Refuted'
<1>1. pc' = "done" /\ result'.core = AnalyzeUnsolvable(conflict.clause).core
  BY DEF ReturnUnsolvable, NoResult
<1>2. st'.clauses = st.clauses
  <2>1. PICK b : st' = [st EXCEPT !.panicked = b]
    BY DEF ReturnUnsolvable
  <2> QED BY <2>1 DEF Good, Core, Shape
<1>3. Refutes(st.clauses, AnalyzeUnsolvable(conflict.clause).core)
  BY CoreRefutes
<1>4. Refutes(st'.clauses, result'.core)
  BY <1>1, <1>2, <1>3
<1> QED BY <1>1, <1>4 DEF RootFirst, Refuted, Working, Propagation

\* What becomes of a conflict.
LEMMA ConflictKeepsRoot ==
  ASSUME SolverInv, RootFirst, Refuted, RunSatConflict \/ LearnFromConflict \/ ProcessUnsolvable
  PROVE  RootFirst' /\ Refuted'
<1>1. CASE RunSatConflict
  <2>1. /\ pc = "conflict" /\ ~Panicked /\ Levels /\ Propagated /\ Typed
        /\ UNCHANGED <<starting_level, root_solvable, result, conflict>>
        /\ \/ pc' = "unsolvable" /\ UNCHANGED <<st, level>> /\ level = starting_level + 1
           \/ pc' = "loop"
    BY <1>1, BeforePanic DEF RunSatConflict, At, run
  <2>2. CASE pc' = "unsolvable" /\ UNCHANGED <<st, level>> /\ level = starting_level + 1
    <3>1. Falsifies(st, conflict.clause)
      BY <2>1 DEF Propagated
    <3>2. Falsifies(st, conflict.clause)'
      BY <2>1, <2>2, <3>1 DEF Falsifies, Map
    <3>3. starting_level' = 0 => level' = 1
      BY <2>1, <2>2
    <3> QED BY <2>1, <2>2, <3>2, <3>3 DEF RootFirst, Refuted, Working, Propagation
  <2>3. CASE pc' = "loop"
    BY <2>1, <2>3, SteadyStep DEF Working
  <2> QED BY <2>1, <2>2, <2>3
<1>2. CASE LearnFromConflict
  <2>1. pc = "conflict" /\ ~Panicked /\ Levels /\ Propagated
    BY <1>2, BeforePanic DEF LearnFromConflict, At
  <2>2. CASE level = 1
    <3>1. Good(st, 1, "any") /\ Falsifies(st, conflict.clause)
      BY <2>1, <2>2 DEF Levels, Propagated, Working
    <3> QED BY <1>2, <2>2, <3>1, ReturnRefutes DEF LearnFromConflict
  <2>3. CASE level # 1
    <3>1. pc' = "analyze" /\ UNCHANGED <<starting_level, root_solvable, result>>
      BY <1>2, <2>3 DEF LearnFromConflict, run
    <3> QED BY <2>1, <3>1, SteadyStep DEF Working
  <2> QED BY <2>2, <2>3
<1>3. CASE ProcessUnsolvable
  <2>1. pc = "unsolvable" /\ ~Panicked /\ Levels
    BY <1>3, BeforePanic DEF ProcessUnsolvable, At
  <2>2. CASE starting_level = 0
    <3>1. level = 1 /\ Falsifies(st, conflict.clause)
      BY <2>1, <2>2 DEF Refuted
    <3>2. Good(st, 1, "any")
      BY <2>1, <3>1 DEF Levels, Working
    <3> QED BY <1>3, <2>2, <3>1, <3>2, ReturnRefutes DEF ProcessUnsolvable
  <2>3. CASE starting_level # 0
    <3>1. pc' = "returned" /\ UNCHANGED <<starting_level, root_solvable, result>>
      BY <1>3, <2>3 DEF ProcessUnsolvable, run
    <3>2. Good(st', starting_level + 1, "any") /\ starting_level \in Nat
      BY <1>3, <2>3, ProcessGood
    <3>3. dt'.stack # << >>
      <4>1. TrailOK(dt', st'.clauses, starting_level + 1)
        BY <3>2 DEF Good, Core, dt
      <4> QED BY <3>2, <4>1, AtLevelZero
    <3> QED BY <2>1, <3>1, <3>3 DEF RootFirst, Refuted, Working, Propagation
  <2> QED BY <2>2, <2>3
<1> QED BY <1>1, <1>2, <1>3

\* Every step keeps both.
LEMMA RootKept ==
  ASSUME SolverInv, SolverInv', RootFirst, Refuted, [Next]_vars
  PROVE  RootFirst' /\ Refuted'
<1>1. CASE UNCHANGED vars
  <2>1. UNCHANGED <<dt, map, Panicked, Phase>>
    BY <1>1 DEF vars, dt, map, Panicked, Phase
  <2> QED BY <1>1, <2>1 DEF vars, RootFirst, Refuted
<1>2. CASE Next
  BY <1>2, SteadySteps, StartKeepsRoot, EncodeKeepsRoot, ConflictKeepsRoot DEF Next
<1> QED BY <1>1, <1>2

\* They hold at the start.
LEMMA RootStarts ==
  ASSUME Init PROVE RootFirst /\ Refuted
  BY DEF Init, RootFirst, Refuted, Working, Propagation, NoResult

\* The inductive invariant of the solver: in every state that it reaches the trail is
\* explained by its reasons, the watch lists are well linked, learnt clauses follow
\* from others; before a panic propagation and analyze keep to their levels, and the
\* root is on the trail before anything else, so that a clause that is falsified at
\* level 1 refutes it with its causes: those are the clauses of the Conflict.
THEOREM SolverIsSound == Spec => [](SolverInv /\ RootFirst /\ Refuted)
<1>1. Init => SolverInv /\ RootFirst /\ Refuted
  BY InvariantStarts, RootStarts
<1>2. SolverInv /\ RootFirst /\ Refuted /\ [Next]_vars => (SolverInv /\ RootFirst /\ Refuted)'
  BY InvariantKept, RootKept
<1> QED BY <1>1, <1>2, PTL DEF Spec

\* Every variable of the solver has its type in every state, whatever the provider
\* answers: the trail, the levels, and that a solution lists solvables of the provider
\* only (chosen_solvables).
THEOREM StateHasItsType == Spec => []TypeOK
<1>1. SolverInv => TypeOK
  BY DEF SolverInv, Typed, Sound, TypeOK, Asker, Working, Propagation
<1> QED BY <1>1, SolverIsSound, PTL

\* Every assignment that did not open its level is forced by its reason: the clause
\* holds its literal, and the others were false before it.  analyze and
\* analyze_unsolvable rely on it, whether propagation, the encoder, a gate that was
\* stuck or a learnt clause assigned it.
THEOREM ReasonsExplain == Spec => []ReasonsExplainTrail
<1>1. ASSUME SolverInv PROVE ReasonsExplainTrail
  <2> DEFINE x == st.decision_tracker
  <2>1. x \in Tracker /\ Explained(x, st.clauses)
    BY <1>1 DEF SolverInv, Sound
  <2>2. DOMAIN Trail(st) = 1 .. Len(x.stack) /\ Trail(st) = x.stack /\ map = x.map
    BY <2>1, TrailEntries DEF Trail, map, Map
  <2> SUFFICES ASSUME NEW i \in DOMAIN Trail(st), ~OpensLevel(i)
               PROVE  LET d == Trail(st)[i]
                          own == [variable |-> d.variable, negate |-> ~d.value]
                          others == ToSet(st.clauses[d.derived_from].lits) \ {own}
                          earlier == {Falsified(Trail(st)[j]) : j \in 1 .. i - 1}
                      IN own \in ToSet(st.clauses[d.derived_from].lits) /\ others \subseteq earlier
    BY DEF ReasonsExplainTrail
  <2>3. ~Opens(x, i)
    BY <2>2 DEF OpensLevel, Opens
  <2>4. Follows(x, st.clauses, i)
    BY <2>1, <2>2, <2>3 DEF Explained
  <2> HIDE DEF x
  <2> QED BY <2>2, <2>4 DEF Follows, Own
<1> QED BY <1>1, SolverIsSound, PTL

\* A learnt clause is a consequence of the clauses that analyze visited for it,
\* whichever literals were resolved on and however far the trail was popped
\* (Solver::analyze).
THEOREM LearntFollows == Spec => []LearntClausesFollow
<1>1. ASSUME SolverInv PROVE LearntClausesFollow
  <2> SUFFICES ASSUME st.learnt_clause_ids # << >>
               PROVE  LET c == Last(st.learnt_clause_ids)
                          why == ToSet(st.clauses[c].why)
                      IN \A A \in SUBSET UNION {LitVars(w) : w \in why} :
                           (\A w \in why : HoldsIn(A, w)) => HoldsIn(A, c)
    BY DEF LearntClausesFollow
  <2> DEFINE ids == st.learnt_clause_ids
             c == Last(ids)
  <2>1. LearntOK(ids, st.clauses) /\ ClausesOK(st.clauses)
    BY <1>1 DEF SolverInv, Sound
  <2>2. \E i \in DOMAIN ids : c = ids[i]
    <3>1. ids \in Seq(Nat)
      BY <2>1 DEF LearntOK
    <3>2. Len(ids) \in DOMAIN ids
      BY <3>1
    <3> QED BY <3>2 DEF Last
  <2>3. c \in DOMAIN st.clauses /\ st.clauses[c].kind = "Learnt"
    BY <2>1, <2>2 DEF LearntOK
  <2> HIDE DEF c
  <2>4. Derived(st.clauses, c)
    BY <2>1, <2>3 DEF ClausesOK
  <2>5. \A A, w : HoldsIn(A, w) <=> Sat(A, st.clauses[w].lits)
    BY DEF HoldsIn, Sat
  <2> QED BY <2>4, <2>5 DEF Derived, c
<1> QED BY <1>1, SolverIsSound, PTL

\* Between two walks the list of a literal links every clause that watches it once
\* and no other clause, whatever watches propagation moved and whichever clauses
\* the encoder and analyze put in front (WatchMap, WatchMapCursor).
THEOREM WatchListsAreExact == Spec => []WatchListsExact
<1>1. SolverInv => WatchListsExact
  BY LinkedExactly DEF SolverInv, Sound, WatchListsExact
<1> QED BY <1>1, SolverIsSound, PTL

\* The Conflict that solve returns is one: no assignment with the root installed
\* satisfies all of its clauses, whatever was learnt and from whichever clause
\* analyze_unsolvable started (learnt clauses stand for those they came from).
THEOREM CoreIsUnsatisfiable == Spec => []ConflictIsACore
<1>1. ASSUME Refuted PROVE ConflictIsACore
  <2>1. \A A, w : HoldsIn(A, w) <=> Sat(A, st.clauses[w].lits)
    BY DEF HoldsIn, Sat
  <2> QED BY <1>1, <2>1 DEF Refuted, Refutes, ConflictIsACore
<1> QED BY <1>1, SolverIsSound, PTL
=============================================================================
