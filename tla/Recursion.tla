----------------------------- MODULE Recursion -----------------------------
(***************************************************************************)
(* Recursive functions: that they exist, and induction over them.  A loop  *)
(* of the program over a list is a fold, which is such a function, and so  *)
(* is an algorithm that descends to smaller identifiers.  The proofs of a  *)
(* component instantiate this module once for each of its recursive        *)
(* functions and loops; an instance brings all of the modules it rests on  *)
(* along, so that it rests on the integers only: that < is well-founded on *)
(* Nat is a hypothesis of the lemmas, and a lemma of the modules that cite *)
(* them.                                                                   *)
(***************************************************************************)
EXTENDS Integers
LOCAL INSTANCE TLAPS

CONSTANTS Def(_, _, _, _, _, _),   \* the value at a place, from parameters and the function
          P(_, _, _, _)            \* what is shown of a place and the value there

\* Every non-empty set of naturals has a least element.
WellOrdered == \A S \in SUBSET Nat : S # {} => \E x \in S : \A y \in S : x <= y

\* The largest element, as FiniteSetsExt defines it for the folds.
Max(S) == CHOOSE x \in S : \A y \in S : x >= y

\* The recursive function, as TLA+ defines f[i \in D] == Def(.., f, i).
Fix(a, b, c, d, D) == CHOOSE f : f = [i \in D |-> Def(a, b, c, d, f, i)]

\* The value at a place depends on the values at places of smaller rank only.
Causal(a, b, c, d, D, rank) ==
  \A f, g : \A i \in D :
    (\A j \in D : rank[j] < rank[i] => f[j] = g[j]) => Def(a, b, c, d, f, i) = Def(a, b, c, d, g, i)

\* What holds of a number if it holds of all smaller ones holds of all.
LEMMA UpTo ==
  ASSUME WellOrdered, NEW S, \A m \in Nat : (\A k \in 0 .. m - 1 : k \in S) => m \in S
  PROVE  \A m \in Nat : m \in S
<1> DEFINE T == {m \in Nat : m \notin S}
<1>1. SUFFICES ASSUME T # {} PROVE FALSE
  OBVIOUS
<1>2. PICK x \in T : \A y \in T : x <= y
  BY <1>1 DEF WellOrdered
<1>3. \A k \in 0 .. x - 1 : k \in S
  <2> SUFFICES ASSUME NEW k \in 0 .. x - 1, k \notin S PROVE FALSE
    OBVIOUS
  <2>1. k \in T /\ k < x
    OBVIOUS
  <2> QED BY <1>2, <2>1
<1> QED BY <1>3

\* A recursive definition whose value at a place depends on places of smaller
\* rank only has a solution, so that CHOOSE picks one.
LEMMA Defined ==
  ASSUME WellOrdered, NEW a, NEW b, NEW c, NEW d, NEW D, NEW top \in Nat, NEW rank \in [D -> 0 .. top], Causal(a, b, c, d, D, rank)
  PROVE  Fix(a, b, c, d, D) = [i \in D |-> Def(a, b, c, d, Fix(a, b, c, d, D), i)]
<1> DEFINE Below(m) == {i \in D : rank[i] < m}
           S == {m \in Nat : \E f : f = [i \in Below(m) |-> Def(a, b, c, d, f, i)]}
<1>1. \A f, g : \A i \in D : (\A j \in D : rank[j] < rank[i] => f[j] = g[j]) => Def(a, b, c, d, f, i) = Def(a, b, c, d, g, i)
  BY DEF Causal
<1>2. ASSUME NEW m \in Nat, \A k \in 0 .. m - 1 : k \in S PROVE m \in S
  <2>1. CASE m = 0
    <3> DEFINE e == [i \in Below(m) |-> Def(a, b, c, d, m, i)]
    <3>1. \A i \in Below(m) : FALSE
      BY <2>1
    <3>2. e = [i \in Below(m) |-> Def(a, b, c, d, e, i)]
      BY <3>1
    <3> QED BY <3>2
  <2>2. CASE m # 0
    <3>1. PICK h : h = [i \in Below(m - 1) |-> Def(a, b, c, d, h, i)]
      <4>1. m - 1 \in S
        <5>1. m - 1 \in 0 .. m - 1
          BY <2>2
        <5> HIDE DEF S
        <5> QED BY <1>2, <5>1
      <4> QED BY <4>1
    <3> DEFINE f == [i \in Below(m) |-> IF rank[i] < m - 1 THEN h[i] ELSE Def(a, b, c, d, h, i)]
    <3>2. \A j \in Below(m - 1) : j \in Below(m) /\ f[j] = h[j]
      OBVIOUS
    <3>3. ASSUME NEW i \in Below(m) PROVE f[i] = Def(a, b, c, d, f, i)
      <4>1. Def(a, b, c, d, h, i) = Def(a, b, c, d, f, i)
        <5>1. i \in D /\ \A j \in D : rank[j] < rank[i] => h[j] = f[j]
          BY <3>2
        <5> HIDE DEF f
        <5> QED BY <1>1, <5>1
      <4>2. CASE rank[i] < m - 1
        <5>1. h[i] = Def(a, b, c, d, h, i)
          BY <3>1, <4>2
        <5>2. f[i] = h[i]
          BY <3>2, <4>2
        <5> HIDE DEF f
        <5> QED BY <4>1, <5>1, <5>2
      <4>3. CASE ~(rank[i] < m - 1)
        BY <4>1, <4>3
      <4> QED BY <4>2, <4>3
    <3>4. f = [i \in Below(m) |-> f[i]]
      OBVIOUS
    <3> HIDE DEF f
    <3>5. f = [i \in Below(m) |-> Def(a, b, c, d, f, i)]
      BY <3>3, <3>4
    <3> QED BY <3>5
  <2> QED BY <2>1, <2>2
<1>3. top + 1 \in S
  <2>1. \A m \in Nat : m \in S
    <3> HIDE DEF S
    <3> QED BY <1>2, UpTo
  <2>2. top + 1 \in Nat
    OBVIOUS
  <2> HIDE DEF S
  <2> QED BY <2>1, <2>2
<1>4. Below(top + 1) = D
  OBVIOUS
<1>5. \E f : f = [i \in D |-> Def(a, b, c, d, f, i)]
  BY <1>3, <1>4
<1> QED BY <1>5 DEF Fix

\* A function solves a recursive definition.
Solves(a, b, c, d, D, f) == \A i \in D : f[i] = Def(a, b, c, d, f, i)

\* Two functions that solve a recursive definition agree.
LEMMA Agree ==
  ASSUME WellOrdered, NEW a, NEW b, NEW c, NEW d, NEW D, NEW top \in Nat, NEW rank \in [D -> 0 .. top], Causal(a, b, c, d, D, rank),
         NEW f, NEW g, Solves(a, b, c, d, D, f), Solves(a, b, c, d, D, g)
  PROVE  \A i \in D : f[i] = g[i]
<1> DEFINE S == {m \in Nat : \A i \in D : rank[i] = m => f[i] = g[i]}
<1>1. ASSUME NEW m \in Nat, \A k \in 0 .. m - 1 : k \in S PROVE m \in S
  <2> SUFFICES ASSUME NEW i \in D, rank[i] = m PROVE f[i] = g[i]
    OBVIOUS
  <2>1. \A j \in D : rank[j] < rank[i] => f[j] = g[j]
    <3> SUFFICES ASSUME NEW j \in D, rank[j] < rank[i] PROVE f[j] = g[j]
      OBVIOUS
    <3>1. rank[j] \in 0 .. m - 1
      OBVIOUS
    <3> QED BY <1>1, <3>1
  <2>2. Def(a, b, c, d, f, i) = Def(a, b, c, d, g, i)
    BY <2>1 DEF Causal
  <2> QED BY <2>2 DEF Solves
<1>2. \A m \in Nat : m \in S
  <2> HIDE DEF S
  <2> QED BY <1>1, UpTo
<1>3. ASSUME NEW i \in D PROVE f[i] = g[i]
  <2>1. rank[i] \in Nat
    OBVIOUS
  <2> QED BY <1>2, <2>1
<1> QED BY <1>3

\* Induction over a recursive function.
LEMMA Induction ==
  ASSUME WellOrdered, NEW a, NEW b, NEW c, NEW d, NEW D, NEW top \in Nat, NEW rank \in [D -> 0 .. top], Causal(a, b, c, d, D, rank), NEW g, NEW e,
         \A f : \A i \in D :
           (\A j \in D : rank[j] < rank[i] => P(g, e, j, f[j])) => P(g, e, i, Def(a, b, c, d, f, i))
  PROVE  \A i \in D : P(g, e, i, Fix(a, b, c, d, D)[i])
<1> DEFINE F == Fix(a, b, c, d, D)
           S == {m \in Nat : \A i \in D : rank[i] = m => P(g, e, i, F[i])}
<1>1. \A i \in D : F[i] = Def(a, b, c, d, F, i)
  BY Defined
<1> HIDE DEF F
<1>2. ASSUME NEW m \in Nat, \A k \in 0 .. m - 1 : k \in S PROVE m \in S
  <2> SUFFICES ASSUME NEW i \in D, rank[i] = m PROVE P(g, e, i, F[i])
    OBVIOUS
  <2>1. \A j \in D : rank[j] < rank[i] => P(g, e, j, F[j])
    <3> SUFFICES ASSUME NEW j \in D, rank[j] < rank[i] PROVE P(g, e, j, F[j])
      OBVIOUS
    <3>1. rank[j] \in 0 .. m - 1
      OBVIOUS
    <3> QED BY <1>2, <3>1
  <2> QED BY <1>1, <2>1
<1>3. \A m \in Nat : m \in S
  <2> HIDE DEF S
  <2> QED BY <1>2, UpTo
<1>4. ASSUME NEW i \in D PROVE P(g, e, i, F[i])
  <2>1. rank[i] \in Nat
    OBVIOUS
  <2> QED BY <1>3, <2>1
<1> QED BY <1>4 DEF F

\* The same for a function on an interval, by the values at smaller places,
LEMMA IntervalInduction ==
  ASSUME WellOrdered, NEW a, NEW b, NEW c, NEW d, NEW lo \in Nat, NEW n \in Nat, NEW g, NEW e,
         \A f, h : \A i \in lo .. n :
           (\A j \in lo .. i - 1 : f[j] = h[j]) => Def(a, b, c, d, f, i) = Def(a, b, c, d, h, i),
         \A f : \A i \in lo .. n :
           (\A j \in lo .. i - 1 : P(g, e, j, f[j])) => P(g, e, i, Def(a, b, c, d, f, i))
  PROVE  /\ Fix(a, b, c, d, lo .. n) = [i \in lo .. n |-> Def(a, b, c, d, Fix(a, b, c, d, lo .. n), i)]
         /\ \A i \in lo .. n : P(g, e, i, Fix(a, b, c, d, lo .. n)[i])
<1> DEFINE D == lo .. n
           rank == [i \in D |-> i]
<1>1. rank \in [D -> 0 .. n] /\ \A i \in D : rank[i] = i
  OBVIOUS
<1>2. \A i \in D : \A j : j \in lo .. i - 1 => j \in D /\ rank[j] < rank[i]
  OBVIOUS
<1> HIDE DEF rank
<1>3. Causal(a, b, c, d, D, rank)
  <2> SUFFICES ASSUME NEW f, NEW h, NEW i \in D, \A j \in D : rank[j] < rank[i] => f[j] = h[j]
               PROVE  Def(a, b, c, d, f, i) = Def(a, b, c, d, h, i)
    BY DEF Causal
  <2>1. \A j \in lo .. i - 1 : f[j] = h[j]
    BY <1>2
  <2> QED BY <2>1
<1>4. \A f : \A i \in D : (\A j \in D : rank[j] < rank[i] => P(g, e, j, f[j])) => P(g, e, i, Def(a, b, c, d, f, i))
  <2> SUFFICES ASSUME NEW f, NEW i \in D, \A j \in D : rank[j] < rank[i] => P(g, e, j, f[j])
               PROVE  P(g, e, i, Def(a, b, c, d, f, i))
    OBVIOUS
  <2>1. \A j \in lo .. i - 1 : P(g, e, j, f[j])
    BY <1>2
  <2> QED BY <2>1
<1> HIDE DEF D
<1>5. /\ Fix(a, b, c, d, D) = [i \in D |-> Def(a, b, c, d, Fix(a, b, c, d, D), i)]
      /\ \A i \in D : P(g, e, i, Fix(a, b, c, d, D)[i])
  BY <1>1, <1>3, <1>4, Defined, Induction
<1> QED BY <1>5 DEF D

\* A fold over a list of n elements is a function on sets of positions.  Its value
\* depends on the round before, and every round keeps what is shown.
Rounds(a, b, c, d, n) ==
  \A f, h : \A S \in SUBSET (1 .. n) :
    (S # {} => f[S \ {Max(S)}] = h[S \ {Max(S)}]) => Def(a, b, c, d, f, S) = Def(a, b, c, d, h, S)
Keeps(a, b, c, d, n, g, e) ==
  \A f : \A S \in SUBSET (1 .. n) :
    (S # {} => Max(S) \in S /\ P(g, e, S \ {Max(S)}, f[S \ {Max(S)}])) => P(g, e, S, Def(a, b, c, d, f, S))
Loop(a, b, c, d, n) == Fix(a, b, c, d, SUBSET (1 .. n))[1 .. n]

\* The rounds of a fold are made in the order of their last positions.
LEMMA RoundsAreRanked ==
  ASSUME WellOrdered, NEW a, NEW b, NEW c, NEW d, NEW n \in Nat, Rounds(a, b, c, d, n)
  PROVE  \E rank \in [SUBSET (1 .. n) -> 0 .. n] :
           /\ Causal(a, b, c, d, SUBSET (1 .. n), rank)
           /\ \A S \in SUBSET (1 .. n) : S # {} =>
                /\ Max(S) \in S /\ S \ {Max(S)} \in SUBSET (1 .. n)
                /\ rank[S \ {Max(S)}] < rank[S]
<1> DEFINE D == SUBSET (1 .. n)
           rank == [S \in D |-> IF S = {} THEN 0 ELSE Max(S)]
<1>1. ASSUME NEW S \in D, S # {} PROVE Max(S) \in S /\ \A x \in S : x <= Max(S)
  <2>1. \E x \in S : \A y \in S : x >= y
    <3> DEFINE N == {k \in Nat : \E x \in S : n - x = k}
    <3>3. N # {} /\ N \subseteq Nat
      <4>1. PICK x \in S : TRUE
        BY <1>1
      <4>2. n - x \in N
        OBVIOUS
      <4> QED BY <4>2
    <3>4. PICK k \in N : \A j \in N : k <= j
      <4> HIDE DEF N
      <4> QED BY <3>3 DEF WellOrdered
    <3>5. PICK x \in S : n - x = k
      BY <3>4
    <3>6. ASSUME NEW y \in S PROVE x >= y
      <4>1. n - y \in N
        OBVIOUS
      <4>2. k <= n - y
        BY <3>4, <4>1
      <4> QED BY <3>5, <4>2
    <3> QED BY <3>6
  <2> QED BY <2>1 DEF Max
<1>2. rank \in [D -> 0 .. n] /\ \A S \in D : rank[S] = IF S = {} THEN 0 ELSE Max(S)
  <2>1. \A S \in D : S # {} => Max(S) \in 1 .. n
    <3> SUFFICES ASSUME NEW S \in D, S # {} PROVE Max(S) \in 1 .. n
      OBVIOUS
    <3>1. Max(S) \in S
      BY <1>1
    <3> QED BY <3>1
  <2> HIDE DEF D
  <2> QED BY <2>1
<1>3. ASSUME NEW S \in D, S # {}
      PROVE  S \ {Max(S)} \in D /\ rank[S \ {Max(S)}] < rank[S]
  <2> DEFINE T == S \ {Max(S)}
  <2>0. Max(S) \in S /\ \A x \in S : x <= Max(S)
    BY <1>1, <1>3
  <2>1. T \in D /\ \A x \in S : x \in Nat /\ 0 < x
    <3>1. T \in D /\ S \subseteq 1 .. n
      OBVIOUS
    <3>2. \A x \in 1 .. n : x \in Nat /\ 0 < x
      OBVIOUS
    <3> HIDE DEF D, T, rank
    <3> QED BY <3>1, <3>2
  <2>2. CASE T = {}
    <3>1. rank[T] = 0 /\ rank[S] = Max(S) /\ Max(S) \in S
      <4> HIDE DEF D, rank
      <4> QED BY <1>2, <1>3, <2>0, <2>1, <2>2
    <3>2. 0 < Max(S)
      <4> HIDE DEF D, T, rank
      <4> QED BY <2>0, <2>1
    <3> QED BY <2>1, <3>1, <3>2
  <2>3. CASE T # {}
    <3>1. Max(T) \in T
      BY <1>1, <2>1, <2>3
    <3>2. Max(T) < Max(S)
      <4>1. Max(T) \in S /\ Max(T) # Max(S)
        BY <3>1
      <4>2. Max(T) <= Max(S)
        BY <2>0, <4>1
      <4>3. Max(T) \in Nat /\ Max(S) \in Nat
        <5> HIDE DEF D, T, rank
        <5> QED BY <2>0, <2>1, <4>1
      <4> QED BY <4>1, <4>2, <4>3
    <3> QED BY <1>2, <1>3, <2>1, <2>3, <3>2
  <2> QED BY <2>1, <2>2, <2>3
<1> HIDE DEF rank
<1>4. Causal(a, b, c, d, D, rank)
  <2> SUFFICES ASSUME NEW f, NEW h, NEW S \in D, \A T \in D : rank[T] < rank[S] => f[T] = h[T]
               PROVE  Def(a, b, c, d, f, S) = Def(a, b, c, d, h, S)
    BY DEF Causal
  <2>1. S # {} => f[S \ {Max(S)}] = h[S \ {Max(S)}]
    BY <1>3
  <2> QED BY <2>1 DEF Rounds
<1>5. \A S \in D : S # {} => Max(S) \in S /\ S \ {Max(S)} \in D /\ rank[S \ {Max(S)}] < rank[S]
  BY <1>1, <1>3
<1> HIDE DEF D
<1>6. /\ rank \in [D -> 0 .. n] /\ Causal(a, b, c, d, D, rank)
      /\ \A S \in D : S # {} => Max(S) \in S /\ S \ {Max(S)} \in D /\ rank[S \ {Max(S)}] < rank[S]
  BY <1>2, <1>4, <1>5
<1> QED BY <1>6 DEF D

\* What holds at first and is kept by every round holds at the end.
LEMMA FoldInduction ==
  ASSUME WellOrdered, NEW a, NEW b, NEW c, NEW d, NEW n \in Nat, NEW g, NEW e,
         Rounds(a, b, c, d, n), Keeps(a, b, c, d, n, g, e)
  PROVE  P(g, e, 1 .. n, Loop(a, b, c, d, n))
<1> DEFINE D == SUBSET (1 .. n)
<1>1. PICK rank \in [D -> 0 .. n] :
        /\ Causal(a, b, c, d, D, rank)
        /\ \A S \in D : S # {} =>
             Max(S) \in S /\ S \ {Max(S)} \in D /\ rank[S \ {Max(S)}] < rank[S]
  BY RoundsAreRanked
<1>2. \A f : \A S \in D : (\A T \in D : rank[T] < rank[S] => P(g, e, T, f[T])) => P(g, e, S, Def(a, b, c, d, f, S))
  <2> SUFFICES ASSUME NEW f, NEW S \in D, \A T \in D : rank[T] < rank[S] => P(g, e, T, f[T])
               PROVE  P(g, e, S, Def(a, b, c, d, f, S))
    OBVIOUS
  <2>1. S # {} => Max(S) \in S /\ P(g, e, S \ {Max(S)}, f[S \ {Max(S)}])
    BY <1>1
  <2> QED BY <2>1 DEF Keeps
<1>3. 1 .. n \in D
  OBVIOUS
<1> HIDE DEF D
<1>4. \A S \in D : P(g, e, S, Fix(a, b, c, d, D)[S])
  BY <1>1, <1>2, Induction
<1> QED BY <1>3, <1>4 DEF D, Loop

\* A fold over no element is its first value.
LEMMA FoldStart ==
  ASSUME WellOrdered, NEW a, NEW b, NEW c, NEW d, Rounds(a, b, c, d, 0)
  PROVE  \E f : Loop(a, b, c, d, 0) = Def(a, b, c, d, f, {})
<1> DEFINE D == SUBSET (1 .. 0)
<1>1. PICK rank \in [D -> 0 .. 0] : Causal(a, b, c, d, D, rank)
  BY RoundsAreRanked
<1>2. 1 .. 0 = {} /\ {} \in D
  OBVIOUS
<1> HIDE DEF D
<1>3. Fix(a, b, c, d, D) = [i \in D |-> Def(a, b, c, d, Fix(a, b, c, d, D), i)]
  BY <1>1, Defined
<1>4. Fix(a, b, c, d, D)[{}] = Def(a, b, c, d, Fix(a, b, c, d, D), {})
  BY <1>2, <1>3
<1> QED BY <1>2, <1>4 DEF Loop, D

\* One more element is one more round, after the fold over the others.
LEMMA FoldNext ==
  ASSUME WellOrdered, NEW a, NEW b, NEW c, NEW d, NEW u, NEW v, NEW w, NEW x, NEW n \in Nat,
         Rounds(a, b, c, d, n + 1), Rounds(u, v, w, x, n),
         \A f : \A S \in SUBSET (1 .. n) : Def(a, b, c, d, f, S) = Def(u, v, w, x, f, S)
  PROVE  \E f : /\ f[1 .. n] = Loop(u, v, w, x, n)
               /\ Loop(a, b, c, d, n + 1) = Def(a, b, c, d, f, 1 .. n + 1)
<1> DEFINE D == SUBSET (1 .. n + 1)
           E == SUBSET (1 .. n)
           f == Fix(a, b, c, d, D)
           g == Fix(u, v, w, x, E)
<1>0. n + 1 \in Nat
  OBVIOUS
<1>1. PICK rank \in [D -> 0 .. n + 1] : Causal(a, b, c, d, D, rank)
  BY <1>0, RoundsAreRanked
<1>2. PICK r \in [E -> 0 .. n] : Causal(u, v, w, x, E, r)
  BY RoundsAreRanked
<1>3. E \subseteq D /\ 1 .. n \in E /\ 1 .. n + 1 \in D
  OBVIOUS
<1>4. \A h : \A S \in E : Def(a, b, c, d, h, S) = Def(u, v, w, x, h, S)
  OBVIOUS
<1> HIDE DEF D, E
<1>5. f = [i \in D |-> Def(a, b, c, d, f, i)]
  BY <1>0, <1>1, Defined
<1>6. g = [i \in E |-> Def(u, v, w, x, g, i)]
  BY <1>2, Defined
<1> HIDE DEF f, g
<1>7. Solves(u, v, w, x, E, f)
  BY <1>3, <1>4, <1>5 DEF Solves
<1>8. Solves(u, v, w, x, E, g)
  BY <1>6 DEF Solves
<1>9. \A i \in E : f[i] = g[i]
  BY <1>2, <1>7, <1>8, Agree
<1>10. f[1 .. n] = g[1 .. n] /\ f[1 .. n + 1] = Def(a, b, c, d, f, 1 .. n + 1)
  BY <1>3, <1>5, <1>9
<1> QED BY <1>10 DEF f, g, D, E, Loop
============================================================================
