--------------------------- MODULE EncoderProofs ---------------------------
(***************************************************************************)
(* Proofs about conditions and the encoder, for every provider.            *)
(***************************************************************************)
EXTENDS Encoder, SequenceTheorems, FiniteSetTheorems, TLAPS

\* The tracker of the solver is that of DecisionTrackerProofs.
Tr == INSTANCE DecisionTrackerProofs WITH Variable <- Variable, Reason <- Nat

----------------------------------------------------------------------------
(* Sequences                                                                *)

\* The elements of a sequence of sequences.
Elements(seqs, n) == UNION {ToSet(seqs[j]) : j \in 1 .. n}

\* FlattenSeq as a recursive function, and what it has collected after i parts.
FlattenDef(seqs, b, c, d, f, i) == IF i = 1 THEN seqs[i] ELSE f[i-1] \o seqs[i]
FlattenHolds(T, seqs, i, v) == v \in Seq(T) /\ ToSet(v) = Elements(seqs, i)
Flat == INSTANCE Recursion WITH Def <- FlattenDef, P <- FlattenHolds

\* The elements of a sequence are of its type.
LEMMA ToSetType ==
  ASSUME NEW T, NEW q \in Seq(T)
  PROVE  /\ ToSet(q) \subseteq T
         /\ DOMAIN q = 1 .. Len(q) /\ Len(q) \in Nat
         /\ \A i \in DOMAIN q : q[i] \in T /\ q[i] \in ToSet(q)
  BY DEF ToSet

\* The elements of a concatenation are those of both parts.
LEMMA ConcatSet ==
  ASSUME NEW T, NEW p \in Seq(T), NEW q \in Seq(T)
  PROVE  p \o q \in Seq(T) /\ ToSet(p \o q) = ToSet(p) \cup ToSet(q)
<1>1. p \o q \in Seq(T) /\ Len(p \o q) = Len(p) + Len(q)
      /\ \A i \in 1 .. Len(p) + Len(q) : (p \o q)[i] = IF i <= Len(p) THEN p[i] ELSE q[i - Len(p)]
  BY ConcatProperties
<1>2. \A x \in ToSet(p) : x \in ToSet(p \o q)
  <2> SUFFICES ASSUME NEW i \in 1 .. Len(p) PROVE p[i] \in ToSet(p \o q)
    BY DEF ToSet
  <2>1. i \in DOMAIN (p \o q) /\ (p \o q)[i] = p[i]
    BY <1>1
  <2> QED BY <2>1 DEF ToSet
<1>3. \A x \in ToSet(q) : x \in ToSet(p \o q)
  <2> SUFFICES ASSUME NEW i \in 1 .. Len(q) PROVE q[i] \in ToSet(p \o q)
    BY DEF ToSet
  <2>1. i + Len(p) \in DOMAIN (p \o q) /\ (p \o q)[i + Len(p)] = q[i]
    BY <1>1
  <2> QED BY <2>1 DEF ToSet
<1>4. \A x \in ToSet(p \o q) : x \in ToSet(p) \cup ToSet(q)
  <2> SUFFICES ASSUME NEW i \in 1 .. Len(p \o q) PROVE (p \o q)[i] \in ToSet(p) \cup ToSet(q)
    BY <1>1 DEF ToSet
  <2>1. CASE i <= Len(p)
    BY <1>1, <2>1 DEF ToSet
  <2>2. CASE ~(i <= Len(p))
    <3>1. i - Len(p) \in DOMAIN q
      BY <1>1, <2>2
    <3> QED BY <1>1, <2>2, <3>1 DEF ToSet
  <2> QED BY <2>1, <2>2
<1> QED BY <1>1, <1>2, <1>3, <1>4

\* FlattenSeq returns the elements of all its parts.
LEMMA FlattenElements ==
  ASSUME NEW T, NEW seqs \in Seq(Seq(T))
  PROVE  FlattenSeq(seqs) \in Seq(T) /\ ToSet(FlattenSeq(seqs)) = Elements(seqs, Len(seqs))
<1>0. Len(seqs) \in Nat /\ DOMAIN seqs = 1 .. Len(seqs)
      /\ \A i \in 1 .. Len(seqs) : seqs[i] \in Seq(T)
  OBVIOUS
<1>1. CASE Len(seqs) = 0
  <2>1. FlattenSeq(seqs) = << >> /\ seqs = << >>
    BY <1>1, EmptySeq DEF FlattenSeq
  <2>2. Elements(seqs, Len(seqs)) = {}
    BY <1>1 DEF Elements
  <2>3. ToSet(<< >>) = {}
    BY DEF ToSet
  <2> QED BY <2>1, <2>2, <2>3, EmptySeq
<1>2. CASE Len(seqs) # 0
  <2> DEFINE n == Len(seqs)
  <2>1. FlattenSeq(seqs) = Flat!Fix(seqs, 0, 0, 0, 1 .. n)[n]
    BY <1>2 DEF FlattenSeq, Flat!Fix, FlattenDef
  <2>2. \A f, h : \A i \in 1 .. n :
          (\A j \in 1 .. i - 1 : f[j] = h[j])
             => FlattenDef(seqs, 0, 0, 0, f, i) = FlattenDef(seqs, 0, 0, 0, h, i)
    <3>1. \A i \in 1 .. n : i # 1 => i - 1 \in 1 .. i - 1
      BY <1>0
    <3> QED BY <3>1 DEF FlattenDef
  <2>3. \A f : \A i \in 1 .. n :
          (\A j \in 1 .. i - 1 : FlattenHolds(T, seqs, j, f[j]))
             => FlattenHolds(T, seqs, i, FlattenDef(seqs, 0, 0, 0, f, i))
    <3> SUFFICES ASSUME NEW f, NEW i \in 1 .. n,
                        \A j \in 1 .. i - 1 : FlattenHolds(T, seqs, j, f[j])
                 PROVE  FlattenHolds(T, seqs, i, FlattenDef(seqs, 0, 0, 0, f, i))
      OBVIOUS
    <3>1. seqs[i] \in Seq(T)
      BY <1>0
    <3>2. CASE i = 1
      BY <3>1, <3>2 DEF FlattenHolds, FlattenDef, Elements
    <3>3. CASE i # 1
      <4>1. i - 1 \in 1 .. i - 1
        BY <1>0, <3>3
      <4>2. f[i - 1] \in Seq(T) /\ ToSet(f[i - 1]) = Elements(seqs, i - 1)
        BY <4>1 DEF FlattenHolds
      <4>3. Elements(seqs, i) = Elements(seqs, i - 1) \cup ToSet(seqs[i])
        <5>1. 1 .. i = (1 .. i - 1) \cup {i}
          BY <1>0, <3>3
        <5> QED BY <5>1, Zenon DEF Elements
      <4>4. FlattenDef(seqs, 0, 0, 0, f, i) = f[i - 1] \o seqs[i]
        BY <3>3 DEF FlattenDef
      <4>5. f[i - 1] \o seqs[i] \in Seq(T)
            /\ ToSet(f[i - 1] \o seqs[i]) = ToSet(f[i - 1]) \cup ToSet(seqs[i])
        BY <3>1, <4>2, ConcatSet
      <4> QED BY <4>2, <4>3, <4>4, <4>5 DEF FlattenHolds
    <3> QED BY <3>2, <3>3
  <2>4. FlattenHolds(T, seqs, n, Flat!Fix(seqs, 0, 0, 0, 1 .. n)[n])
    <3>1. n \in 1 .. n /\ n \in Nat /\ 1 \in Nat
      BY <1>0, <1>2
    <3> HIDE DEF n
    <3>2. \A i \in 1 .. n : FlattenHolds(T, seqs, i, Flat!Fix(seqs, 0, 0, 0, 1 .. n)[i])
      BY <2>2, <2>3, <3>1, Flat!IntervalInduction, Tr!LeastNatural DEF Flat!WellOrdered
    <3> QED BY <3>1, <3>2
  <2> QED BY <2>1, <2>4 DEF FlattenHolds
<1> QED BY <1>1, <1>2

----------------------------------------------------------------------------
(* Conditions and their disjunctive normal form                             *)

\* ConditionHolds as a recursive function.
HoldsDef(met, b, c, d, f, i) == Truth(f, Conditions[i], met)
Holding == INSTANCE Recursion WITH Def <- HoldsDef, P <- LAMBDA g, e, i, v : TRUE

\* ConvertConditionsToDnf as a recursive function.
DnfDef(a, b, c, d, f, i) == Converted(f, Conditions[i])

\* A disjunctive normal form says of met what condition i says of it.
SomeHolds(v, met) == \E d \in ToSet(v) : DisjunctHolds(d, met)
DnfHolds(met, h, i, v) ==
  v \in Seq(Seq(VersionSet)) /\ (ConditionHolds(i, met) <=> SomeHolds(v, met))
Normal == INSTANCE Recursion WITH Def <- DnfDef, P <- DnfHolds

\* The expression behind a condition is an atom or is made of earlier ones.
LEMMA ConditionForms ==
  ASSUME NEW c \in ConditionId
  PROVE  \/ Conditions[c].op = "Requirement" /\ Conditions[c].version_set \in VersionSet
         \/ /\ Conditions[c].op \in {"And", "Or"}
            /\ Conditions[c].lhs \in 1 .. c - 1 /\ Conditions[c].rhs \in 1 .. c - 1
<1>1. \/ \E vs \in VersionSet : Conditions[c] = Atom(vs)
      \/ \E op \in {"And", "Or"}, lhs, rhs \in 1 .. c - 1 : Conditions[c] = Binary(op, lhs, rhs)
  BY ConditionsAssumption DEF ConditionId
<1>2. ASSUME NEW vs \in VersionSet, Conditions[c] = Atom(vs)
      PROVE  Conditions[c].op = "Requirement" /\ Conditions[c].version_set \in VersionSet
  BY <1>2 DEF Atom
<1>3. ASSUME NEW op \in {"And", "Or"}, NEW lhs \in 1 .. c - 1, NEW rhs \in 1 .. c - 1,
             Conditions[c] = Binary(op, lhs, rhs)
      PROVE  /\ Conditions[c].op \in {"And", "Or"}
             /\ Conditions[c].lhs \in 1 .. c - 1 /\ Conditions[c].rhs \in 1 .. c - 1
  BY <1>3 DEF Binary
<1> QED BY <1>1, <1>2, <1>3

\* What a condition says, by its form.
LEMMA ConditionByForm ==
  ASSUME NEW c \in ConditionId, NEW met
  PROVE  LET e == Conditions[c]
         IN /\ e.op = "Requirement" => (ConditionHolds(c, met) <=> e.version_set \in met)
            /\ e.op = "Or" =>
                 (ConditionHolds(c, met) <=> ConditionHolds(e.lhs, met) \/ ConditionHolds(e.rhs, met))
            /\ e.op = "And" =>
                 (ConditionHolds(c, met) <=> ConditionHolds(e.lhs, met) /\ ConditionHolds(e.rhs, met))
<1> DEFINE n == Len(Conditions)
           F == Holding!Fix(met, 0, 0, 0, 1 .. n)
<1>1. n \in Nat /\ ConditionId = 1 .. n /\ 1 \in Nat
  BY ConditionsAssumption DEF ConditionId
<1>2. \A f, h : \A i \in 1 .. n :
        (\A j \in 1 .. i - 1 : f[j] = h[j]) => HoldsDef(met, 0, 0, 0, f, i) = HoldsDef(met, 0, 0, 0, h, i)
  <2> SUFFICES ASSUME NEW f, NEW h, NEW i \in 1 .. n, \A j \in 1 .. i - 1 : f[j] = h[j]
               PROVE  HoldsDef(met, 0, 0, 0, f, i) = HoldsDef(met, 0, 0, 0, h, i)
    OBVIOUS
  <2> DEFINE e == Conditions[i]
  <2>1. e.op # "Requirement" => f[e.lhs] = h[e.lhs] /\ f[e.rhs] = h[e.rhs]
    BY <1>1, ConditionForms
  <2> QED BY <2>1, ConditionForms, <1>1 DEF HoldsDef, Truth
<1>3. F = [i \in 1 .. n |-> HoldsDef(met, 0, 0, 0, F, i)]
  <2>1. Holding!WellOrdered
    BY Tr!LeastNatural DEF Holding!WellOrdered
  <2> HIDE DEF n
  <2> QED BY <1>1, <1>2, <2>1, Holding!IntervalInduction
<1>4. \A d : ConditionHolds(d, met) = F[d]
  BY DEF ConditionHolds, ConditionId, Holding!Fix, HoldsDef
<1> HIDE DEF F, n
<1>5. F[c] = HoldsDef(met, 0, 0, 0, F, c)
  BY <1>1, <1>3
<1> QED BY <1>4, <1>5 DEF HoldsDef, Truth

\* The conjunction of two normal forms, as convert_conditions_to_dnf distributes it.
LEMMA ProductHolds ==
  ASSUME NEW T, NEW p \in Seq(Seq(T)), NEW q \in Seq(Seq(T)), NEW met
  PROVE  /\ Distributed(p, q) \in Seq(Seq(T))
         /\ SomeHolds(Distributed(p, q), met) <=> SomeHolds(p, met) /\ SomeHolds(q, met)
<1> DEFINE row(k) == [j \in DOMAIN q |-> p[k] \o q[j]]
           rows == [k \in DOMAIN p |-> row(k)]
           r == FlattenSeq(rows)
<1>1. /\ DOMAIN p = 1 .. Len(p) /\ DOMAIN q = 1 .. Len(q) /\ Len(p) \in Nat /\ Len(q) \in Nat
      /\ \A k \in DOMAIN p : p[k] \in Seq(T)
      /\ \A j \in DOMAIN q : q[j] \in Seq(T)
  OBVIOUS
<1>2. \A k \in DOMAIN p, j \in DOMAIN q :
        p[k] \o q[j] \in Seq(T) /\ ToSet(p[k] \o q[j]) = ToSet(p[k]) \cup ToSet(q[j])
  BY <1>1, ConcatSet
<1>3. \A k \in DOMAIN p : row(k) \in Seq(Seq(T))
  BY <1>1, <1>2
<1>4. rows \in Seq(Seq(Seq(T))) /\ Len(rows) = Len(p)
  <2> HIDE DEF row
  <2> QED BY <1>1, <1>3
<1>5. r \in Seq(Seq(T)) /\ ToSet(r) = Elements(rows, Len(rows))
  <2> HIDE DEF rows
  <2> QED BY <1>4, FlattenElements
<1>6. \A d : d \in ToSet(r) <=> \E k \in DOMAIN p, j \in DOMAIN q : d = p[k] \o q[j]
  <2>1. \A k \in DOMAIN p : \A d : d \in ToSet(rows[k]) <=> \E j \in DOMAIN q : d = p[k] \o q[j]
    BY DEF ToSet
  <2>2. ToSet(r) = UNION {ToSet(rows[k]) : k \in DOMAIN p}
    BY <1>1, <1>4, <1>5 DEF Elements
  <2>3. \A d : d \in ToSet(r) <=> \E k \in DOMAIN p : d \in ToSet(rows[k])
    <3> HIDE DEF rows, r
    <3> QED BY <2>2
  <2> HIDE DEF rows, r
  <2>4. ASSUME NEW d, d \in ToSet(r)
        PROVE  \E k \in DOMAIN p, j \in DOMAIN q : d = p[k] \o q[j]
    <3>1. PICK k \in DOMAIN p : d \in ToSet(rows[k])
      BY <2>3, <2>4
    <3>2. PICK j \in DOMAIN q : d = p[k] \o q[j]
      BY <2>1, <3>1
    <3> QED BY <3>2
  <2>5. ASSUME NEW d, NEW k \in DOMAIN p, NEW j \in DOMAIN q, d = p[k] \o q[j]
        PROVE  d \in ToSet(r)
    BY <2>1, <2>3, <2>5
  <2> QED BY <2>4, <2>5
<1> HIDE DEF r
<1>7. SomeHolds(r, met) <=> \E k \in DOMAIN p, j \in DOMAIN q : ToSet(p[k] \o q[j]) \subseteq met
  BY <1>6, Zenon DEF SomeHolds, DisjunctHolds
<1>8. SomeHolds(p, met) <=> \E k \in DOMAIN p : ToSet(p[k]) \subseteq met
  BY Zenon DEF SomeHolds, DisjunctHolds, ToSet
<1>9. SomeHolds(q, met) <=> \E j \in DOMAIN q : ToSet(q[j]) \subseteq met
  BY Zenon DEF SomeHolds, DisjunctHolds, ToSet
<1>10. \A k \in DOMAIN p, j \in DOMAIN q :
         ToSet(p[k] \o q[j]) \subseteq met <=> ToSet(p[k]) \subseteq met /\ ToSet(q[j]) \subseteq met
  BY <1>2
<1>11. SomeHolds(r, met) <=> SomeHolds(p, met) /\ SomeHolds(q, met)
  BY <1>7, <1>8, <1>9, <1>10, Zenon
<1>12. Distributed(p, q) = r
  BY DEF r, Distributed
<1> QED BY <1>5, <1>11, <1>12

\* The disjunctive normal form of a condition holds when the condition does.
LEMMA DnfIsExact ==
  ASSUME NEW c \in ConditionId, NEW met
  PROVE  /\ ConvertConditionsToDnf(c) \in Seq(Seq(VersionSet))
         /\ ConditionHolds(c, met) <=> SomeHolds(ConvertConditionsToDnf(c), met)
<1> DEFINE n == Len(Conditions)
<1>1. n \in Nat /\ ConditionId = 1 .. n /\ 1 \in Nat
  BY ConditionsAssumption DEF ConditionId
<1>2. \A f, h : \A i \in 1 .. n :
        (\A j \in 1 .. i - 1 : f[j] = h[j]) => DnfDef(0, 0, 0, 0, f, i) = DnfDef(0, 0, 0, 0, h, i)
  <2> SUFFICES ASSUME NEW f, NEW h, NEW i \in 1 .. n, \A j \in 1 .. i - 1 : f[j] = h[j]
               PROVE  DnfDef(0, 0, 0, 0, f, i) = DnfDef(0, 0, 0, 0, h, i)
    OBVIOUS
  <2> DEFINE e == Conditions[i]
  <2>1. e.op # "Requirement" => f[e.lhs] = h[e.lhs] /\ f[e.rhs] = h[e.rhs]
    BY <1>1, ConditionForms
  <2>2. e.op \in {"Requirement", "And", "Or"}
    BY <1>1, ConditionForms
  <2> QED BY <2>1, <2>2 DEF DnfDef, Converted
<1>3. \A f : \A i \in 1 .. n :
        (\A j \in 1 .. i - 1 : DnfHolds(met, 0, j, f[j])) => DnfHolds(met, 0, i, DnfDef(0, 0, 0, 0, f, i))
  <2> SUFFICES ASSUME NEW f, NEW i \in 1 .. n, \A j \in 1 .. i - 1 : DnfHolds(met, 0, j, f[j])
               PROVE  DnfHolds(met, 0, i, DnfDef(0, 0, 0, 0, f, i))
    OBVIOUS
  <2> DEFINE e == Conditions[i]
             p == f[e.lhs]
             q == f[e.rhs]
  <2>1. CASE e.op = "Requirement"
    <3>1. e.version_set \in VersionSet
      BY <1>1, <2>1, ConditionForms
    <3>2. DnfDef(0, 0, 0, 0, f, i) = << <<e.version_set>> >>
      BY <2>1 DEF DnfDef, Converted
    <3>3. << <<e.version_set>> >> \in Seq(Seq(VersionSet))
      BY <3>1
    <3>4. ToSet(<< <<e.version_set>> >>) = {<<e.version_set>>} /\ ToSet(<<e.version_set>>) = {e.version_set}
      BY DEF ToSet
    <3>5. ConditionHolds(i, met) <=> e.version_set \in met
      BY <1>1, <2>1, ConditionByForm
    <3> HIDE DEF e
    <3> QED BY <3>2, <3>3, <3>4, <3>5 DEF DnfHolds, SomeHolds, DisjunctHolds
  <2>2. ASSUME e.op # "Requirement"
        PROVE  /\ p \in Seq(Seq(VersionSet)) /\ q \in Seq(Seq(VersionSet))
               /\ ConditionHolds(e.lhs, met) <=> SomeHolds(p, met)
               /\ ConditionHolds(e.rhs, met) <=> SomeHolds(q, met)
    <3>1. e.lhs \in 1 .. i - 1 /\ e.rhs \in 1 .. i - 1
      BY <1>1, <2>2, ConditionForms
    <3> HIDE DEF e
    <3> QED BY <3>1 DEF DnfHolds
  <2>3. CASE e.op = "Or"
    <3>1. DnfDef(0, 0, 0, 0, f, i) = p \o q
      BY <2>3 DEF DnfDef, Converted
    <3>2. ConditionHolds(i, met) <=> ConditionHolds(e.lhs, met) \/ ConditionHolds(e.rhs, met)
      BY <1>1, <2>3, ConditionByForm
    <3>3. p \o q \in Seq(Seq(VersionSet)) /\ ToSet(p \o q) = ToSet(p) \cup ToSet(q)
      BY <2>2, <2>3, ConcatSet
    <3> HIDE DEF e, p, q
    <3>4. SomeHolds(p \o q, met) <=> SomeHolds(p, met) \/ SomeHolds(q, met)
      BY <3>3 DEF SomeHolds
    <3> QED BY <2>2, <2>3, <3>1, <3>2, <3>3, <3>4 DEF DnfHolds
  <2>4. CASE e.op = "And"
    <3> DEFINE r == Distributed(p, q)
    <3>1. DnfDef(0, 0, 0, 0, f, i) = r
      BY <2>4 DEF DnfDef, Converted
    <3>2. ConditionHolds(i, met) <=> ConditionHolds(e.lhs, met) /\ ConditionHolds(e.rhs, met)
      BY <1>1, <2>4, ConditionByForm
    <3>3. r \in Seq(Seq(VersionSet)) /\ (SomeHolds(r, met) <=> SomeHolds(p, met) /\ SomeHolds(q, met))
      <4> HIDE DEF e, p, q
      <4> QED BY <2>2, <2>4, ProductHolds
    <3> HIDE DEF e, p, q, r
    <3> QED BY <2>2, <2>4, <3>1, <3>2, <3>3 DEF DnfHolds
  <2>5. e.op \in {"Requirement", "And", "Or"}
    BY <1>1, ConditionForms
  <2> QED BY <2>1, <2>3, <2>4, <2>5
<1>4. ConvertConditionsToDnf(c) = Normal!Fix(0, 0, 0, 0, 1 .. n)[c]
  BY DEF ConvertConditionsToDnf, ConditionId, Normal!Fix, DnfDef
<1>5. DnfHolds(met, 0, c, Normal!Fix(0, 0, 0, 0, 1 .. n)[c])
  <2>1. c \in 1 .. n
    BY <1>1
  <2> HIDE DEF n
  <2>2. \A i \in 1 .. n : DnfHolds(met, 0, i, Normal!Fix(0, 0, 0, 0, 1 .. n)[i])
    BY <1>1, <1>2, <1>3, Normal!IntervalInduction, Tr!LeastNatural DEF Normal!WellOrdered
  <2> QED BY <2>1, <2>2
<1> QED BY <1>4, <1>5 DEF DnfHolds

\* Keep as a recursive function, and what it has kept after i elements.
KeepDef(q, S, c, d, f, i) ==
  IF i = 0 THEN << >> ELSE IF q[i] \in S THEN Append(f[i - 1], q[i]) ELSE f[i - 1]
KeepHolds(q, S, i, v) == v \in Seq(ToSet(q)) /\ ToSet(v) = {q[j] : j \in 1 .. i} \cap S
Keeping == INSTANCE Recursion WITH Def <- KeepDef, P <- KeepHolds

\* Appending adds one element.
LEMMA AppendSet ==
  ASSUME NEW T, NEW q \in Seq(T), NEW x \in T
  PROVE  /\ Append(q, x) \in Seq(T) /\ Len(Append(q, x)) = Len(q) + 1
         /\ \A i \in 1 .. Len(q) : Append(q, x)[i] = q[i]
         /\ Append(q, x)[Len(q) + 1] = x
         /\ ToSet(Append(q, x)) = ToSet(q) \cup {x}
<1>1. /\ Append(q, x) \in Seq(T) /\ Len(Append(q, x)) = Len(q) + 1
      /\ \A i \in 1 .. Len(q) : Append(q, x)[i] = q[i]
      /\ Append(q, x)[Len(q) + 1] = x /\ Len(q) \in Nat
      /\ DOMAIN q = 1 .. Len(q) /\ DOMAIN Append(q, x) = 1 .. Len(q) + 1
  OBVIOUS
<1>2. ToSet(Append(q, x)) = ToSet(q) \cup {x}
  BY <1>1 DEF ToSet
<1> QED BY <1>1, <1>2

\* A filter keeps the elements that pass it.
LEMMA KeepElements ==
  ASSUME NEW T, NEW q \in Seq(T), NEW S
  PROVE  Keep(q, S) \in Seq(T) /\ ToSet(Keep(q, S)) = ToSet(q) \cap S
<1> DEFINE n == Len(q)
<1>1. n \in Nat /\ DOMAIN q = 1 .. n /\ 0 \in Nat /\ n \in 0 .. n
  OBVIOUS
<1>2. Keep(q, S) = Keeping!Fix(q, S, 0, 0, 0 .. n)[n]
  BY DEF Keep, Keeping!Fix, KeepDef
<1>3. \A f, h : \A i \in 0 .. n :
        (\A j \in 0 .. i - 1 : f[j] = h[j]) => KeepDef(q, S, 0, 0, f, i) = KeepDef(q, S, 0, 0, h, i)
  <2>1. \A i \in 0 .. n : i # 0 => i - 1 \in 0 .. i - 1
    OBVIOUS
  <2> QED BY <2>1 DEF KeepDef
<1>4. \A f : \A i \in 0 .. n :
        (\A j \in 0 .. i - 1 : KeepHolds(q, S, j, f[j])) => KeepHolds(q, S, i, KeepDef(q, S, 0, 0, f, i))
  <2> SUFFICES ASSUME NEW f, NEW i \in 0 .. n, \A j \in 0 .. i - 1 : KeepHolds(q, S, j, f[j])
               PROVE  KeepHolds(q, S, i, KeepDef(q, S, 0, 0, f, i))
    OBVIOUS
  <2>1. CASE i = 0
    <3>1. << >> \in Seq(ToSet(q)) /\ ToSet(<< >>) = {}
      BY DEF ToSet
    <3> QED BY <2>1, <3>1 DEF KeepHolds, KeepDef
  <2>2. CASE i # 0
    <3>1. i - 1 \in 0 .. i - 1 /\ i \in DOMAIN q /\ 1 .. i = (1 .. i - 1) \cup {i}
      BY <2>2
    <3>2. f[i - 1] \in Seq(ToSet(q)) /\ ToSet(f[i - 1]) = {q[j] : j \in 1 .. i - 1} \cap S
      BY <3>1 DEF KeepHolds
    <3>3. q[i] \in ToSet(q)
      BY <3>1 DEF ToSet
    <3>4. {q[j] : j \in 1 .. i} = {q[j] : j \in 1 .. i - 1} \cup {q[i]}
      BY <3>1
    <3>5. CASE q[i] \in S
      <4>1. KeepDef(q, S, 0, 0, f, i) = Append(f[i - 1], q[i])
        BY <2>2, <3>5 DEF KeepDef
      <4>2. Append(f[i - 1], q[i]) \in Seq(ToSet(q))
            /\ ToSet(Append(f[i - 1], q[i])) = ToSet(f[i - 1]) \cup {q[i]}
        BY <3>2, <3>3, AppendSet
      <4> QED BY <3>2, <3>4, <3>5, <4>1, <4>2 DEF KeepHolds
    <3>6. CASE q[i] \notin S
      <4>1. KeepDef(q, S, 0, 0, f, i) = f[i - 1]
        BY <2>2, <3>6 DEF KeepDef
      <4> QED BY <3>2, <3>4, <3>6, <4>1 DEF KeepHolds
    <3> QED BY <3>5, <3>6
  <2> QED BY <2>1, <2>2
<1>5. KeepHolds(q, S, n, Keeping!Fix(q, S, 0, 0, 0 .. n)[n])
  <2> HIDE DEF n
  <2>1. \A i \in 0 .. n : KeepHolds(q, S, i, Keeping!Fix(q, S, 0, 0, 0 .. n)[i])
    BY <1>1, <1>3, <1>4, Keeping!IntervalInduction, Tr!LeastNatural DEF Keeping!WellOrdered
  <2> QED BY <1>1, <2>1
<1>6. Keep(q, S) \in Seq(ToSet(q)) /\ ToSet(Keep(q, S)) = {q[j] : j \in 1 .. n} \cap S
  BY <1>2, <1>5 DEF KeepHolds
<1>7. ToSet(q) = {q[j] : j \in 1 .. n} /\ ToSet(q) \subseteq T
  BY <1>1 DEF ToSet
<1>8. Seq(ToSet(q)) \subseteq Seq(T)
  BY <1>7
<1> QED BY <1>6, <1>7, <1>8

\* Both instances define the same operators.
LEMMA SameTracker ==
  /\ Tr!Tracker = Tracker /\ Tr!Decision = Decision /\ Tr!Clear = Clear
  /\ \A x : (Tr!Consistent(x) <=> Consistent(x)) /\ Tr!TopLevel(x) = TopLevel(x)
  /\ \A x, d, level : Tr!TryAddDecision(x, d, level) = TryAddDecision(x, d, level)
  /\ \A x, k : Tr!CutTo(x, k) = CutTo(x, k) /\ Tr!KeptLength(x, k) = KeptLength(x, k)
  /\ \A m, v : Tr!LevelOf(m, v) = LevelOf(m, v)
<1>1. Tr!Tracker = Tracker /\ Tr!Decision = Decision /\ Tr!Clear = Clear
  BY DEF Tr!Tracker, Tracker, Tr!Decision, Decision, Tr!Clear, Clear
<1>2. \A x : (Tr!Consistent(x) <=> Consistent(x)) /\ Tr!TopLevel(x) = TopLevel(x)
  BY DEF Tr!Consistent, Consistent, Tr!TopLevel, TopLevel, Tr!LevelOf, LevelOf,
         Tr!IsTrue, IsTrue, Tr!IsUndecided, IsUndecided
<1>3. \A x, d, level : Tr!TryAddDecision(x, d, level) = TryAddDecision(x, d, level)
  BY DEF Tr!TryAddDecision, TryAddDecision, Tr!TryAddResult, TryAddResult, Tr!IsUndecided,
         IsUndecided, Tr!IsTrue, IsTrue, Tr!WithValueAndLevel, WithValueAndLevel
<1>4. \A m, v : Tr!LevelOf(m, v) = LevelOf(m, v)
  BY DEF Tr!LevelOf, LevelOf
<1>5. \A x, k : Tr!CutTo(x, k) = CutTo(x, k)
  BY DEF Tr!CutTo, CutTo
<1>6. \A x, k : Tr!KeptLength(x, k) = KeptLength(x, k)
  BY <1>4 DEF Tr!KeptLength, KeptLength, Tr!LevelOf, LevelOf
<1> QED BY <1>1, <1>2, <1>3, <1>4, <1>5, <1>6

\* The elements of the short sequences that clauses are built from.
LEMMA ShortSequences ==
  /\ \A T : << >> \in Seq(T)
  /\ ToSet(<< >>) = {}
  /\ \A T, x : x \in T => <<x>> \in Seq(T) /\ ToSet(<<x>>) = {x}
  /\ \A T, x, y : x \in T /\ y \in T => <<x, y>> \in Seq(T) /\ ToSet(<<x, y>>) = {x, y}
<1>1. ToSet(<< >>) = {}
  BY DEF ToSet
<1>2. \A x : ToSet(<<x>>) = {x}
  BY DEF ToSet
<1>3. \A x, y : ToSet(<<x, y>>) = {x, y}
  <2> SUFFICES ASSUME NEW x, NEW y PROVE ToSet(<<x, y>>) = {x, y}
    OBVIOUS
  <2>1. DOMAIN <<x, y>> = {1, 2} /\ <<x, y>>[1] = x /\ <<x, y>>[2] = y
    OBVIOUS
  <2> QED BY <2>1 DEF ToSet
<1> QED BY <1>1, <1>2, <1>3

----------------------------------------------------------------------------
(* The trail                                                                *)

\* What the type of a tracker says of its entries.
LEMMA TrailEntries ==
  ASSUME NEW x \in Tracker
  PROVE  /\ x.stack \in Seq(Decision) /\ Len(x.stack) \in Nat /\ DOMAIN x.stack = 1 .. Len(x.stack)
         /\ x.map \in [Variable -> Int] /\ x.propagate_index \in Nat
         /\ \A i \in 1 .. Len(x.stack) :
              /\ x.stack[i] \in Decision /\ x.stack[i].variable \in Variable
              /\ x.stack[i].value \in BOOLEAN /\ x.stack[i].derived_from \in Nat
         /\ \A v \in Variable : LevelOf(x.map, v) \in Nat
         /\ TopLevel(x) \in Nat
<1>1. x.stack \in Seq(Decision) /\ x.map \in [Variable -> Int] /\ x.propagate_index \in Nat
  BY DEF Tracker
<1>2. Len(x.stack) \in Nat /\ DOMAIN x.stack = 1 .. Len(x.stack)
      /\ \A i \in 1 .. Len(x.stack) : x.stack[i] \in Decision
  BY <1>1
<1>3. \A d \in Decision : d.variable \in Variable /\ d.value \in BOOLEAN /\ d.derived_from \in Nat
  BY DEF Decision
<1>4. \A v \in Variable : LevelOf(x.map, v) \in Nat
  BY <1>1 DEF LevelOf
<1>5. x.stack # << >> => Len(x.stack) \in 1 .. Len(x.stack)
  BY <1>1
<1> QED BY <1>1, <1>2, <1>3, <1>4, <1>5 DEF TopLevel

\* Undoing the trail to its first k entries forgets the popped variables only.
LEMMA CutTrail ==
  ASSUME NEW x \in Tracker, Consistent(x), NEW k \in 0 .. Len(x.stack)
  PROVE  /\ CutTo(x, k) \in Tracker /\ Consistent(CutTo(x, k))
         /\ Len(CutTo(x, k).stack) = k
         /\ CutTo(x, k).propagate_index = k
         /\ \A i \in 1 .. k : /\ CutTo(x, k).stack[i] = x.stack[i]
                              /\ CutTo(x, k).map[x.stack[i].variable] = x.map[x.stack[i].variable]
         /\ \A v \in Variable : CutTo(x, k).map[v] \in {0, x.map[v]}
         /\ \A v \in Variable : CutTo(x, k).map[v] # x.map[v] =>
              \E i \in k + 1 .. Len(x.stack) : x.stack[i].variable = v
         /\ TopLevel(CutTo(x, k)) <= TopLevel(x)
<1> DEFINE y == CutTo(x, k)
<1>1. /\ y \in Tracker /\ Consistent(y) /\ Len(y.stack) = k
      /\ \A i \in 1 .. k : y.stack[i] = x.stack[i]
      /\ \A v \in Variable : IF \E i \in k+1 .. Len(x.stack) : x.stack[i].variable = v
                             THEN y.map[v] = 0 ELSE y.map[v] = x.map[v]
  BY SameTracker, Tr!CutToProperties, Tr!CutConsistent
<1>2. y.propagate_index = k
  BY DEF CutTo
<1> HIDE DEF y
<1>3. /\ x.stack \in Seq(Decision) /\ Len(x.stack) \in Nat /\ k \in Nat
      /\ x.map \in [Variable -> Int] /\ y.map \in [Variable -> Int] /\ y.stack \in Seq(Decision)
      /\ TopLevel(x) \in Nat
  BY <1>1, TrailEntries
<1>4. \A i \in 1 .. Len(x.stack) : x.stack[i].variable \in Variable
  BY TrailEntries
<1>5. ASSUME NEW i \in 1 .. k PROVE y.map[x.stack[i].variable] = x.map[x.stack[i].variable]
  <2>1. \A j \in k + 1 .. Len(x.stack) : i < j /\ j \in 1 .. Len(x.stack) /\ i \in 1 .. Len(x.stack)
    BY <1>3
  <2>2. \A j \in k + 1 .. Len(x.stack) : x.stack[j].variable # x.stack[i].variable
    BY <2>1 DEF Consistent
  <2>3. x.stack[i].variable \in Variable
    BY <1>3, <1>4
  <2>4. ~ \E j \in k + 1 .. Len(x.stack) : x.stack[j].variable = x.stack[i].variable
    BY <2>2
  <2> QED BY <1>1, <2>3, <2>4
<1>6. TopLevel(y) <= TopLevel(x)
  <2>1. CASE k = 0
    <3>1. y.stack = << >>
      BY <1>1, <1>3, <2>1, EmptySeq
    <3> QED BY <1>3, <3>1 DEF TopLevel
  <2>2. CASE k # 0
    <3>1. k \in 1 .. k /\ k \in 1 .. Len(x.stack) /\ y.stack # << >>
      BY <1>1, <1>3, <2>2
    <3>2. TopLevel(y) = LevelOf(x.map, x.stack[k].variable)
      BY <1>1, <1>5, <3>1 DEF TopLevel, LevelOf
    <3>3. LevelOf(x.map, x.stack[k].variable) <= TopLevel(x)
      BY <3>1, SameTracker, Tr!LevelsBelowTop
    <3> QED BY <3>2, <3>3
  <2> QED BY <2>1, <2>2
<1> QED BY <1>1, <1>2, <1>5, <1>6 DEF y

\* undo_until leaves exactly what was decided up to the level.
LEMMA UndoTrail ==
  ASSUME NEW x \in Tracker, Consistent(x), NEW level \in Nat
  PROVE  LET y == UndoUntil(x, level) IN
         /\ y \in Tracker /\ Consistent(y)
         /\ y = x \/ y.propagate_index = Len(y.stack)
         /\ Len(y.stack) <= Len(x.stack)
         /\ \A i \in 1 .. Len(y.stack) : y.stack[i] = x.stack[i]
         /\ \A v \in Variable : y.map[v] \in {0, x.map[v]}
         /\ \A v \in Variable : LevelOf(x.map, v) <= level => y.map[v] = x.map[v]
         /\ \A v \in Variable : LevelOf(y.map, v) <= level
         /\ TopLevel(y) <= level /\ TopLevel(y) <= TopLevel(x)
<1> DEFINE y == UndoUntil(x, level)
           n == Len(x.stack)
<1>1. /\ n \in Nat /\ x.stack \in Seq(Decision) /\ x.map \in [Variable -> Int]
      /\ \A i \in 1 .. n : x.stack[i].variable \in Variable
  BY TrailEntries
<1>0. TopLevel(x) \in Nat
  BY TrailEntries
<1>2. CASE level = 0
  <2>1. y = Clear
    BY <1>2 DEF UndoUntil
  <2>2. /\ Clear \in Tracker /\ Clear.stack = << >> /\ \A v \in Variable : Clear.map[v] = 0
        /\ Clear.propagate_index = 0
    BY SameTracker, Tr!ClearProperties DEF Clear
  <2>3. Consistent(Clear)
    BY <2>2 DEF Consistent, IsUndecided
  <2>4. TopLevel(Clear) = 0
    BY <2>2 DEF TopLevel
  <2>5. \A v \in Variable : LevelOf(x.map, v) <= 0 => x.map[v] = 0
    BY <1>1 DEF LevelOf
  <2>6. \A v \in Variable : LevelOf(Clear.map, v) = 0
    BY <2>2 DEF LevelOf
  <2> QED BY <1>0, <1>1, <1>2, <2>1, <2>2, <2>3, <2>4, <2>5, <2>6
<1>3. CASE level # 0
  <2> DEFINE k == KeptLength(x, level)
  <2>1. k \in 0 .. n /\ \A i \in k + 1 .. n : LevelOf(x.map, x.stack[i].variable) > level
    BY SameTracker, Tr!KeptLengthExists
  <2>2. k = 0 \/ LevelOf(x.map, x.stack[k].variable) <= level
    <3>1. \E j \in 0 .. n : /\ j = 0 \/ LevelOf(x.map, x.stack[j].variable) <= level
                            /\ \A i \in j+1 .. n : LevelOf(x.map, x.stack[i].variable) > level
      <4> DEFINE High(i) == LevelOf(x.map, x.stack[i].variable) > level
                 S == {j \in 0 .. n : \A i \in j+1 .. n : High(i)}
      <4>1. S \subseteq Nat /\ S # {}
        <5>1. k \in S
          BY <2>1
        <5> QED BY <5>1, <1>1
      <4>2. PICK j \in S : \A m \in S : j <= m
        BY <4>1, Tr!LeastNatural
      <4>3. j = 0 \/ LevelOf(x.map, x.stack[j].variable) <= level
        <5> SUFFICES ASSUME j # 0, ~(LevelOf(x.map, x.stack[j].variable) <= level) PROVE FALSE
          OBVIOUS
        <5>1. j \in 1 .. n /\ j - 1 \in 0 .. n
          BY <1>1
        <5>2. High(j)
          BY <5>1, <1>1 DEF LevelOf
        <5>3. \A i \in (j - 1) + 1 .. n : i = j \/ i \in j + 1 .. n
          BY <5>1
        <5>4. j - 1 \in S
          <6>1. \A i \in j + 1 .. n : High(i)
            OBVIOUS
          <6> HIDE DEF High
          <6> QED BY <5>1, <5>2, <5>3, <6>1
        <5>5. j <= j - 1 /\ j \in Int
          <6> HIDE DEF S
          <6>1. j <= j - 1
            BY <4>2, <5>4
          <6> QED BY <5>1, <6>1
        <5> QED BY <5>5
      <4> QED BY <4>2, <4>3
    <3> QED BY <3>1 DEF KeptLength
  <2> HIDE DEF k
  <2>3. y = IF k = n THEN x ELSE CutTo(x, k)
    BY <1>3 DEF UndoUntil, k
  <2> DEFINE z == CutTo(x, k)
  <2>4. /\ z \in Tracker /\ Consistent(z) /\ Len(z.stack) = k /\ z.propagate_index = k
        /\ \A i \in 1 .. k : /\ z.stack[i] = x.stack[i]
                             /\ z.map[x.stack[i].variable] = x.map[x.stack[i].variable]
        /\ \A v \in Variable : z.map[v] \in {0, x.map[v]}
        /\ \A v \in Variable : z.map[v] # x.map[v] => \E i \in k + 1 .. n : x.stack[i].variable = v
        /\ TopLevel(z) <= TopLevel(x)
    <3>1. k \in 0 .. Len(x.stack)
      BY <2>1
    <3>2. /\ CutTo(x, k) \in Tracker /\ Consistent(CutTo(x, k))
          /\ Len(CutTo(x, k).stack) = k
          /\ CutTo(x, k).propagate_index = k
          /\ \A i \in 1 .. k : /\ CutTo(x, k).stack[i] = x.stack[i]
                               /\ CutTo(x, k).map[x.stack[i].variable] = x.map[x.stack[i].variable]
          /\ \A v \in Variable : CutTo(x, k).map[v] \in {0, x.map[v]}
          /\ \A v \in Variable : CutTo(x, k).map[v] # x.map[v] =>
               \E i \in k + 1 .. Len(x.stack) : x.stack[i].variable = v
          /\ TopLevel(CutTo(x, k)) <= TopLevel(x)
      BY <3>1, CutTrail
    <3> QED BY <3>2
  <2> HIDE DEF z
  <2>5. \A v \in Variable : LevelOf(x.map, v) <= level => z.map[v] = x.map[v]
    BY <1>1, <2>1, <2>4 DEF LevelOf
  <2>6. \A i, j \in 1 .. n : i < j => LevelOf(x.map, x.stack[i].variable) <= LevelOf(x.map, x.stack[j].variable)
    BY DEF Consistent
  <2>7. \A i \in 1 .. k : LevelOf(x.map, x.stack[i].variable) <= level
    <3> SUFFICES ASSUME NEW i \in 1 .. k PROVE LevelOf(x.map, x.stack[i].variable) <= level
      OBVIOUS
    <3>1. k \in 1 .. n /\ i \in 1 .. n /\ (i = k \/ i < k)
      BY <1>1, <2>1
    <3>2. LevelOf(x.map, x.stack[k].variable) <= level
      BY <2>2, <3>1
    <3>3. LevelOf(x.map, x.stack[i].variable) \in Int /\ LevelOf(x.map, x.stack[k].variable) \in Int
      BY <1>1, <3>1 DEF LevelOf
    <3> QED BY <2>6, <3>1, <3>2, <3>3
  <2>8. \A v \in Variable : z.map[v] # 0 => \E i \in 1 .. k : x.stack[i].variable = v
    BY <2>4 DEF Consistent, IsUndecided
  <2>9. \A v \in Variable : LevelOf(z.map, v) <= level
    <3> SUFFICES ASSUME NEW v \in Variable, z.map[v] # 0 PROVE LevelOf(z.map, v) <= level
      BY DEF LevelOf
    <3>1. PICK i \in 1 .. k : x.stack[i].variable = v
      BY <2>8
    <3>2. LevelOf(z.map, v) = LevelOf(x.map, x.stack[i].variable)
      BY <2>4, <3>1 DEF LevelOf
    <3> QED BY <2>7, <3>2
  <2>10. TopLevel(z) <= level
    <3>1. CASE k = 0
      BY <3>1, <2>4 DEF TopLevel
    <3>2. CASE k # 0
      <4>1. k \in 1 .. k /\ z.stack[k].variable \in Variable
        BY <2>1, <2>4, <3>2, <1>1
      <4> QED BY <2>4, <2>9, <4>1 DEF TopLevel
    <3> QED BY <3>1, <3>2
  <2>11. CASE k = n
    <3>1. \A i \in 1 .. n : LevelOf(x.map, x.stack[i].variable) <= level
      BY <2>7, <2>11
    <3>2. \A v \in Variable : x.map[v] # 0 => \E i \in 1 .. n : x.stack[i].variable = v
      BY DEF Consistent, IsUndecided
    <3>3. \A v \in Variable : LevelOf(x.map, v) <= level
      BY <3>1, <3>2 DEF LevelOf
    <3>4. TopLevel(x) <= level
      <4>1. CASE n = 0
        BY <4>1, <1>1, EmptySeq DEF TopLevel
      <4>2. CASE n # 0
        <5>1. n \in 1 .. n /\ x.stack # << >>
          BY <1>1, <4>2
        <5> QED BY <3>1, <5>1 DEF TopLevel
      <4> QED BY <4>1, <4>2
    <3> QED BY <1>0, <1>1, <2>3, <2>11, <3>3, <3>4
  <2>12. CASE k # n
    <3>1. k <= n /\ y = z
      BY <1>1, <2>1, <2>3, <2>12 DEF z
    <3> HIDE DEF y
    <3>2. /\ Len(y.stack) <= Len(x.stack) /\ y.propagate_index = Len(y.stack)
          /\ \A i \in 1 .. Len(y.stack) : y.stack[i] = x.stack[i]
      BY <2>4, <3>1
    <3>3. \A v \in Variable : LevelOf(y.map, v) <= level
      BY <2>9, <3>1
    <3> QED BY <2>4, <2>5, <2>10, <3>1, <3>2, <3>3 DEF y
  <2> QED BY <2>11, <2>12
<1> QED BY <1>2, <1>3

\* The literal that a trail entry makes true.
Own(d) == [variable |-> d.variable, negate |-> ~d.value]

\* An entry opens its level, or clause K[derived_from] makes it follow from the
\* entries before it.
Opens(t, i) ==
  i = 1 \/ LevelOf(t.map, t.stack[i].variable) > LevelOf(t.map, t.stack[i - 1].variable)
Follows(t, K, i) ==
  /\ t.stack[i].derived_from \in DOMAIN K
  /\ Own(t.stack[i]) \in ToSet(K[t.stack[i].derived_from].lits)
  /\ \A l \in ToSet(K[t.stack[i].derived_from].lits) :
       l = Own(t.stack[i]) \/ \E j \in 1 .. i - 1 : l = Falsified(t.stack[j])
Explained(t, K) == \A i \in 1 .. Len(t.stack) : Opens(t, i) \/ Follows(t, K, i)

\* A decision follows from its clause under the present assignment.
Grounded(t, K, d) ==
  /\ d.derived_from \in DOMAIN K
  /\ Own(d) \in ToSet(K[d.derived_from].lits)
  /\ \A l \in ToSet(K[d.derived_from].lits) : l = Own(d) \/ (l \in Literal /\ LitFalse(t.map, l))

\* What later clauses and moved watches leave of the clauses there are.
SameClauses(K, L) ==
  /\ DOMAIN K \subseteq DOMAIN L
  /\ \A c \in DOMAIN K : L[c].lits = K[c].lits /\ L[c].kind = K[c].kind /\ L[c].why = K[c].why

\* The parts of a literal.
LEMMA LiteralParts ==
  /\ \A l \in Literal : l.variable \in Variable /\ l.negate \in BOOLEAN
                        /\ l = [variable |-> l.variable, negate |-> l.negate]
  /\ \A v \in Variable : Pos(v) \in Literal /\ Neg(v) \in Literal
  /\ \A v : /\ Pos(v).variable = v /\ Pos(v).negate = FALSE
            /\ Neg(v).variable = v /\ Neg(v).negate = TRUE
  /\ \A d \in Decision : /\ Own(d) \in Literal /\ Falsified(d) \in Literal
                         /\ Own(d).variable = d.variable /\ Falsified(d).variable = d.variable
                         /\ Own(d).negate = ~d.value /\ Falsified(d).negate = d.value
  /\ \A l, m \in Literal : l.variable = m.variable /\ l.negate = m.negate => l = m
  BY DEF Literal, Pos, Neg, Decision, Own, Falsified

\* A literal is false when an entry of the trail falsifies it.
LEMMA FalseOnTrail ==
  ASSUME NEW t \in Tracker, Consistent(t), NEW l \in Literal
  PROVE  LitFalse(t.map, l) <=> \E j \in 1 .. Len(t.stack) : l = Falsified(t.stack[j])
<1>1. /\ t.map \in [Variable -> Int] /\ l.variable \in Variable /\ l.negate \in BOOLEAN
      /\ \A i \in 1 .. Len(t.stack) : t.stack[i] \in Decision /\ t.stack[i].variable \in Variable
                                      /\ t.stack[i].value \in BOOLEAN
  BY TrailEntries, LiteralParts
<1>2. \A i \in 1 .. Len(t.stack) :
        /\ Falsified(t.stack[i]) \in Literal
        /\ Falsified(t.stack[i]).variable = t.stack[i].variable
        /\ Falsified(t.stack[i]).negate = t.stack[i].value
  BY <1>1, LiteralParts
<1>3. \A i \in 1 .. Len(t.stack) :
        /\ (t.map[t.stack[i].variable] > 0) <=> t.stack[i].value
        /\ t.map[t.stack[i].variable] # 0
  BY DEF Consistent, IsTrue, IsUndecided
<1>4. ASSUME LitFalse(t.map, l) PROVE \E j \in 1 .. Len(t.stack) : l = Falsified(t.stack[j])
  <2>1. t.map[l.variable] # 0 /\ (l.negate <=> t.map[l.variable] > 0)
    BY <1>1, <1>4 DEF LitFalse, IsTrue, IsFalse
  <2>2. PICK j \in 1 .. Len(t.stack) : t.stack[j].variable = l.variable
    BY <1>1, <2>1 DEF Consistent, IsUndecided
  <2>3. l.negate <=> t.stack[j].value
    BY <1>3, <2>1, <2>2
  <2>4. l.negate = t.stack[j].value
    BY <1>1, <2>3
  <2> QED BY <1>1, <1>2, <2>2, <2>4, LiteralParts
<1>5. ASSUME NEW j \in 1 .. Len(t.stack), l = Falsified(t.stack[j]) PROVE LitFalse(t.map, l)
  <2>1. l.variable = t.stack[j].variable /\ l.negate = t.stack[j].value
    BY <1>2, <1>5
  <2>2. t.map[l.variable] \in Int /\ (t.map[l.variable] > 0 <=> l.negate) /\ t.map[l.variable] # 0
    BY <1>1, <1>3, <2>1
  <2> QED BY <2>2 DEF LitFalse, IsTrue, IsFalse
<1> QED BY <1>4, <1>5

\* What is undone leaves the rest of the trail explained.
LEMMA ExplainedPrefix ==
  ASSUME NEW x \in Tracker, NEW y \in Tracker, Consistent(y), NEW K, Explained(x, K),
         Len(y.stack) <= Len(x.stack),
         \A i \in 1 .. Len(y.stack) : y.stack[i] = x.stack[i],
         \A v \in Variable : y.map[v] \in {0, x.map[v]}
  PROVE  Explained(y, K)
<1> SUFFICES ASSUME NEW i \in 1 .. Len(y.stack) PROVE Opens(y, i) \/ Follows(y, K, i)
  BY DEF Explained
<1>1. Len(x.stack) \in Nat /\ Len(y.stack) \in Nat
      /\ \A j \in 1 .. Len(y.stack) : y.stack[j].variable \in Variable
  BY TrailEntries
<1>2. i \in 1 .. Len(x.stack) /\ \A j \in 1 .. i : j \in 1 .. Len(y.stack) /\ j \in 1 .. Len(x.stack)
  BY <1>1
<1>3. \A j \in 1 .. Len(y.stack) : y.map[y.stack[j].variable] = x.map[y.stack[j].variable]
  <2>1. \A j \in 1 .. Len(y.stack) : y.map[y.stack[j].variable] # 0
    BY DEF Consistent, IsUndecided
  <2> QED BY <1>1, <2>1
<1>4. CASE Follows(x, K, i)
  BY <1>2, <1>4 DEF Follows
<1>5. CASE Opens(x, i) /\ i # 1
  <2>1. i - 1 \in 1 .. i /\ i \in 1 .. i
    BY <1>5
  <2>2. y.stack[i] = x.stack[i] /\ y.stack[i - 1] = x.stack[i - 1]
    BY <1>2, <2>1
  <2>3. /\ y.map[x.stack[i].variable] = x.map[x.stack[i].variable]
        /\ y.map[x.stack[i - 1].variable] = x.map[x.stack[i - 1].variable]
    BY <1>2, <1>3, <2>1, <2>2
  <2> QED BY <1>5, <2>2, <2>3 DEF Opens, LevelOf
<1> QED BY <1>2, <1>4, <1>5 DEF Explained, Opens

\* More clauses and moved watches leave the trail explained.
LEMMA ExplainedSame ==
  ASSUME NEW t, NEW K, NEW L, Explained(t, K), SameClauses(K, L)
  PROVE  Explained(t, L)
  BY DEF Explained, Follows, SameClauses

\* A new decision is explained when it opens a level or is grounded.
LEMMA ExplainedAdd ==
  ASSUME NEW x \in Tracker, Consistent(x), NEW K, Explained(x, K), NEW d \in Decision,
         NEW level \in Nat \ {0}, level >= TopLevel(x),
         level > TopLevel(x) \/ Grounded(x, K, d)
  PROVE  LET y == TryAddDecision(x, d, level) IN
         /\ y \in Tracker /\ Consistent(y) /\ Explained(y, K)
         /\ TopLevel(y) <= level /\ TopLevel(y) >= TopLevel(x)
<1> DEFINE y == TryAddDecision(x, d, level)
           n == Len(x.stack)
<1>1. /\ y \in Tracker /\ Consistent(y)
      /\ \/ y = x
         \/ /\ x.map[d.variable] = 0
            /\ y.stack = Append(x.stack, d)
            /\ y.map = [x.map EXCEPT ![d.variable] = IF d.value THEN level ELSE -level]
  BY SameTracker, Tr!TryAddProperties, Tr!TryAddConsistent
<1>2. /\ x.stack \in Seq(Decision) /\ n \in Nat /\ x.map \in [Variable -> Int]
      /\ \A i \in 1 .. n : x.stack[i] \in Decision /\ x.stack[i].variable \in Variable
      /\ TopLevel(x) \in Nat
  BY TrailEntries
<1>3. CASE y = x
  <2> HIDE DEF y
  <2> QED BY <1>1, <1>2, <1>3 DEF y
<1>4. CASE y # x
  <2>1. /\ x.map[d.variable] = 0
        /\ y.stack = Append(x.stack, d)
        /\ y.map = [x.map EXCEPT ![d.variable] = IF d.value THEN level ELSE -level]
        /\ d.variable \in Variable /\ d.value \in BOOLEAN
    BY <1>1, <1>4 DEF Decision
  <2> HIDE DEF y
  <2>2. /\ Len(y.stack) = n + 1 /\ y.stack[n + 1] = d
        /\ \A i \in 1 .. n : y.stack[i] = x.stack[i]
    BY <1>2, <2>1
  <2>3. \A i \in 1 .. n : x.map[x.stack[i].variable] # 0
    BY DEF Consistent, IsUndecided
  <2>4. \A i \in 1 .. n : y.map[x.stack[i].variable] = x.map[x.stack[i].variable]
    BY <1>2, <2>1, <2>3
  <2>5. LevelOf(y.map, d.variable) = level
    BY <1>2, <2>1 DEF LevelOf
  <2>6. TopLevel(y) = level
    <3>1. y.stack # << >>
      BY <1>2, <2>1
    <3> QED BY <2>2, <2>5, <3>1 DEF TopLevel
  <2>7. \A i \in 1 .. n : Opens(y, i) \/ Follows(y, K, i)
    <3> SUFFICES ASSUME NEW i \in 1 .. n PROVE Opens(y, i) \/ Follows(y, K, i)
      OBVIOUS
    <3>1. i = 1 \/ i - 1 \in 1 .. n
      BY <1>2
    <3>2. Opens(x, i) => Opens(y, i)
      BY <2>2, <2>4, <3>1 DEF Opens, LevelOf
    <3>3. \A j \in 1 .. i - 1 : j \in 1 .. n
      BY <1>2
    <3>4. Follows(x, K, i) => Follows(y, K, i)
      BY <2>2, <3>3 DEF Follows
    <3> QED BY <3>2, <3>4 DEF Explained
  <2>8. Opens(y, n + 1) \/ Follows(y, K, n + 1)
    <3>1. CASE level > TopLevel(x)
      <4>1. CASE n = 0
        BY <4>1 DEF Opens
      <4>2. CASE n # 0
        <5>1. n \in 1 .. n /\ x.stack # << >> /\ (n + 1) - 1 = n
          BY <1>2, <4>2
        <5>2. TopLevel(x) = LevelOf(y.map, y.stack[n].variable)
          BY <2>2, <2>4, <5>1 DEF TopLevel, LevelOf
        <5> QED BY <2>2, <2>5, <3>1, <5>1, <5>2 DEF Opens
      <4> QED BY <4>1, <4>2
    <3>2. CASE Grounded(x, K, d)
      <4>1. (n + 1) - 1 = n
        BY <1>2
      <4>2. \A l \in Literal : LitFalse(x.map, l) => \E j \in 1 .. n : l = Falsified(y.stack[j])
        BY <2>2, FalseOnTrail
      <4>3. Follows(y, K, n + 1)
        BY <2>2, <3>2, <4>1, <4>2 DEF Follows, Grounded
      <4> QED BY <4>3
    <3> QED BY <3>1, <3>2
  <2>9. Explained(y, K)
    <3>1. \A i \in 1 .. n + 1 : i \in 1 .. n \/ i = n + 1
      BY <1>2
    <3> QED BY <2>2, <2>7, <2>8, <3>1 DEF Explained
  <2> QED BY <1>1, <1>2, <2>6, <2>9 DEF y
<1> QED BY <1>3, <1>4

----------------------------------------------------------------------------
(* Clauses and watch lists                                                  *)

\* The kinds of clauses, and their fields.
ClauseKind == {"InstallRoot", "Requires", "ForbidMultipleInstances", "Constrains",
               "ConstrainsParent", "ConstrainsExcluded", "Lock", "Learnt", "Excluded", "AnyOf"}
ClauseType == [kind : ClauseKind, lits : Seq(Literal), watched : Seq(Literal),
               next_watches : Seq(Nat), requirement : Requirement \cup {None},
               condition : Seq(Literal), why : Seq(Nat)]

\* A clause that is not an assertion watches two of its literals: two different
\* ones if it may move its watches, and all it has if it may not.
WellBuilt(x) ==
  x.watched # << >> =>
    /\ Len(x.watched) = 2 /\ Len(x.next_watches) = 2
    /\ {x.watched[1], x.watched[2]} \subseteq ToSet(x.lits)
    /\ IF x.kind \in {"Requires", "Learnt"} THEN x.watched[1] # x.watched[2]
       ELSE ToSet(x.lits) = {x.watched[1], x.watched[2]}

\* Clause c is on the list of literal l, and the clause after it there.
Place(K, l, c) == IF K[c].watched[1] = l THEN 1 ELSE 2
On(K, l, c) ==
  c \in DOMAIN K /\ K[c].watched # << >> /\ l \in {K[c].watched[1], K[c].watched[2]}
Succ(K, l, c) == K[c].next_watches[Place(K, l, c)]

\* The list of a literal holds clauses that watch it, each after one other only
\* or at the head, and does not return to itself.
LinksFrom(H, K) ==
  /\ \A l \in Literal : H[l] # 0 => On(K, l, H[l])
  /\ \A l \in Literal : \A c \in DOMAIN K : On(K, l, c) =>
       /\ Succ(K, l, c) \in Nat
       /\ Succ(K, l, c) # 0 => On(K, l, Succ(K, l, c)) /\ Succ(K, l, c) # H[l]
  /\ \A l \in Literal : \A c, d \in DOMAIN K :
       On(K, l, c) /\ On(K, l, d) /\ Succ(K, l, c) = Succ(K, l, d) /\ Succ(K, l, c) # 0 => c = d
  /\ \A l \in Literal : \A c \in DOMAIN K : On(K, l, c) =>
       H[l] = c \/ \E d \in DOMAIN K : On(K, l, d) /\ Succ(K, l, d) = c
Descends(K, rank) ==
  \A l \in Literal : \A c \in DOMAIN K :
    On(K, l, c) /\ Succ(K, l, c) # 0 => rank[l][Succ(K, l, c)] < rank[l][c]
LinksOK(H, K) ==
  /\ H \in [Literal -> Nat]
  /\ LinksFrom(H, K)
  /\ \E rank \in [Literal -> [DOMAIN K -> Nat]] : Descends(K, rank)

\* Appending a clause.
LEMMA AppendClause ==
  ASSUME NEW K \in Seq(ClauseType), NEW x \in ClauseType
  PROVE  /\ Append(K, x) \in Seq(ClauseType)
         /\ Len(K) \in Nat /\ DOMAIN K = 1 .. Len(K) /\ DOMAIN Append(K, x) = 1 .. Len(K) + 1
         /\ \A c \in DOMAIN K : Append(K, x)[c] = K[c]
         /\ Append(K, x)[Len(K) + 1] = x
         /\ SameClauses(K, Append(K, x))
<1>1. /\ Append(K, x) \in Seq(ClauseType)
      /\ Len(K) \in Nat /\ DOMAIN K = 1 .. Len(K) /\ DOMAIN Append(K, x) = 1 .. Len(K) + 1
      /\ \A c \in DOMAIN K : Append(K, x)[c] = K[c]
      /\ Append(K, x)[Len(K) + 1] = x
  OBVIOUS
<1>2. DOMAIN K \subseteq DOMAIN Append(K, x)
  BY <1>1
<1> QED BY <1>1, <1>2 DEF SameClauses

\* start_watching puts a new clause at the head of its lists.
LEMMA LinksAdd ==
  ASSUME NEW K \in Seq(ClauseType), NEW H, LinksOK(H, K), NEW x \in ClauseType, WellBuilt(x),
         x.next_watches = NextWatches(H, Len(K) + 1, x.watched)
  PROVE  LinksOK(WatchHeads(H, Len(K) + 1, x.watched), Append(K, x))
<1> DEFINE id == Len(K) + 1
           L == Append(K, x)
           G == WatchHeads(H, id, x.watched)
           New(l) == x.watched # << >> /\ l \in {x.watched[1], x.watched[2]}
<1>1. /\ Len(K) \in Nat /\ DOMAIN K = 1 .. Len(K) /\ DOMAIN L = 1 .. id /\ id \in Nat
      /\ \A c \in DOMAIN K : L[c] = K[c]
      /\ L[id] = x /\ id \notin DOMAIN K /\ id # 0
      /\ \A c \in DOMAIN L : c \in DOMAIN K \/ c = id
      /\ \A c \in DOMAIN K : c \in DOMAIN L
  BY AppendClause
<1>2. H \in [Literal -> Nat] /\ LinksFrom(H, K)
  BY DEF LinksOK
<1>3. PICK rank \in [Literal -> [DOMAIN K -> Nat]] : Descends(K, rank)
  BY DEF LinksOK
<1>w. x.watched # << >> => /\ DOMAIN x.watched = {1, 2} /\ x.watched[1] \in Literal /\ x.watched[2] \in Literal
  <2>1. x.watched \in Seq(Literal)
    BY DEF ClauseType
  <2> QED BY <2>1 DEF WellBuilt
<1>4. G \in [Literal -> Nat] /\ \A l \in Literal : G[l] = IF New(l) THEN id ELSE H[l]
  <2>1. CASE x.watched = << >>
    BY <1>2, <2>1 DEF WatchHeads
  <2>2. CASE x.watched # << >>
    <3>1. G = [H EXCEPT ![x.watched[1]] = id, ![x.watched[2]] = id]
      BY <2>2 DEF WatchHeads
    <3> HIDE DEF G, id
    <3> QED BY <1>1, <1>2, <1>w, <2>2, <3>1
  <2> QED BY <2>1, <2>2
<1>5. \A l, c : c \in DOMAIN K => (On(L, l, c) <=> On(K, l, c)) /\ Succ(L, l, c) = Succ(K, l, c)
  BY <1>1 DEF On, Succ, Place
<1>6. \A l : (On(L, l, id) <=> New(l)) /\ (New(l) => Succ(L, l, id) = H[l])
  <2> SUFFICES ASSUME NEW l PROVE (On(L, l, id) <=> New(l)) /\ (New(l) => Succ(L, l, id) = H[l])
    OBVIOUS
  <2>1. On(L, l, id) <=> New(l)
    BY <1>1 DEF On
  <2>2. ASSUME New(l) PROVE Succ(L, l, id) = H[l]
    <3>1. x.next_watches = [i \in DOMAIN x.watched |->
                              IF i = 2 /\ x.watched[2] = x.watched[1] THEN id ELSE H[x.watched[i]]]
      BY DEF NextWatches
    <3> HIDE DEF id
    <3>2. CASE x.watched[1] = l
      BY <1>1, <1>w, <2>2, <3>1, <3>2 DEF Succ, Place
    <3>3. CASE x.watched[1] # l
      BY <1>1, <1>w, <2>2, <3>1, <3>3 DEF Succ, Place
    <3> QED BY <3>2, <3>3
  <2> QED BY <2>1, <2>2
<1> HIDE DEF L, G, id, New
<1>7. \A l \in Literal : H[l] \in Nat /\ (H[l] # 0 => H[l] \in DOMAIN K)
  BY <1>2 DEF LinksFrom, On
<1>8. \A l \in Literal : \A c \in DOMAIN K :
        On(K, l, c) => /\ Succ(K, l, c) \in Nat
                       /\ Succ(K, l, c) # 0 => Succ(K, l, c) \in DOMAIN K
  BY <1>2 DEF LinksFrom, On
<1>9. LinksFrom(G, L)
  <2>1. \A l \in Literal : G[l] # 0 => On(L, l, G[l])
    BY <1>1, <1>2, <1>4, <1>5, <1>6, <1>7 DEF LinksFrom
  <2>2. ASSUME NEW l \in Literal, NEW c \in DOMAIN L, On(L, l, c)
        PROVE  /\ Succ(L, l, c) \in Nat
               /\ Succ(L, l, c) # 0 => On(L, l, Succ(L, l, c)) /\ Succ(L, l, c) # G[l]
    <3>1. CASE c = id
      BY <1>1, <1>2, <1>4, <1>5, <1>6, <1>7, <2>2, <3>1 DEF LinksFrom
    <3>2. CASE c \in DOMAIN K
      BY <1>1, <1>2, <1>4, <1>5, <1>6, <1>8, <2>2, <3>2 DEF LinksFrom
    <3> QED BY <1>1, <3>1, <3>2
  <2>3. ASSUME NEW l \in Literal, NEW c \in DOMAIN L, NEW d \in DOMAIN L,
               On(L, l, c), On(L, l, d), Succ(L, l, c) = Succ(L, l, d), Succ(L, l, c) # 0
        PROVE  c = d
    <3>1. CASE c \in DOMAIN K /\ d \in DOMAIN K
      BY <1>2, <1>5, <2>3, <3>1 DEF LinksFrom
    <3>2. CASE c = id /\ d \in DOMAIN K
      BY <1>2, <1>5, <1>6, <2>3, <3>2 DEF LinksFrom
    <3>3. CASE d = id /\ c \in DOMAIN K
      BY <1>2, <1>5, <1>6, <2>3, <3>3 DEF LinksFrom
    <3> QED BY <1>1, <3>1, <3>2, <3>3
  <2>4. ASSUME NEW l \in Literal, NEW c \in DOMAIN L, On(L, l, c)
        PROVE  G[l] = c \/ \E d \in DOMAIN L : On(L, l, d) /\ Succ(L, l, d) = c
    <3>1. CASE c = id
      BY <1>4, <1>6, <2>4, <3>1
    <3>2. CASE c \in DOMAIN K
      <4>1. H[l] = c \/ \E d \in DOMAIN K : On(K, l, d) /\ Succ(K, l, d) = c
        BY <1>2, <1>5, <2>4, <3>2 DEF LinksFrom
      <4>2. id \in DOMAIN L
        BY <1>1
      <4> QED BY <1>1, <1>4, <1>5, <1>6, <4>1, <4>2
    <3> QED BY <1>1, <3>1, <3>2
  <2> QED BY <2>1, <2>2, <2>3, <2>4 DEF LinksFrom
<1>10. \E r \in [Literal -> [DOMAIN L -> Nat]] : Descends(L, r)
  <2> DEFINE r == [l \in Literal |-> [c \in DOMAIN L |->
                     IF c = id THEN IF H[l] = 0 THEN 0 ELSE rank[l][H[l]] + 1 ELSE rank[l][c]]]
  <2>0. \A l \in Literal : \A c \in DOMAIN K : rank[l][c] \in Nat
    OBVIOUS
  <2>1. r \in [Literal -> [DOMAIN L -> Nat]]
    <3>1. \A l \in Literal : \A c \in DOMAIN L :
            (IF c = id THEN IF H[l] = 0 THEN 0 ELSE rank[l][H[l]] + 1 ELSE rank[l][c]) \in Nat
      BY <1>1, <1>7, <2>0
    <3> QED BY <3>1
  <2>2. \A l \in Literal : \A c \in DOMAIN K : r[l][c] = rank[l][c]
    BY <1>1
  <2>3. \A l \in Literal : H[l] # 0 => r[l][id] = rank[l][H[l]] + 1
    BY <1>1
  <2> HIDE DEF r
  <2>4. ASSUME NEW l \in Literal, NEW c \in DOMAIN L, On(L, l, c), Succ(L, l, c) # 0
        PROVE  r[l][Succ(L, l, c)] < r[l][c]
    <3>1. CASE c = id
      <4>1. Succ(L, l, c) = H[l] /\ H[l] \in DOMAIN K
        BY <1>6, <1>7, <2>4, <3>1
      <4> QED BY <2>0, <2>2, <2>3, <2>4, <3>1, <4>1
    <3>2. CASE c \in DOMAIN K
      <4>1. Succ(L, l, c) = Succ(K, l, c) /\ On(K, l, c) /\ Succ(K, l, c) \in DOMAIN K
        BY <1>5, <1>8, <2>4, <3>2
      <4> QED BY <1>3, <2>2, <2>4, <3>2, <4>1 DEF Descends
    <3> QED BY <1>1, <3>1, <3>2
  <2> QED BY <2>1, <2>4 DEF Descends
<1> QED BY <1>4, <1>9, <1>10 DEF LinksOK, L, G, id

\* A cursor stands at a clause of its list, the previous one before it.
Node == [clause : Nat, index : {1, 2}]
At2(K, l, node) == On(K, l, node.clause) /\ node.index = Place(K, l, node.clause)
CursorOK(H, K, cursor) ==
  /\ cursor \in [literal : Literal, previous : Node, current : Node]
  /\ cursor.current.clause # 0 =>
       /\ At2(K, cursor.literal, cursor.current)
       /\ IF cursor.previous = NoNode THEN H[cursor.literal] = cursor.current.clause
          ELSE /\ At2(K, cursor.literal, cursor.previous)
               /\ Succ(K, cursor.literal, cursor.previous.clause) = cursor.current.clause

\* A sequence of length two is not empty.
LEMMA TwoElements ==
  ASSUME NEW T, NEW q \in Seq(T), Len(q) = 2
  PROVE  q # << >>
  OBVIOUS

\* The node of the next clause.
LEMMA NodeOf ==
  ASSUME NEW K, NEW l, NEW id \in Nat, id # 0 => On(K, l, id)
  PROVE  /\ NodeIn(K, l, id) \in Node /\ NodeIn(K, l, id).clause = id
         /\ id # 0 => At2(K, l, NodeIn(K, l, id))
         /\ (NodeIn(K, l, id) = NoNode) <=> (id = 0)
<1>1. CASE id = 0
  BY <1>1 DEF NodeIn, NoClause, NoNode, Node
<1>2. CASE id # 0
  <2>1. NodeIn(K, l, id) = [clause |-> id, index |-> Place(K, l, id)]
    BY <1>2 DEF NodeIn, NoClause, Place
  <2>2. Place(K, l, id) \in {1, 2}
    BY DEF Place
  <2> QED BY <1>2, <2>1, <2>2 DEF Node, At2, NoNode, NoClause
<1> QED BY <1>1, <1>2

\* A walk starts at the head and goes on to the next clause.
LEMMA CursorStarts ==
  ASSUME NEW H, NEW K, LinksOK(H, K), NEW l \in Literal
  PROVE  CursorOK(H, K, CursorOf(H, K, l))
<1>1. H[l] \in Nat /\ (H[l] # 0 => On(K, l, H[l]))
  BY DEF LinksOK, LinksFrom
<1>2. /\ NodeIn(K, l, H[l]) \in Node /\ NodeIn(K, l, H[l]).clause = H[l]
      /\ H[l] # 0 => At2(K, l, NodeIn(K, l, H[l]))
  BY <1>1, NodeOf
<1>3. NoNode \in Node
  BY DEF NoNode, Node, NoClause
<1> QED BY <1>2, <1>3 DEF CursorOK, CursorOf

\* A cursor moved to the next node stands in its list (WatchMapCursor::next).
LEMMA CursorAdvances ==
  ASSUME NEW H, NEW K, LinksOK(H, K), NEW cursor, CursorOK(H, K, cursor),
         cursor.current.clause # 0
  PROVE  CursorOK(H, K, Advance(K, cursor))
<1> DEFINE l == cursor.literal
           c == cursor.current.clause
<1>1. /\ l \in Literal /\ cursor.current \in Node /\ cursor.previous \in Node
      /\ On(K, l, c) /\ cursor.current.index = Place(K, l, c) /\ c \in DOMAIN K
  BY DEF CursorOK, At2, On
<1>2. Succ(K, l, c) \in Nat /\ (Succ(K, l, c) # 0 => On(K, l, Succ(K, l, c)))
  BY <1>1 DEF LinksOK, LinksFrom
<1>3. NextNode(K, cursor) = NodeIn(K, l, Succ(K, l, c))
  BY <1>1 DEF NextNode, Succ
<1>4. /\ NodeIn(K, l, Succ(K, l, c)) \in Node /\ NodeIn(K, l, Succ(K, l, c)).clause = Succ(K, l, c)
      /\ Succ(K, l, c) # 0 => At2(K, l, NodeIn(K, l, Succ(K, l, c)))
  BY <1>2, NodeOf
<1> DEFINE next == Advance(K, cursor)
<1>5. /\ next \in [literal : Literal, previous : Node, current : Node]
      /\ next.literal = l /\ next.previous = cursor.current
      /\ next.current = NodeIn(K, l, Succ(K, l, c))
  <2>1. cursor \in [literal : Literal, previous : Node, current : Node]
    BY DEF CursorOK
  <2> HIDE DEF l, c
  <2>2. next = [cursor EXCEPT !.previous = cursor.current, !.current = NodeIn(K, l, Succ(K, l, c))]
    BY <1>3 DEF Advance
  <2> HIDE DEF next
  <2> QED BY <1>1, <1>4, <2>1, <2>2 DEF l
<1>6. cursor.current # NoNode /\ At2(K, l, cursor.current)
  BY DEF NoNode, NoClause, CursorOK
<1> HIDE DEF next, l, c
<1>7. CursorOK(H, K, next)
  BY <1>1, <1>4, <1>5, <1>6 DEF CursorOK, c
<1> QED BY <1>7 DEF next

\* WatchMapCursor::update moves the clause under the cursor to another list.
LEMMA LinksMove ==
  ASSUME NEW K \in Seq(ClauseType), NEW H, LinksOK(H, K),
         NEW cursor, CursorOK(H, K, cursor), cursor.current.clause # 0,
         \A c \in DOMAIN K : WellBuilt(K[c]),
         K[cursor.current.clause].kind \in {"Requires", "Learnt"},
         NEW b \in Literal, b \in ToSet(K[cursor.current.clause].lits), b # cursor.literal,
         b # K[cursor.current.clause].watched[3 - cursor.current.index]
  PROVE  LET L == UpdatedClauses(H, K, cursor, b)
             G == UpdatedHeads(H, K, cursor, b)
         IN /\ L \in Seq(ClauseType) /\ DOMAIN L = DOMAIN K /\ SameClauses(K, L)
            /\ \A c \in DOMAIN K : L[c].condition = K[c].condition
            /\ \A c \in DOMAIN K : WellBuilt(L[c])
            /\ LinksOK(G, L)
            /\ CursorOK(G, L, CursorAfterUpdate(K, cursor))
<1> DEFINE L == UpdatedClauses(H, K, cursor, b)
           G == UpdatedHeads(H, K, cursor, b)
           a == cursor.literal
           c == cursor.current.clause
           i == cursor.current.index
           o == K[c].watched[3 - i]
           p == cursor.previous.clause
           j == cursor.previous.index
           n == Succ(K, a, c)
           first == cursor.previous = NoNode
<1>1. /\ a \in Literal /\ cursor.current \in Node /\ cursor.previous \in Node
      /\ On(K, a, c) /\ i = Place(K, a, c) /\ c \in DOMAIN K /\ i \in {1, 2} /\ j \in {1, 2}
      /\ c # 0 /\ c \in Nat /\ p \in Nat
      /\ first => H[a] = c
      /\ ~first => /\ On(K, a, p) /\ j = Place(K, a, p) /\ p \in DOMAIN K
                   /\ Succ(K, a, p) = c
  BY DEF CursorOK, At2, On, Node
<1>2. /\ \A d \in DOMAIN K : K[d] \in ClauseType
      /\ Len(K) \in Nat /\ DOMAIN K = 1 .. Len(K)
  OBVIOUS
<1>3. \A d \in DOMAIN K : /\ K[d].watched \in Seq(Literal) /\ K[d].next_watches \in Seq(Nat)
                          /\ K[d].lits \in Seq(Literal)
  BY <1>2 DEF ClauseType
<1>0. \A d \in DOMAIN K : DOMAIN K[d] = {"kind", "lits", "watched", "next_watches", "requirement",
                                       "condition", "why"}
  BY <1>2 DEF ClauseType
<1>4. \A d \in DOMAIN K : K[d].watched # << >> =>
        /\ DOMAIN K[d].watched = {1, 2} /\ DOMAIN K[d].next_watches = {1, 2}
        /\ K[d].watched[1] \in Literal /\ K[d].watched[2] \in Literal
        /\ K[d].next_watches[1] \in Nat /\ K[d].next_watches[2] \in Nat
  <2> SUFFICES ASSUME NEW d \in DOMAIN K, K[d].watched # << >>
               PROVE  /\ DOMAIN K[d].watched = {1, 2} /\ DOMAIN K[d].next_watches = {1, 2}
                      /\ K[d].watched[1] \in Literal /\ K[d].watched[2] \in Literal
                      /\ K[d].next_watches[1] \in Nat /\ K[d].next_watches[2] \in Nat
    OBVIOUS
  <2>1. Len(K[d].watched) = 2 /\ Len(K[d].next_watches) = 2
    BY DEF WellBuilt
  <2>2. K[d].watched \in Seq(Literal) /\ K[d].next_watches \in Seq(Nat)
    BY <1>3
  <2> DEFINE w == K[d].watched
             x == K[d].next_watches
  <2> HIDE DEF w, x
  <2>3. DOMAIN w = {1, 2} /\ w[1] \in Literal /\ w[2] \in Literal
    BY <2>1, <2>2 DEF w
  <2>4. DOMAIN x = {1, 2} /\ x[1] \in Nat /\ x[2] \in Nat
    BY <2>1, <2>2 DEF x
  <2> QED BY <2>3, <2>4 DEF w, x
<1>5. H \in [Literal -> Nat] /\ LinksFrom(H, K)
  BY DEF LinksOK
<1>6. PICK rank \in [Literal -> [DOMAIN K -> Nat]] : Descends(K, rank)
  BY DEF LinksOK
<1>7. n \in Nat /\ (n # 0 => On(K, a, n) /\ n # H[a] /\ n \in DOMAIN K)
  <2>1. n \in Nat /\ (n # 0 => On(K, a, n) /\ n # H[a])
    BY <1>1, <1>5 DEF LinksFrom
  <2> QED BY <2>1 DEF On
<1>8. /\ K[c].watched # << >> /\ K[c].watched[1] # K[c].watched[2] /\ K[c].watched[i] = a
      /\ o # a /\ o # b /\ a # b /\ o \in Literal /\ o \in ToSet(K[c].lits) /\ 3 - i \in {1, 2} /\ 3 - i # i
      /\ {K[c].watched[1], K[c].watched[2]} = {a, o}
      /\ K[c].kind \in {"Requires", "Learnt"} /\ b \in ToSet(K[c].lits)
  <2>1. K[c].watched # << >> /\ K[c].watched[1] # K[c].watched[2]
    BY <1>1 DEF On, WellBuilt
  <2>2. K[c].watched[i] = a
    BY <1>1, <2>1 DEF On, Place
  <2>3. {K[c].watched[1], K[c].watched[2]} \subseteq ToSet(K[c].lits)
    BY <1>1, <2>1 DEF WellBuilt
  <2>4. CASE i = 1
    BY <1>1, <1>4, <2>1, <2>2, <2>3, <2>4
  <2>5. CASE i = 2
    BY <1>1, <1>4, <2>1, <2>2, <2>3, <2>5
  <2> QED BY <1>1, <2>4, <2>5
<1>9. n # c /\ (~first => p # c /\ n # p)
  <2>1. \A d \in DOMAIN K : rank[a][d] \in Nat
    BY <1>1
  <2>2. n # 0 => rank[a][n] < rank[a][c]
    BY <1>1, <1>6 DEF Descends
  <2>3. ~first => rank[a][c] < rank[a][p]
    BY <1>1, <1>6 DEF Descends
  <2> QED BY <1>1, <1>7, <2>1, <2>2, <2>3
<1>10. NextNode(K, cursor) = NodeIn(K, a, n) /\ NextNode(K, cursor).clause = n
       /\ NextNode(K, cursor) \in Node /\ (n # 0 => NextNode(K, cursor).index = Place(K, a, n))
  <2>1. NextNode(K, cursor) = NodeIn(K, a, n)
    BY <1>1 DEF NextNode, Succ
  <2> QED BY <1>7, <2>1, NodeOf DEF At2
<1> DEFINE M == IF first THEN K ELSE [K EXCEPT ![p].next_watches[j] = n]
<1>11. L = [M EXCEPT ![c].watched[i] = b, ![c].next_watches[i] = H[b]]
  BY <1>10 DEF UpdatedClauses
<1>12. G = [(IF first THEN [H EXCEPT ![a] = n] ELSE H) EXCEPT ![b] = c]
  BY <1>10 DEF UpdatedHeads
<1> HIDE DEF L, G, M, a, i, o, p, j, n, first, c
<1>13. /\ DOMAIN L = DOMAIN K
       /\ L[c] = [K[c] EXCEPT !.watched[i] = b, !.next_watches[i] = H[b]]
       /\ ~first => L[p] = [K[p] EXCEPT !.next_watches[j] = n]
       /\ \A d \in DOMAIN K : d # c /\ (first \/ d # p) => L[d] = K[d]
  <2>1. DOMAIN M = DOMAIN K /\ M[c] = K[c]
        /\ (~first => M[p] = [K[p] EXCEPT !.next_watches[j] = n])
        /\ \A d \in DOMAIN K : (first \/ d # p) => M[d] = K[d]
    <3>1. CASE first
      BY <3>1 DEF M
    <3>2. CASE ~first
      BY <1>1, <1>9, <3>2 DEF M
    <3> QED BY <3>1, <3>2
  <2> QED BY <1>1, <1>9, <1>11, <2>1
<1>14. G \in [Literal -> Nat]
       /\ \A l \in Literal : G[l] = IF l = b THEN c ELSE IF first /\ l = a THEN n ELSE H[l]
  BY <1>1, <1>5, <1>7, <1>8, <1>12
<1>15. H[b] \in Nat
  BY <1>5
<1>16. \A d \in DOMAIN K :
         /\ DOMAIN L[d] = DOMAIN K[d]
         /\ L[d].lits = K[d].lits /\ L[d].kind = K[d].kind /\ L[d].why = K[d].why
         /\ L[d].condition = K[d].condition /\ L[d].requirement = K[d].requirement
         /\ d # c => L[d].watched = K[d].watched
  <2> SUFFICES ASSUME NEW d \in DOMAIN K
               PROVE  /\ DOMAIN L[d] = DOMAIN K[d]
                      /\ L[d].lits = K[d].lits /\ L[d].kind = K[d].kind /\ L[d].why = K[d].why
                      /\ L[d].condition = K[d].condition /\ L[d].requirement = K[d].requirement
                      /\ d # c => L[d].watched = K[d].watched
    OBVIOUS
  <2>1. CASE d = c
    BY <1>0, <1>13, <2>1
  <2>2. CASE ~first /\ d = p /\ d # c
    BY <1>0, <1>13, <2>2
  <2>3. CASE d # c /\ (first \/ d # p)
    BY <1>13, <2>3
  <2> QED BY <2>1, <2>2, <2>3
<1>17. /\ L[c].watched = [K[c].watched EXCEPT ![i] = b]
       /\ L[c].next_watches = [K[c].next_watches EXCEPT ![i] = H[b]]
       /\ ~first => L[p].next_watches = [K[p].next_watches EXCEPT ![j] = n]
       /\ \A d \in DOMAIN K : d # c /\ (first \/ d # p) => L[d].next_watches = K[d].next_watches
  <2>1. K[c] \in ClauseType /\ (~first => K[p] \in ClauseType)
    BY <1>1, <1>2
  <2>2. "watched" \in DOMAIN K[c] /\ "next_watches" \in DOMAIN K[c] /\ (~first => "next_watches" \in DOMAIN K[p])
    BY <2>1 DEF ClauseType
  <2> QED BY <1>13, <2>2
<1>18. /\ L[c].watched[i] = b /\ L[c].watched[3 - i] = o /\ L[c].watched # << >>
       /\ L[c].next_watches[i] = H[b] /\ L[c].next_watches[3 - i] = K[c].next_watches[3 - i]
       /\ Len(L[c].watched) = 2 /\ Len(L[c].next_watches) = 2
       /\ {L[c].watched[1], L[c].watched[2]} = {b, o}
       /\ L[c].watched \in Seq(Literal) /\ L[c].next_watches \in Seq(Nat)
  <2>1. /\ DOMAIN K[c].watched = {1, 2} /\ DOMAIN K[c].next_watches = {1, 2}
        /\ K[c].watched \in Seq(Literal) /\ K[c].next_watches \in Seq(Nat)
        /\ Len(K[c].watched) = 2 /\ Len(K[c].next_watches) = 2
    BY <1>1, <1>3, <1>4, <1>8 DEF WellBuilt
  <2>2. L[c].watched \in Seq(Literal) /\ L[c].next_watches \in Seq(Nat)
        /\ Len(L[c].watched) = 2 /\ Len(L[c].next_watches) = 2
    <3>1. i \in DOMAIN K[c].watched /\ i \in DOMAIN K[c].next_watches
      BY <1>1, <2>1
    <3>2. K[c].watched \in Seq(Literal) /\ K[c].next_watches \in Seq(Nat)
      BY <2>1
    <3>3. /\ L[c].watched = [K[c].watched EXCEPT ![i] = b]
          /\ L[c].next_watches = [K[c].next_watches EXCEPT ![i] = H[b]]
      BY <1>17
    <3>4. L[c].watched \in Seq(Literal) /\ Len(L[c].watched) = Len(K[c].watched)
      <4> DEFINE w == K[c].watched
                 u == L[c].watched
      <4>1. w \in Seq(Literal) /\ i \in DOMAIN w /\ u = [w EXCEPT ![i] = b]
        BY <3>1, <3>2, <3>3
      <4> HIDE DEF w, u
      <4>2. u \in Seq(Literal) /\ Len(u) = Len(w)
        BY <4>1
      <4> QED BY <4>2 DEF u, w
    <3>5. L[c].next_watches \in Seq(Nat) /\ Len(L[c].next_watches) = Len(K[c].next_watches)
      <4> DEFINE w == K[c].next_watches
                 u == L[c].next_watches
                 h == H[b]
      <4>1. w \in Seq(Nat) /\ i \in DOMAIN w /\ u = [w EXCEPT ![i] = h] /\ h \in Nat
        BY <1>15, <3>1, <3>2, <3>3
      <4> HIDE DEF w, u, h
      <4>2. u \in Seq(Nat) /\ Len(u) = Len(w)
        BY <4>1
      <4> QED BY <4>2 DEF u, w
    <3> QED BY <2>1, <3>4, <3>5
  <2>3. /\ L[c].watched[i] = b /\ L[c].next_watches[i] = H[b]
    BY <1>1, <1>17, <2>1
  <2>4. L[c].watched[3 - i] = K[c].watched[3 - i] /\ L[c].next_watches[3 - i] = K[c].next_watches[3 - i]
    BY <1>8, <1>17, <2>1
  <2>5. {L[c].watched[1], L[c].watched[2]} = {b, o}
    <3>1. CASE i = 1
      BY <2>3, <2>4, <3>1 DEF o
    <3>2. CASE i = 2
      BY <2>3, <2>4, <3>2 DEF o
    <3> QED BY <1>1, <3>1, <3>2
  <2>6. L[c].watched # << >>
    BY <2>2, TwoElements
  <2> QED BY <2>2, <2>3, <2>4, <2>5, <2>6 DEF o
<1>19. \A d \in DOMAIN K : K[d].watched # << >> /\ d # c =>
         /\ DOMAIN L[d].next_watches = {1, 2} /\ L[d].next_watches \in Seq(Nat)
         /\ Len(L[d].next_watches) = 2
  <2> SUFFICES ASSUME NEW d \in DOMAIN K, K[d].watched # << >>, d # c
               PROVE  /\ DOMAIN L[d].next_watches = {1, 2} /\ L[d].next_watches \in Seq(Nat)
                      /\ Len(L[d].next_watches) = 2
    OBVIOUS
  <2>0. /\ DOMAIN K[d].next_watches = {1, 2} /\ K[d].next_watches \in Seq(Nat)
        /\ Len(K[d].next_watches) = 2
    BY <1>3, <1>4 DEF WellBuilt
  <2>1. CASE ~first /\ d = p
    <3>1. j \in DOMAIN K[d].next_watches
      BY <1>1, <2>0
    <3>2. L[d].next_watches = [K[d].next_watches EXCEPT ![j] = n]
      BY <1>17, <2>1
    <3>3. K[d].next_watches \in Seq(Nat)
      BY <2>0
    <3>4. /\ L[d].next_watches \in Seq(Nat) /\ Len(L[d].next_watches) = Len(K[d].next_watches)
          /\ DOMAIN L[d].next_watches = DOMAIN K[d].next_watches
      BY <1>7, <3>1, <3>2, <3>3
    <3> QED BY <2>0, <3>4
  <2>2. CASE first \/ d # p
    BY <1>17, <2>0, <2>2
  <2> QED BY <2>1, <2>2
<1>20. \A d \in DOMAIN K : L[d] \in ClauseType /\ WellBuilt(L[d])
  <2> SUFFICES ASSUME NEW d \in DOMAIN K PROVE L[d] \in ClauseType /\ WellBuilt(L[d])
    OBVIOUS
  <2>1. L[d].watched \in Seq(Literal) /\ L[d].next_watches \in Seq(Nat)
    <3>1. CASE d = c
      BY <1>18, <3>1
    <3>2. CASE d # c /\ (first \/ d # p)
      BY <1>3, <1>13, <3>2
    <3>3. CASE d # c /\ ~first /\ d = p
      <4>1. K[d].watched # << >>
        BY <1>1, <3>3 DEF On
      <4> QED BY <1>3, <1>16, <1>19, <3>3, <4>1
    <3> QED BY <3>1, <3>2, <3>3
  <2>2. K[d] \in ClauseType
    BY <1>2
  <2>3. L[d] = [f \in DOMAIN L[d] |-> L[d][f]]
    <3>1. K[d] = [f \in DOMAIN K[d] |-> K[d][f]]
      BY <2>2 DEF ClauseType
    <3>2. CASE d = c
      BY <1>13, <3>2
    <3>3. CASE d # c /\ (first \/ d # p)
      BY <1>13, <3>1, <3>3
    <3>4. CASE d # c /\ ~first /\ d = p
      BY <1>13, <3>4
    <3> QED BY <3>2, <3>3, <3>4
  <2>4. L[d] \in ClauseType
    <3>1. /\ DOMAIN L[d] = DOMAIN K[d]
          /\ L[d].kind = K[d].kind /\ L[d].lits = K[d].lits
          /\ L[d].requirement = K[d].requirement /\ L[d].condition = K[d].condition
          /\ L[d].why = K[d].why
      BY <1>16
    <3>2. L[d].watched \in Seq(Literal) /\ L[d].next_watches \in Seq(Nat)
      BY <2>1
    <3> DEFINE r == L[d]
    <3> HIDE DEF r
    <3>3. r.kind = K[d].kind /\ r.lits = K[d].lits /\ r.requirement = K[d].requirement
          /\ r.condition = K[d].condition /\ r.why = K[d].why
          /\ r.watched \in Seq(Literal) /\ r.next_watches \in Seq(Nat)
      BY <3>1, <3>2 DEF r
    <3>4. r = [f \in DOMAIN K[d] |-> r[f]]
      BY <2>3, <3>1 DEF r
    <3>5. r \in ClauseType
      BY <2>2, <3>3, <3>4 DEF ClauseType
    <3> QED BY <3>5 DEF r
  <2>5. WellBuilt(L[d])
    <3>0. WellBuilt(K[d])
      OBVIOUS
    <3>1. CASE d = c
      <4>1. L[c].watched[1] # L[c].watched[2]
        BY <1>8, <1>18
      <4>2. ToSet(L[c].lits) = ToSet(K[c].lits) /\ L[c].kind \in {"Requires", "Learnt"}
        BY <1>8, <1>16, <3>1
      <4> QED BY <1>8, <1>18, <3>1, <4>1, <4>2 DEF WellBuilt
    <3>2. CASE d # c
      <4>1. L[d].watched = K[d].watched /\ L[d].lits = K[d].lits /\ L[d].kind = K[d].kind
        BY <1>16, <3>2
      <4> QED BY <1>19, <3>0, <3>2, <4>1 DEF WellBuilt
    <3> QED BY <3>1, <3>2
  <2> QED BY <2>4, <2>5
<1>21. L \in Seq(ClauseType)
  <2>1. L = [d \in 1 .. Len(K) |-> L[d]]
    <3>1. M = [d \in DOMAIN K |-> M[d]]
      <4>1. K = [d \in DOMAIN K |-> K[d]]
        BY <1>2
      <4>2. CASE first
        BY <4>1, <4>2 DEF M
      <4>3. CASE ~first
        BY <4>3 DEF M
      <4> QED BY <4>2, <4>3
    <3> QED BY <1>2, <1>11, <1>13, <3>1
  <2>2. \A d \in 1 .. Len(K) : L[d] \in ClauseType
    BY <1>2, <1>20
  <2> QED BY <1>2, <2>1, <2>2
<1>22. SameClauses(K, L)
  BY <1>13, <1>16 DEF SameClauses
\* The lists after the move.
<1>23. \A l \in Literal : \A d \in DOMAIN K :
         On(L, l, d) <=> IF d = c THEN l \in {b, o} ELSE On(K, l, d)
  <2> SUFFICES ASSUME NEW l \in Literal, NEW d \in DOMAIN K
               PROVE  On(L, l, d) <=> IF d = c THEN l \in {b, o} ELSE On(K, l, d)
    OBVIOUS
  <2>1. CASE d = c
    BY <1>13, <1>18, <2>1 DEF On
  <2>2. CASE d # c
    BY <1>13, <1>16, <2>2 DEF On
  <2> QED BY <2>1, <2>2
<1>24. On(K, o, c) /\ ~On(K, b, c) /\ \A l : On(K, l, c) => l \in {a, o}
  BY <1>1, <1>8 DEF On
<1>25. Succ(L, b, c) = H[b] /\ Succ(L, o, c) = Succ(K, o, c)
  <2>1. CASE i = 1
    <3>1. Place(L, b, c) = 1 /\ Place(L, o, c) = 2 /\ Place(K, o, c) = 2
      BY <1>8, <1>18, <2>1 DEF Place
    <3> QED BY <1>18, <2>1, <3>1 DEF Succ
  <2>2. CASE i = 2
    <3>1. Place(L, b, c) = 2 /\ Place(L, o, c) = 1 /\ Place(K, o, c) = 1
      BY <1>8, <1>18, <2>2 DEF Place, o
    <3> QED BY <1>18, <2>2, <3>1 DEF Succ
  <2> QED BY <1>1, <2>1, <2>2
<1>26. \A l \in Literal : \A d \in DOMAIN K : d # c /\ On(K, l, d) =>
         Succ(L, l, d) = IF ~first /\ d = p /\ l = a THEN n ELSE Succ(K, l, d)
  <2> SUFFICES ASSUME NEW l \in Literal, NEW d \in DOMAIN K, d # c, On(K, l, d)
               PROVE  Succ(L, l, d) = IF ~first /\ d = p /\ l = a THEN n ELSE Succ(K, l, d)
    OBVIOUS
  <2>1. Place(L, l, d) = Place(K, l, d) /\ K[d].watched # << >>
    BY <1>16 DEF Place, On
  <2>2. CASE first \/ d # p
    BY <1>17, <2>1, <2>2 DEF Succ
  <2>3. CASE ~first /\ d = p /\ l = a
    <3>1. Place(K, l, d) = j /\ DOMAIN K[d].next_watches = {1, 2}
      BY <1>1, <1>4, <2>1, <2>3
    <3> QED BY <1>1, <1>17, <2>1, <2>3, <3>1 DEF Succ
  <2>4. CASE ~first /\ d = p /\ l # a
    <3>1. Place(K, l, d) # j /\ Place(K, l, d) \in {1, 2} /\ DOMAIN K[d].next_watches = {1, 2}
      BY <1>1, <1>4, <2>1, <2>4 DEF Place, On
    <3> QED BY <1>1, <1>17, <2>1, <2>4, <3>1 DEF Succ
  <2> QED BY <2>2, <2>3, <2>4
<1>27. \A l \in Literal : H[l] \in Nat /\ (H[l] # 0 => H[l] \in DOMAIN K /\ On(K, l, H[l]))
  BY <1>5 DEF LinksFrom, On
<1>28. \A l \in Literal : \A d \in DOMAIN K : On(K, l, d) =>
         /\ Succ(K, l, d) \in Nat
         /\ Succ(K, l, d) # 0 => /\ Succ(K, l, d) \in DOMAIN K /\ On(K, l, Succ(K, l, d))
                                 /\ Succ(K, l, d) # H[l]
  BY <1>5 DEF LinksFrom, On
<1>29. \A l \in Literal : \A d, e \in DOMAIN K :
         On(K, l, d) /\ On(K, l, e) /\ Succ(K, l, d) = Succ(K, l, e) /\ Succ(K, l, d) # 0 => d = e
  BY <1>5 DEF LinksFrom
<1>30. \A l \in Literal : \A d \in DOMAIN K : On(K, l, d) =>
         H[l] = d \/ \E e \in DOMAIN K : On(K, l, e) /\ Succ(K, l, e) = d
  BY <1>5 DEF LinksFrom
<1>31. n = Succ(K, a, c)
  BY DEF n
\* Only the previous clause, or the head, led to c in the list of a.
<1>32. \A d \in DOMAIN K : On(K, a, d) /\ Succ(K, a, d) = c => ~first /\ d = p
  BY <1>1, <1>28, <1>29
<1>33. ~first => H[a] # c
  BY <1>1, <1>28
<1>34. LinksFrom(G, L)
  <2>1. \A l \in Literal : G[l] # 0 => On(L, l, G[l])
    <3> SUFFICES ASSUME NEW l \in Literal, G[l] # 0 PROVE On(L, l, G[l])
      OBVIOUS
    <3>1. CASE l = b
      BY <1>1, <1>14, <1>23, <1>24, <3>1
    <3>2. CASE l # b /\ first /\ l = a
      <4>1. G[l] = n /\ n \in DOMAIN K /\ On(K, l, n) /\ n # c
        BY <1>7, <1>9, <1>14, <3>2
      <4> QED BY <1>23, <4>1
    <3>3. CASE l # b /\ ~(first /\ l = a)
      <4>1. G[l] = H[l] /\ H[l] \in DOMAIN K /\ On(K, l, H[l])
        BY <1>14, <1>27, <3>3
      <4>2. CASE H[l] # c
        BY <1>23, <4>1, <4>2
      <4>3. CASE H[l] = c
        <5>1. l \in {a, o}
          BY <1>24, <4>1, <4>3
        <5>2. l = o
          BY <1>33, <3>3, <4>3, <5>1
        <5> QED BY <1>1, <1>23, <4>1, <4>3, <5>2
      <4> QED BY <4>2, <4>3
    <3> QED BY <3>1, <3>2, <3>3
  <2>2. ASSUME NEW l \in Literal, NEW d \in DOMAIN K, On(L, l, d)
        PROVE  /\ Succ(L, l, d) \in Nat
               /\ Succ(L, l, d) # 0 => On(L, l, Succ(L, l, d)) /\ Succ(L, l, d) # G[l]
    <3>1. CASE d = c /\ l = b
      BY <1>1, <1>14, <1>23, <1>24, <1>25, <1>27, <2>2, <3>1
    <3>2. CASE d = c /\ l = o
      <4>1. Succ(K, o, c) # c
        <5>1. Succ(K, o, c) # 0 => rank[o][Succ(K, o, c)] < rank[o][c] /\ rank[o][c] \in Nat
          BY <1>1, <1>6, <1>8, <1>24 DEF Descends
        <5> QED BY <1>1, <5>1
      <4>2. On(K, o, c) /\ G[o] = H[o] /\ Succ(L, o, c) = Succ(K, o, c)
        BY <1>1, <1>8, <1>14, <1>24, <1>25
      <4>3. /\ Succ(K, o, c) \in Nat
            /\ Succ(K, o, c) # 0 => /\ Succ(K, o, c) \in DOMAIN K /\ On(K, o, Succ(K, o, c))
                                    /\ Succ(K, o, c) # H[o]
        BY <1>1, <1>8, <1>28, <4>2
      <4>4. Succ(K, o, c) # 0 => On(L, o, Succ(K, o, c))
        BY <1>8, <1>23, <4>1, <4>3
      <4> QED BY <3>2, <4>2, <4>3, <4>4
    <3>3. CASE d # c /\ ~first /\ d = p /\ l = a
      BY <1>1, <1>7, <1>8, <1>9, <1>14, <1>23, <1>26, <2>2, <3>3
    <3>4. CASE d # c /\ (first \/ d # p \/ l # a)
      <4>1. On(K, l, d) /\ Succ(L, l, d) = Succ(K, l, d)
        BY <1>23, <1>26, <2>2, <3>4
      <4>2. ASSUME Succ(K, l, d) # 0
            PROVE  /\ On(L, l, Succ(K, l, d)) /\ Succ(K, l, d) # G[l]
        <5>1. On(K, l, Succ(K, l, d)) /\ Succ(K, l, d) \in DOMAIN K /\ Succ(K, l, d) # H[l]
          BY <1>28, <4>1, <4>2
        <5>2. l = a => Succ(K, l, d) # c /\ Succ(K, l, d) # n
          BY <1>1, <1>29, <1>31, <1>32, <3>4, <4>1, <4>2
        <5>3. On(L, l, Succ(K, l, d))
          BY <1>23, <1>24, <5>1, <5>2
        <5> QED BY <1>14, <1>24, <5>1, <5>2, <5>3
      <4> QED BY <1>28, <4>1, <4>2
    <3> QED BY <1>23, <2>2, <3>1, <3>2, <3>3, <3>4
  <2>3. ASSUME NEW l \in Literal, NEW d \in DOMAIN K, NEW e \in DOMAIN K,
               On(L, l, d), On(L, l, e), Succ(L, l, d) = Succ(L, l, e), Succ(L, l, d) # 0
        PROVE  d = e
    <3>1. CASE l = b
      <4>1. \A x \in DOMAIN K : x # c /\ On(L, b, x) => On(K, b, x) /\ Succ(L, b, x) = Succ(K, b, x)
        BY <1>8, <1>23, <1>26
      <4>2. CASE d # c /\ e # c
        BY <1>29, <2>3, <3>1, <4>1, <4>2
      <4>3. CASE d = c /\ e # c
        BY <1>25, <1>28, <2>3, <3>1, <4>1, <4>3
      <4>4. CASE d # c /\ e = c
        BY <1>25, <1>28, <2>3, <3>1, <4>1, <4>4
      <4> QED BY <4>2, <4>3, <4>4
    <3>2. CASE l = a
      <4>1. \A x \in DOMAIN K : On(L, a, x) =>
              /\ x # c /\ On(K, a, x)
              /\ Succ(L, a, x) = IF ~first /\ x = p THEN n ELSE Succ(K, a, x)
        BY <1>1, <1>8, <1>23, <1>26
      <4> QED BY <1>1, <1>29, <1>31, <2>3, <3>2, <4>1
    <3>3. CASE l # a /\ l # b
      <4>1. \A x \in DOMAIN K : On(L, l, x) => On(K, l, x) /\ Succ(L, l, x) = Succ(K, l, x)
        BY <1>23, <1>24, <1>25, <1>26, <3>3
      <4> QED BY <1>29, <2>3, <4>1
    <3> QED BY <3>1, <3>2, <3>3
  <2>4. ASSUME NEW l \in Literal, NEW d \in DOMAIN K, On(L, l, d)
        PROVE  G[l] = d \/ \E e \in DOMAIN K : On(L, l, e) /\ Succ(L, l, e) = d
    <3>1. CASE d = c /\ l = b
      BY <1>14, <3>1
    <3>2. CASE d # c /\ l = b
      <4>1. On(K, b, d)
        BY <1>23, <2>4, <3>2
      <4>2. CASE H[b] = d
        BY <1>1, <1>23, <1>25, <3>2, <4>2
      <4>3. CASE H[b] # d
        <5>1. PICK e \in DOMAIN K : On(K, b, e) /\ Succ(K, b, e) = d
          BY <1>30, <4>1, <4>3
        <5> QED BY <1>8, <1>23, <1>24, <1>26, <3>2, <5>1
      <4> QED BY <4>2, <4>3
    <3>3. CASE l = a
      <4>1. d # c /\ On(K, a, d)
        BY <1>8, <1>23, <2>4, <3>3
      <4>2. CASE H[a] = d
        <5>1. ~first
          BY <1>1, <4>1, <4>2
        <5> QED BY <1>8, <1>14, <3>3, <4>2, <5>1
      <4>3. CASE H[a] # d
        <5>1. PICK e \in DOMAIN K : On(K, a, e) /\ Succ(K, a, e) = d
          BY <1>1, <1>30, <4>1, <4>3
        <5>2. CASE e = c
          <6>1. d = n
            BY <1>31, <5>1, <5>2
          <6>2. CASE first
            BY <1>8, <1>14, <3>3, <6>1, <6>2
          <6>3. CASE ~first
            <7>1. On(L, a, p) /\ Succ(L, a, p) = n /\ p \in DOMAIN K
              BY <1>1, <1>9, <1>23, <1>26, <6>3
            <7> QED BY <3>3, <6>1, <7>1
          <6> QED BY <6>2, <6>3
        <5>3. CASE e # c
          <6>1. ~(~first /\ e = p)
            BY <1>1, <4>1, <5>1
          <6>2. On(L, a, e) /\ Succ(L, a, e) = d
            BY <1>1, <1>23, <1>26, <5>1, <5>3, <6>1
          <6> QED BY <3>3, <6>2
        <5> QED BY <5>2, <5>3
      <4> QED BY <4>2, <4>3
    <3>4. CASE l # a /\ l # b
      <4>1. On(K, l, d) /\ G[l] = H[l]
        BY <1>14, <1>23, <1>24, <2>4, <3>4
      <4>2. CASE H[l] = d
        BY <4>1, <4>2
      <4>3. CASE H[l] # d
        <5>1. PICK e \in DOMAIN K : On(K, l, e) /\ Succ(K, l, e) = d
          BY <1>30, <4>1, <4>3
        <5>2. On(L, l, e) /\ Succ(L, l, e) = d
          BY <1>23, <1>24, <1>25, <1>26, <3>4, <5>1
        <5> QED BY <5>2
      <4> QED BY <4>2, <4>3
    <3> QED BY <3>1, <3>2, <3>3, <3>4
  <2> QED BY <1>13, <2>1, <2>2, <2>3, <2>4 DEF LinksFrom
<1>35. \E r \in [Literal -> [DOMAIN L -> Nat]] : Descends(L, r)
  <2> DEFINE top == IF H[b] = 0 THEN 0 ELSE rank[b][H[b]] + 1
             r == [l \in Literal |-> [d \in DOMAIN K |-> IF l = b /\ d = c THEN top ELSE rank[l][d]]]
  <2>0. \A l \in Literal : \A d \in DOMAIN K : rank[l][d] \in Nat
    OBVIOUS
  <2>1. top \in Nat /\ (H[b] # 0 => top > rank[b][H[b]])
    BY <1>27, <2>0
  <2> HIDE DEF top
  <2>2. r \in [Literal -> [DOMAIN K -> Nat]]
    <3>1. \A l \in Literal : \A d \in DOMAIN K :
            (IF l = b /\ d = c THEN top ELSE rank[l][d]) \in Nat
      BY <2>0, <2>1
    <3> QED BY <3>1
  <2>3. \A l \in Literal : \A d \in DOMAIN K :
          r[l][d] = IF l = b /\ d = c THEN top ELSE rank[l][d]
    OBVIOUS
  <2> HIDE DEF r
  <2>4. ASSUME NEW l \in Literal, NEW d \in DOMAIN K, On(L, l, d), Succ(L, l, d) # 0
        PROVE  r[l][Succ(L, l, d)] < r[l][d]
    <3>1. CASE d = c /\ l = b
      <4>1. Succ(L, l, d) = H[b] /\ H[b] # 0
        BY <1>25, <2>4, <3>1
      <4>2. H[b] \in DOMAIN K /\ H[b] # c
        BY <1>24, <1>27, <4>1
      <4>3. r[b][c] = top /\ r[b][H[b]] = rank[b][H[b]]
        BY <1>1, <2>3, <4>2
      <4>4. rank[b][H[b]] \in Nat /\ top \in Nat /\ top > rank[b][H[b]]
        BY <2>0, <2>1, <4>1, <4>2
      <4>5. r[b][H[b]] < r[b][c]
        BY <4>3, <4>4
      <4> QED BY <3>1, <4>1, <4>5
    <3>2. CASE d = c /\ l = o
      <4>1. Succ(L, l, d) = Succ(K, o, c) /\ On(K, o, c) /\ Succ(K, o, c) \in DOMAIN K
        BY <1>1, <1>8, <1>24, <1>25, <1>28, <2>4, <3>2
      <4>2. rank[o][Succ(K, o, c)] < rank[o][c]
        BY <1>1, <1>6, <1>8, <2>4, <4>1 DEF Descends
      <4>3. r[o][Succ(K, o, c)] = rank[o][Succ(K, o, c)] /\ r[o][c] = rank[o][c]
        BY <1>1, <1>8, <2>3, <4>1
      <4>4. rank[o][Succ(K, o, c)] \in Nat /\ rank[o][c] \in Nat
        BY <1>1, <1>8, <2>0, <4>1
      <4>5. l = o /\ d = c
        BY <3>2
      <4>6. r[l][Succ(L, l, d)] = r[o][Succ(K, o, c)] /\ r[l][d] = r[o][c]
        BY <4>1, <4>5
      <4> QED BY <4>2, <4>3, <4>4, <4>6
    <3>3. CASE d # c /\ ~first /\ d = p /\ l = a
      <4>1. Succ(L, l, d) = n /\ n # 0 /\ n \in DOMAIN K /\ p \in DOMAIN K
        BY <1>1, <1>7, <1>26, <2>4, <3>3
      <4>2. rank[a][n] < rank[a][c] /\ rank[a][c] < rank[a][p]
        BY <1>1, <1>6, <1>31, <4>1, <3>3 DEF Descends
      <4>3. rank[a][n] \in Nat /\ rank[a][c] \in Nat /\ rank[a][p] \in Nat
        BY <1>1, <2>0, <4>1
      <4>4. r[a][n] = rank[a][n] /\ r[a][p] = rank[a][p]
        BY <1>1, <1>8, <2>3, <4>1
      <4>5. r[a][n] < r[a][p]
        <5>0. \A x, y, z \in Nat : x < y /\ y < z => x < z
          OBVIOUS
        <5>1. rank[a][n] < rank[a][p]
          BY <4>2, <4>3, <5>0, Zenon
        <5> QED BY <4>4, <5>1
      <4> QED BY <3>3, <4>1, <4>5
    <3>4. CASE d # c /\ (first \/ d # p \/ l # a)
      <4>1. On(K, l, d) /\ Succ(L, l, d) = Succ(K, l, d)
        BY <1>23, <1>26, <2>4, <3>4
      <4>2. Succ(K, l, d) \in DOMAIN K /\ On(K, l, Succ(K, l, d))
        BY <1>28, <2>4, <4>1
      <4>3. ~(l = b /\ Succ(K, l, d) = c)
        BY <1>24, <4>2
      <4>4. rank[l][Succ(K, l, d)] < rank[l][d]
        BY <1>6, <2>4, <4>1 DEF Descends
      <4>5. r[l][Succ(K, l, d)] = rank[l][Succ(K, l, d)] /\ r[l][d] = rank[l][d]
        BY <2>3, <3>4, <4>2, <4>3
      <4>6. rank[l][Succ(K, l, d)] \in Nat /\ rank[l][d] \in Nat
        BY <2>0, <4>2
      <4>7. r[l][Succ(L, l, d)] = r[l][Succ(K, l, d)]
        BY <4>1
      <4> QED BY <4>4, <4>5, <4>6, <4>7
    <3> QED BY <1>23, <2>4, <3>1, <3>2, <3>3, <3>4
  <2> QED BY <1>13, <2>2, <2>4 DEF Descends
<1>36. CursorOK(G, L, CursorAfterUpdate(K, cursor))
  <2> DEFINE next == CursorAfterUpdate(K, cursor)
  <2>1. /\ next \in [literal : Literal, previous : Node, current : Node]
        /\ next.literal = a /\ next.previous = cursor.previous /\ next.current = NodeIn(K, a, n)
    <3>1. cursor \in [literal : Literal, previous : Node, current : Node]
      BY DEF CursorOK
    <3>2. next = [cursor EXCEPT !.current = NodeIn(K, a, n)]
      BY <1>10 DEF CursorAfterUpdate
    <3>3. NodeIn(K, a, n) \in Node
      BY <1>10
    <3> HIDE DEF next
    <3> QED BY <3>1, <3>2, <3>3 DEF a
  <2>2. NodeIn(K, a, n) \in Node /\ NodeIn(K, a, n).clause = n
        /\ (n # 0 => NodeIn(K, a, n).index = Place(K, a, n))
    BY <1>10
  <2>3. n # 0 => On(L, a, n) /\ Place(L, a, n) = Place(K, a, n)
    BY <1>1, <1>7, <1>9, <1>16, <1>23 DEF Place
  <2>4. first => G[a] = n
    BY <1>1, <1>8, <1>14
  <2>5. ~first => /\ On(L, a, p) /\ Succ(L, a, p) = n /\ Place(L, a, p) = Place(K, a, p)
    BY <1>1, <1>9, <1>16, <1>23, <1>26 DEF Place
  <2> HIDE DEF next
  <2>6. CursorOK(G, L, next)
    BY <1>1, <2>1, <2>2, <2>3, <2>4, <2>5 DEF CursorOK, At2, first, p, j
  <2> QED BY <2>6 DEF next
<1> QED BY <1>13, <1>16, <1>20, <1>21, <1>22, <1>34, <1>35, <1>14, <1>36 DEF LinksOK, L, G

----------------------------------------------------------------------------
(* The state of the solver                                                  *)

\* The fields of a state.
Shape(s) == DOMAIN s =
  {"decision_tracker", "clauses", "watches", "negative_assertions", "learnt_clause_ids",
   "clauses_added_for_solvable", "clauses_added_for_package", "allow_multiple_names",
   "at_most_one_trackers", "constrains_aux_vars", "gates", "gate_requirers",
   "at_least_one_tracker", "deferred_requirements", "cached", "tasks", "conflicting_clauses",
   "pending_forbid_clauses", "new_at_least_one_packages", "panicked"}

\* A set of true variables satisfies a clause with these literals.
Sat(A, lits) == \E l \in ToSet(lits) : (l.variable \in A) # l.negate

\* A learnt clause is a consequence of the clauses it was derived from.
Derived(K, c) ==
  /\ \A w \in ToSet(K[c].why) : w \in DOMAIN K /\ w \in 1 .. c - 1 /\ K[w].lits # << >>
  /\ \A A : (\A w \in ToSet(K[c].why) : Sat(A, K[w].lits)) => Sat(A, K[c].lits)

\* The clauses are well built, and those that were learnt follow from others.
ClausesOK(K) ==
  /\ K \in Seq(ClauseType) /\ 1 \in DOMAIN K /\ K[1].lits = << >>
  /\ \A c \in DOMAIN K : WellBuilt(K[c])
  /\ \A c \in DOMAIN K : K[c].kind = "Learnt" => Derived(K, c)

\* The lists of clauses that the solver keeps name what they should.
AssertionsOK(q, K) ==
  /\ q \in Seq(Variable \X Nat)
  /\ \A i \in DOMAIN q : q[i][2] \in DOMAIN K /\ K[q[i][2]].lits = <<Neg(q[i][1])>>
LearntOK(q, K) ==
  /\ q \in Seq(Nat)
  /\ \A i \in DOMAIN q : q[i] \in DOMAIN K /\ K[q[i]].kind = "Learnt" /\ K[q[i]].lits # << >>
RequirersOK(g, K) ==
  /\ g \in [Requirement -> Seq(Variable \X Nat)]
  /\ \A r \in Requirement : \A i \in DOMAIN g[r] :
       /\ g[r][i][2] \in DOMAIN K
       /\ K[g[r][i][2]].lits = <<Pos(GateVar(r)), Neg(g[r][i][1])>>
ReportedOK(q, K) == q \in Seq(Nat) /\ \A i \in DOMAIN q : q[i] \in DOMAIN K
ListsOK(s) ==
  /\ AssertionsOK(s.negative_assertions, s.clauses)
  /\ LearntOK(s.learnt_clause_ids, s.clauses)
  /\ RequirersOK(s.gate_requirers, s.clauses)
  /\ ReportedOK(s.conflicting_clauses, s.clauses)

\* The trail up to level lv, which starts with the root at level 1, the clauses, the watch
\* lists and the lists of clauses.
IsRoot(d) == d.variable = RootVar /\ d.value
Bottom(t, lv) ==
  IF t.stack = << >> THEN lv = 0
  ELSE LevelOf(t.map, t.stack[1].variable) = 1 /\ IsRoot(t.stack[1])
TrailOK(t, K, lv) ==
  t \in Tracker /\ Consistent(t) /\ TopLevel(t) <= lv /\ Explained(t, K) /\ Bottom(t, lv)
Core(s, lv) ==
  /\ Shape(s)
  /\ TrailOK(s.decision_tracker, s.clauses, lv)
  /\ ClausesOK(s.clauses)
  /\ LinksOK(s.watches, s.clauses)
  /\ ListsOK(s)

\* Two states that agree on the lists of clauses.
SameLists(s, t) ==
  /\ t.negative_assertions = s.negative_assertions
  /\ t.learnt_clause_ids = s.learnt_clause_ids
  /\ t.gate_requirers = s.gate_requirers
  /\ t.conflicting_clauses = s.conflicting_clauses

\* More clauses and moved watches leave the lists right.
LEMMA ListsSame ==
  ASSUME NEW s, NEW t, ListsOK(s), SameLists(s, t), SameClauses(s.clauses, t.clauses)
  PROVE  ListsOK(t)
<1>1. /\ \A c \in DOMAIN s.clauses : /\ c \in DOMAIN t.clauses
                                     /\ t.clauses[c].lits = s.clauses[c].lits
                                     /\ t.clauses[c].kind = s.clauses[c].kind
  BY DEF SameClauses
<1>2. AssertionsOK(t.negative_assertions, t.clauses)
  <2> DEFINE q == s.negative_assertions
  <2>1. t.negative_assertions = q /\ AssertionsOK(q, s.clauses)
    BY DEF ListsOK, SameLists
  <2> HIDE DEF q
  <2>2. q \in Seq(Variable \X Nat)
    BY <2>1 DEF AssertionsOK
  <2>3. ASSUME NEW i \in DOMAIN q
        PROVE  q[i][2] \in DOMAIN t.clauses /\ t.clauses[q[i][2]].lits = <<Neg(q[i][1])>>
    <3>1. q[i][2] \in DOMAIN s.clauses /\ s.clauses[q[i][2]].lits = <<Neg(q[i][1])>>
      BY <2>1 DEF AssertionsOK
    <3> QED BY <1>1, <3>1
  <2> QED BY <2>1, <2>2, <2>3 DEF AssertionsOK
<1>3. LearntOK(t.learnt_clause_ids, t.clauses)
  BY <1>1 DEF ListsOK, SameLists, LearntOK
<1>4. RequirersOK(t.gate_requirers, t.clauses)
  BY <1>1 DEF ListsOK, SameLists, RequirersOK
<1>5. ReportedOK(t.conflicting_clauses, t.clauses)
  BY <1>1 DEF ListsOK, SameLists, ReportedOK
<1> QED BY <1>2, <1>3, <1>4, <1>5 DEF ListsOK

\* A consequence stays one.
LEMMA DerivedSame ==
  ASSUME NEW K, NEW L, SameClauses(K, L), NEW c \in DOMAIN K, Derived(K, c)
  PROVE  Derived(L, c)
  BY DEF Derived, SameClauses

\* A state that agrees on all of this.
LEMMA CoreFrame ==
  ASSUME NEW s, NEW t, NEW lv, Core(s, lv), Shape(t), SameLists(s, t),
         t.decision_tracker = s.decision_tracker, t.clauses = s.clauses, t.watches = s.watches
  PROVE  Core(t, lv)
<1>1. SameClauses(s.clauses, t.clauses)
  BY DEF SameClauses
<1> QED BY <1>1, ListsSame DEF Core

\* A clause is added.
LEMMA CoreAdd ==
  ASSUME NEW s, NEW t, NEW lv, Core(s, lv), Shape(t), SameLists(s, t),
         t.decision_tracker = s.decision_tracker,
         NEW x \in ClauseType, WellBuilt(x), t.clauses = Append(s.clauses, x),
         x.next_watches = NextWatches(s.watches, Len(s.clauses) + 1, x.watched),
         t.watches = WatchHeads(s.watches, Len(s.clauses) + 1, x.watched),
         x.kind = "Learnt" => Derived(Append(s.clauses, x), Len(s.clauses) + 1)
  PROVE  /\ Core(t, lv) /\ SameClauses(s.clauses, t.clauses)
         /\ Len(s.clauses) + 1 \in DOMAIN t.clauses /\ t.clauses[Len(s.clauses) + 1] = x
<1> DEFINE K == s.clauses
           L == t.clauses
<1>0. K \in Seq(ClauseType)
  BY DEF Core, ClausesOK
<1>1. /\ L \in Seq(ClauseType)
      /\ Len(K) \in Nat /\ DOMAIN K = 1 .. Len(K) /\ DOMAIN L = 1 .. Len(K) + 1
      /\ \A c \in DOMAIN K : L[c] = K[c]
      /\ L[Len(K) + 1] = x
      /\ SameClauses(K, L)
  BY <1>0, AppendClause
<1>2. \A c \in DOMAIN L : c \in DOMAIN K \/ c = Len(K) + 1
  BY <1>1
<1>3. ClausesOK(L)
  <2>1. \A c \in DOMAIN L : WellBuilt(L[c])
    BY <1>1, <1>2 DEF Core, ClausesOK
  <2>2. \A c \in DOMAIN L : L[c].kind = "Learnt" => Derived(L, c)
    <3> SUFFICES ASSUME NEW c \in DOMAIN L, L[c].kind = "Learnt" PROVE Derived(L, c)
      OBVIOUS
    <3>1. CASE c \in DOMAIN K
      <4>1. Derived(K, c)
        BY <1>1, <3>1 DEF Core, ClausesOK
      <4> QED BY <1>1, <3>1, <4>1, DerivedSame
    <3>2. CASE c = Len(K) + 1
      BY <1>1, <3>2
    <3> QED BY <1>2, <3>1, <3>2
  <2>3. 1 \in DOMAIN L /\ L[1].lits = << >>
    <3>1. 1 \in DOMAIN K /\ K[1].lits = << >>
      BY DEF Core, ClausesOK
    <3> QED BY <1>1, <3>1
  <2> QED BY <1>1, <2>1, <2>2, <2>3 DEF ClausesOK
<1>4. LinksOK(t.watches, L)
  BY <1>0, LinksAdd DEF Core
<1>5. TrailOK(t.decision_tracker, L, lv)
  BY <1>1, ExplainedSame DEF Core, TrailOK
<1>6. ListsOK(t)
  BY <1>1, ListsSame DEF Core
<1>7. Len(K) + 1 \in DOMAIN L
  BY <1>1
<1> QED BY <1>1, <1>3, <1>4, <1>5, <1>6, <1>7 DEF Core

\* The first decision is made at level 1.
LEMMA BottomAdd ==
  ASSUME NEW x \in Tracker, Consistent(x), NEW lv \in Nat \ {0}, NEW k \in {lv - 1, lv},
         Bottom(x, k), NEW d \in Decision, k = 0 => IsRoot(d)
  PROVE  /\ Bottom(TryAddDecision(x, d, lv), lv)
         /\ TryAddResult(x, d) = "conflict" => Bottom(x, lv)
<1> DEFINE y == TryAddDecision(x, d, lv)
<1>1. /\ y \in Tracker
      /\ \/ y = x /\ ~IsUndecided(x.map, d.variable)
         \/ /\ x.map[d.variable] = 0
            /\ y.stack = Append(x.stack, d)
            /\ y.map = [x.map EXCEPT ![d.variable] = IF d.value THEN lv ELSE -lv]
  <2>1. /\ y \in Tracker
        /\ \/ y = x
           \/ /\ x.map[d.variable] = 0
              /\ y.stack = Append(x.stack, d)
              /\ y.map = [x.map EXCEPT ![d.variable] = IF d.value THEN lv ELSE -lv]
    BY SameTracker, Tr!TryAddProperties
  <2>2. IsUndecided(x.map, d.variable) => y = [x EXCEPT !.map[d.variable] = WithValueAndLevel(d.value, lv),
                                                        !.stack = Append(x.stack, d)]
    BY DEF TryAddDecision, TryAddResult
  <2>3. x.stack \in Seq(Decision) /\ x.map \in [Variable -> Int] /\ d.variable \in Variable
    BY TrailEntries DEF Decision
  <2>4. IsUndecided(x.map, d.variable) =>
          /\ y.stack = Append(x.stack, d)
          /\ y.map = [x.map EXCEPT ![d.variable] = IF d.value THEN lv ELSE -lv]
    BY <2>2 DEF Tracker, WithValueAndLevel
  <2> HIDE DEF y
  <2> QED BY <2>1, <2>4 DEF IsUndecided
<1>2. /\ x.stack \in Seq(Decision) /\ Len(x.stack) \in Nat /\ x.map \in [Variable -> Int]
      /\ \A i \in 1 .. Len(x.stack) : x.stack[i].variable \in Variable
      /\ d.variable \in Variable /\ d.value \in BOOLEAN
  BY TrailEntries DEF Decision
<1>3. ~IsUndecided(x.map, d.variable) => x.stack # << >>
  BY <1>2 DEF Consistent
<1>4. x.stack # << >> => 1 \in 1 .. Len(x.stack) /\ x.map[x.stack[1].variable] # 0
                         /\ LevelOf(x.map, x.stack[1].variable) = 1
  <2>1. x.stack # << >> => 1 \in 1 .. Len(x.stack)
    BY <1>2
  <2> QED BY <2>1 DEF Consistent, IsUndecided, Bottom
<1>5. TryAddResult(x, d) = "conflict" => ~IsUndecided(x.map, d.variable)
  BY DEF TryAddResult
<1> HIDE DEF y
<1>6. CASE y = x /\ ~IsUndecided(x.map, d.variable)
  BY <1>3, <1>4, <1>5, <1>6 DEF Bottom, y
<1>7. CASE /\ x.map[d.variable] = 0
           /\ y.stack = Append(x.stack, d)
           /\ y.map = [x.map EXCEPT ![d.variable] = IF d.value THEN lv ELSE -lv]
  <2>1. y.stack # << >>
    BY <1>2, <1>7
  <2>2. CASE x.stack # << >>
    <3>1. y.stack[1] = x.stack[1]
      BY <1>2, <1>4, <1>7, <2>2
    <3>2. y.map[x.stack[1].variable] = x.map[x.stack[1].variable]
      BY <1>2, <1>4, <1>7, <2>2
    <3> QED BY <1>4, <1>5, <1>7, <2>1, <2>2, <3>1, <3>2 DEF Bottom, LevelOf, IsUndecided, y
  <2>3. CASE x.stack = << >>
    <3>1. k = 0 /\ lv = 1
      BY <2>3 DEF Bottom
    <3>2. y.stack[1] = d
      BY <1>7, <2>3
    <3>3. LevelOf(y.map, d.variable) = 1
      <4>1. y.map[d.variable] = IF d.value THEN lv ELSE -lv
        BY <1>2, <1>7
      <4> HIDE DEF y
      <4>2. y.map[d.variable] \in {1, -1}
        BY <3>1, <4>1
      <4> QED BY <4>2 DEF LevelOf
    <3> QED BY <1>5, <1>7, <2>1, <3>2, <3>3 DEF Bottom, IsUndecided, y
  <2> QED BY <2>2, <2>3
<1> QED BY <1>1, <1>6, <1>7

\* A literal is assigned: it follows at the present level, or opens the next one.
LEMMA CoreAssign ==
  ASSUME NEW s, NEW lv \in Nat \ {0}, NEW k \in {lv - 1, lv}, Core(s, k), NEW d \in Decision,
         k = 0 => IsRoot(d), k = lv => Grounded(s.decision_tracker, s.clauses, d)
  PROVE  /\ Core(Assign(s, d, lv), lv)
         /\ Assign(s, d, lv).clauses = s.clauses
<1> DEFINE t == Assign(s, d, lv)
           x == s.decision_tracker
           y == TryAddDecision(x, d, lv)
<1>1. /\ Shape(s) /\ x \in Tracker /\ Consistent(x) /\ TopLevel(x) <= k /\ Explained(x, s.clauses)
      /\ ClausesOK(s.clauses) /\ LinksOK(s.watches, s.clauses) /\ ListsOK(s) /\ Bottom(x, k)
  BY DEF Core, TrailOK
<1>2. TopLevel(x) \in Nat
  BY <1>1, TrailEntries
<1>3. TopLevel(x) <= lv /\ (lv > TopLevel(x) \/ Grounded(x, s.clauses, d))
  BY <1>1, <1>2
<1>4. Bottom(y, lv) /\ (TryAddResult(x, d) = "conflict" => Bottom(x, lv))
  BY <1>1, BottomAdd
<1>5. CASE TryAddResult(x, d) = "conflict"
  <2>1. t = [s EXCEPT !.panicked = TRUE]
    BY <1>5 DEF Assign
  <2> HIDE DEF t, x
  <2>2. /\ Shape(t) /\ SameLists(s, t) /\ t.decision_tracker = x
        /\ t.clauses = s.clauses /\ t.watches = s.watches
    BY <1>1, <2>1 DEF Shape, SameLists, x
  <2>3. ListsOK(t)
    BY <1>1, <2>2 DEF SameLists, ListsOK
  <2>4. TrailOK(x, s.clauses, lv)
    BY <1>1, <1>3, <1>4, <1>5 DEF TrailOK
  <2>5. Core(t, lv)
    BY <1>1, <2>2, <2>3, <2>4 DEF Core
  <2> QED BY <2>2, <2>5 DEF t
<1>6. CASE TryAddResult(x, d) # "conflict"
  <2>1. t = [s EXCEPT !.decision_tracker = y]
    BY <1>6 DEF Assign
  <2>2. y \in Tracker /\ Consistent(y) /\ Explained(y, s.clauses) /\ TopLevel(y) <= lv
    <3>1. lv >= TopLevel(x)
      BY <1>2, <1>3
    <3> QED BY <1>1, <1>3, <3>1, ExplainedAdd
  <2> HIDE DEF t, y
  <2>3. /\ Shape(t) /\ SameLists(s, t) /\ t.decision_tracker = y
        /\ t.clauses = s.clauses /\ t.watches = s.watches
    BY <1>1, <2>1 DEF Shape, SameLists
  <2>4. ListsOK(t)
    BY <1>1, <2>3 DEF SameLists, ListsOK
  <2>5. TrailOK(y, s.clauses, lv)
    BY <1>4, <2>2 DEF TrailOK
  <2>6. Core(t, lv)
    BY <1>1, <2>3, <2>4, <2>5 DEF Core
  <2> QED BY <2>3, <2>6 DEF t
<1> QED BY <1>5, <1>6

----------------------------------------------------------------------------
(* What the encoder has queued                                              *)

\* Who may have dependencies.
Asker == Solvable \cup {Root}

\* The requests, by kind.
TaskType ==
  [kind : {"Dependencies"}, who : Asker, what : {None}, fired : {<< >>}]
    \cup [kind : {"Candidates"}, who : {None}, what : Name, fired : {<< >>}]
    \cup [kind : {"ConditionData"}, who : Asker,
          what : {r \in ConditionalRequirement : r.condition # NoCondition}, fired : {<< >>}]
    \cup [kind : {"Requirement"}, who : Asker, what : Requirement, fired : Seq(Seq(VersionSet))]
    \cup [kind : {"Constraint"}, who : Asker, what : VersionSet, fired : {<< >>}]

\* A deferred requirement, and those that wait for one condition.
EntryType == [who : Asker, requirement : Requirement, condition : ConditionId,
              disjunct : Seq(VersionSet)]
DeferredType == [condition : ConditionId, entries : Seq(EntryType)]

\* The variables of the candidates of a package, and those waiting for its
\* at-most-one clauses.
CandidateVars(n) == {SolvableVar(c) : c \in ToSet(Candidates[n])}
PendingType == UNION {{<<n, vs>> : vs \in Seq(CandidateVars(n))} : n \in Name}

\* An at-most-one tracker has every variable once, and fewer helpers than variables.
TrackerType == [variables : Seq(Variable), helpers : Nat]
TrackerOK(n, tr) ==
  /\ tr.variables \in Seq(CandidateVars(n))
  /\ IsInjective(tr.variables)
  /\ tr.helpers = 0 \/ tr.helpers < Len(tr.variables)
TrackersOK(trackers) ==
  /\ trackers \in [Name -> TrackerType]
  /\ \A n \in Name : TrackerOK(n, trackers[n])

\* What is queued has its type.
Queues(s) ==
  /\ s.tasks \in Seq(TaskType)
  /\ s.gates \in Seq(Requirement)
  /\ s.pending_forbid_clauses \in Seq(PendingType)
  /\ TrackersOK(s.at_most_one_trackers)
  /\ s.new_at_least_one_packages \in Seq(Name)
  /\ s.deferred_requirements \in Seq(DeferredType)
SameQueues(s, t) ==
  /\ t.tasks = s.tasks
  /\ t.gates = s.gates
  /\ t.pending_forbid_clauses = s.pending_forbid_clauses
  /\ t.at_most_one_trackers = s.at_most_one_trackers
  /\ t.new_at_least_one_packages = s.new_at_least_one_packages
  /\ t.deferred_requirements = s.deferred_requirements

\* Only the root may be decided, and no clause was found in conflict.
OnlyRoot(s) ==
  /\ \A v \in Variable : v # RootVar => IsUndecided(Map(s), v)
  /\ s.conflicting_clauses = << >>

\* The state is sound up to level lv.  While the root is being installed
\* (ph = "root") nothing can be decided and no conflict be found yet.
Good(s, lv, ph) == Core(s, lv) /\ Queues(s) /\ (ph = "root" => OnlyRoot(s))

\* Two states that agree on the trail, the clauses and their lists.
SameCore(s, t) ==
  /\ t.decision_tracker = s.decision_tracker
  /\ t.clauses = s.clauses
  /\ t.watches = s.watches
  /\ SameLists(s, t)

\* A state that agrees on the trail and the clauses.
LEMMA GoodFrame ==
  ASSUME NEW ph, NEW s, NEW t, NEW lv, Good(s, lv, ph), Shape(t), SameCore(s, t), Queues(t)
  PROVE  Good(t, lv, ph)
<1>1. Core(t, lv)
  BY CoreFrame DEF Good, SameCore
<1>2. OnlyRoot(s) => OnlyRoot(t)
  BY DEF OnlyRoot, SameCore, SameLists, Map
<1> QED BY <1>1, <1>2 DEF Good

\* The variables there are.
LEMMA Variables ==
  /\ RootVar \in Variable
  /\ \A x \in Solvable : SolvableVar(x) \in Variable
  /\ \A x \in Asker : VarOf(x) \in Variable
  /\ \A r \in Requirement : GateVar(r) \in Variable
  /\ \A v \in VersionSet : ViolationVar(v) \in Variable
  /\ \A n \in Name : AtLeastOneVar(n) \in Variable
  /\ \A n \in Name : \A i \in 0 .. Len(Candidates[n]) - 2 : ForbidVar(n, i) \in Variable
  /\ \A n \in Name : CandidateVars(n) \subseteq Variable
<1> DEFINE S == {SolvableVar(s) : s \in Solvable}
           F == UNION {{ForbidVar(n, i) : i \in 0 .. Len(Candidates[n]) - 2} : n \in Name}
           V == {ViolationVar(vs) : vs \in VersionSet}
           G == {GateVar(r) : r \in Requirement}
           A == {AtLeastOneVar(n) : n \in Name}
<1>0. Variable = {RootVar} \cup S \cup F \cup V \cup G \cup A
  BY DEF Variable
<1>m. /\ \A x \in Solvable : SolvableVar(x) \in S
      /\ \A r \in Requirement : GateVar(r) \in G
      /\ \A v \in VersionSet : ViolationVar(v) \in V
      /\ \A n \in Name : AtLeastOneVar(n) \in A
      /\ \A n \in Name : \A i \in 0 .. Len(Candidates[n]) - 2 : ForbidVar(n, i) \in F
  <2>1. \A n \in Name : \A i \in 0 .. Len(Candidates[n]) - 2 : ForbidVar(n, i) \in F
    <3> SUFFICES ASSUME NEW n \in Name, NEW i \in 0 .. Len(Candidates[n]) - 2 PROVE ForbidVar(n, i) \in F
      OBVIOUS
    <3>1. ForbidVar(n, i) \in {ForbidVar(n, j) : j \in 0 .. Len(Candidates[n]) - 2}
      OBVIOUS
    <3> QED BY <3>1, Zenon
  <2> QED BY <2>1
<1> HIDE DEF S, F, V, G, A
<1>1. RootVar \in Variable
  BY <1>0
<1>2. \A x \in Solvable : SolvableVar(x) \in Variable
  BY <1>0, <1>m
<1>3. \A x \in Asker : VarOf(x) \in Variable
  BY <1>1, <1>2 DEF VarOf, Asker
<1>4. \A r \in Requirement : GateVar(r) \in Variable
  BY <1>0, <1>m
<1>5. \A v \in VersionSet : ViolationVar(v) \in Variable
  BY <1>0, <1>m
<1>6. \A n \in Name : AtLeastOneVar(n) \in Variable
  BY <1>0, <1>m
<1>7. \A n \in Name : \A i \in 0 .. Len(Candidates[n]) - 2 : ForbidVar(n, i) \in Variable
  BY <1>0, <1>m
<1>8. \A n \in Name : CandidateVars(n) \subseteq Variable
  <2>1. \A n \in Name : Candidates[n] \in Seq(Solvable)
    BY ProviderAssumption
  <2>2. \A n \in Name : ToSet(Candidates[n]) \subseteq Solvable
    BY <2>1, ToSetType
  <2> QED BY <1>2, <2>2 DEF CandidateVars
<1> QED BY <1>1, <1>2, <1>3, <1>4, <1>5, <1>6, <1>7, <1>8

\* A literal is assigned: it follows at the present level, or opens the next one.
LEMMA GoodAssign ==
  ASSUME NEW ph, NEW s, NEW lv \in Nat \ {0}, NEW k \in {lv - 1, lv}, Good(s, k, ph), NEW d \in Decision,
         k = 0 => IsRoot(d), k = lv => Grounded(s.decision_tracker, s.clauses, d),
         ph = "root" => d.variable = RootVar
  PROVE  /\ Good(Assign(s, d, lv), lv, ph)
         /\ Assign(s, d, lv).clauses = s.clauses
         /\ SameQueues(s, Assign(s, d, lv)) /\ SameLists(s, Assign(s, d, lv))
<1> DEFINE t == Assign(s, d, lv)
<1>1. Shape(s)
  BY DEF Good, Core
<1>2. SameQueues(s, t) /\ SameLists(s, t)
  <2>1. t = [s EXCEPT !.panicked = TRUE]
        \/ t = [s EXCEPT !.decision_tracker = TryAddDecision(s.decision_tracker, d, lv)]
    BY DEF Assign
  <2> HIDE DEF t
  <2> QED BY <1>1, <2>1 DEF Shape, SameQueues, SameLists
<1>3. Core(t, lv) /\ t.clauses = s.clauses
  BY CoreAssign DEF Good
<1>4. Queues(t)
  BY <1>2 DEF Good, Queues, SameQueues
<1>5. ph = "root" => OnlyRoot(t)
  <2> SUFFICES ASSUME ph = "root" PROVE OnlyRoot(t)
    OBVIOUS
  <2>1. OnlyRoot(s) /\ d.variable = RootVar /\ s.decision_tracker \in Tracker
    BY DEF Good, Core, TrailOK
  <2>2. \A v \in Variable : v # RootVar => Map(t)[v] = Map(s)[v]
    <3> DEFINE x == s.decision_tracker
    <3>1. Map(t) = x.map \/ Map(t) = TryAddDecision(x, d, lv).map
      BY <1>1 DEF Assign, Map, Shape
    <3>2. TryAddDecision(x, d, lv).map \in {x.map, [x.map EXCEPT ![d.variable] = WithValueAndLevel(d.value, lv)]}
      BY <2>1 DEF TryAddDecision, Tracker
    <3>3. x.map \in [Variable -> Int] /\ Map(s) = x.map
      BY <2>1 DEF Tracker, Map
    <3> HIDE DEF x, t
    <3> QED BY <2>1, <3>1, <3>2, <3>3
  <2> HIDE DEF t
  <2> QED BY <1>2, <2>1, <2>2 DEF OnlyRoot, SameLists, IsUndecided
<1> QED BY <1>2, <1>3, <1>4, <1>5 DEF Good

\* State t is s with one clause more, linked into the watch lists.
Adds(s, t, x) ==
  /\ Shape(t) /\ SameLists(s, t) /\ SameQueues(s, t)
  /\ t.decision_tracker = s.decision_tracker
  /\ t.clauses = Append(s.clauses, x)
  /\ t.watches = WatchHeads(s.watches, NewClause(s), x.watched)
  /\ x \in ClauseType /\ WellBuilt(x)
  /\ x.next_watches = NextWatches(s.watches, NewClause(s), x.watched)

\* A clause is added that is not learnt.
LEMMA GoodAdd ==
  ASSUME NEW ph, NEW s, NEW t, NEW lv, Good(s, lv, ph), NEW x, Adds(s, t, x), x.kind # "Learnt"
  PROVE  /\ Good(t, lv, ph) /\ SameClauses(s.clauses, t.clauses)
         /\ NewClause(s) \in DOMAIN t.clauses /\ t.clauses[NewClause(s)] = x
<1>1. /\ Core(t, lv) /\ SameClauses(s.clauses, t.clauses)
      /\ NewClause(s) \in DOMAIN t.clauses /\ t.clauses[NewClause(s)] = x
  BY CoreAdd DEF Good, NewClause, Adds
<1>2. Queues(t)
  BY DEF Adds, Good, Queues, SameQueues
<1>3. OnlyRoot(s) => OnlyRoot(t)
  BY DEF Adds, OnlyRoot, SameLists, Map
<1> QED BY <1>1, <1>2, <1>3 DEF Good

\* The fields of a new clause.
LEMMA ClauseFields ==
  ASSUME NEW ph, NEW s, NEW lv, Good(s, lv, ph), NEW kind \in ClauseKind, NEW lits \in Seq(Literal),
         NEW watched \in Seq(Literal), watched # << >> => Len(watched) = 2
  PROVE  LET x == Clause(kind, lits, watched, NextWatches(s.watches, NewClause(s), watched)) IN
         /\ x \in ClauseType /\ x.kind = kind /\ x.lits = lits /\ x.watched = watched
         /\ x.next_watches = NextWatches(s.watches, NewClause(s), watched)
         /\ watched # << >> => Len(x.next_watches) = 2
<1> DEFINE q == NextWatches(s.watches, NewClause(s), watched)
<1>1. s.watches \in [Literal -> Nat] /\ s.clauses \in Seq(ClauseType)
  BY DEF Good, Core, LinksOK, ClausesOK
<1>2. NewClause(s) \in Nat
  BY <1>1 DEF NewClause
<1>3. q \in Seq(Nat) /\ (watched # << >> => Len(q) = 2)
  <2>1. DOMAIN watched = 1 .. Len(watched) /\ Len(watched) \in Nat
        /\ \A i \in DOMAIN watched : watched[i] \in Literal
    OBVIOUS
  <2> DEFINE F(i) == IF i = 2 /\ watched[2] = watched[1] THEN NewClause(s) ELSE s.watches[watched[i]]
  <2>2. q = [i \in 1 .. Len(watched) |-> F(i)]
    BY <2>1 DEF NextWatches
  <2>3. \A i \in 1 .. Len(watched) : F(i) \in Nat
    BY <1>1, <1>2, <2>1
  <2> HIDE DEF q, F
  <2>4. q \in Seq(Nat) /\ Len(q) = Len(watched)
    BY <2>1, <2>2, <2>3
  <2> QED BY <2>4
<1>4. << >> \in Seq(Literal) /\ << >> \in Seq(Nat)
  OBVIOUS
<1> HIDE DEF q
<1>5. Clause(kind, lits, watched, q) \in ClauseType
  BY <1>3, <1>4 DEF Clause, ClauseType
<1> QED BY <1>3, <1>5 DEF Clause, q

\* add_clause, for a clause that is not learnt.
LEMMA AddGood ==
  ASSUME NEW ph, NEW s, NEW lv, Good(s, lv, ph), NEW kind \in ClauseKind \ {"Learnt", "Requires"},
         NEW lits \in Seq(Literal), NEW watched \in Seq(Literal),
         watched # << >> => Len(watched) = 2 /\ ToSet(lits) = {watched[1], watched[2]}
  PROVE  LET t == AddClause(s, kind, lits, watched) IN
         /\ Good(t, lv, ph) /\ SameClauses(s.clauses, t.clauses) /\ SameLists(s, t) /\ SameQueues(s, t)
         /\ t.decision_tracker = s.decision_tracker
         /\ NewClause(s) \in DOMAIN t.clauses /\ t.clauses[NewClause(s)].lits = lits
<1> DEFINE t == AddClause(s, kind, lits, watched)
           x == Clause(kind, lits, watched, NextWatches(s.watches, NewClause(s), watched))
<1>1. /\ x \in ClauseType /\ x.kind = kind /\ x.lits = lits /\ x.watched = watched
      /\ x.next_watches = NextWatches(s.watches, NewClause(s), watched)
      /\ watched # << >> => Len(x.next_watches) = 2
  BY ClauseFields
<1>2. Shape(s)
  BY DEF Good, Core
<1>3. t = [s EXCEPT !.clauses = Append(s.clauses, x), !.watches = WatchHeads(s.watches, NewClause(s), watched)]
  BY DEF AddClause
<1> HIDE DEF t, x
<1>4. /\ Shape(t) /\ SameLists(s, t) /\ SameQueues(s, t) /\ t.decision_tracker = s.decision_tracker
      /\ t.clauses = Append(s.clauses, x) /\ t.watches = WatchHeads(s.watches, NewClause(s), watched)
  BY <1>2, <1>3 DEF Shape, SameLists, SameQueues
<1>5. WellBuilt(x)
  BY <1>1 DEF WellBuilt
<1>6. /\ Good(t, lv, ph) /\ SameClauses(s.clauses, t.clauses)
      /\ NewClause(s) \in DOMAIN t.clauses /\ t.clauses[NewClause(s)] = x
  <2>1. Adds(s, t, x) /\ x.kind # "Learnt"
    BY <1>1, <1>4, <1>5 DEF Adds
  <2> QED BY <2>1, GoodAdd
<1> QED BY <1>1, <1>4, <1>6 DEF t

\* State t is s with the clause of literals a and b.
AddsBinary(s, t, lv, ph, a, b) ==
  /\ Good(t, lv, ph) /\ SameClauses(s.clauses, t.clauses) /\ SameLists(s, t) /\ SameQueues(s, t)
  /\ t.decision_tracker = s.decision_tracker
  /\ NewClause(s) \in DOMAIN t.clauses /\ t.clauses[NewClause(s)].lits = <<a, b>>
  /\ ToSet(t.clauses[NewClause(s)].lits) = {a, b}

\* The same for a clause of two literals, both watched.
LEMMA AddBinary ==
  ASSUME NEW ph, NEW s, NEW lv, Good(s, lv, ph), NEW kind \in ClauseKind \ {"Learnt", "Requires"},
         NEW a \in Literal, NEW b \in Literal
  PROVE  AddsBinary(s, AddClause(s, kind, <<a, b>>, <<a, b>>), lv, ph, a, b)
<1> DEFINE w == <<a, b>>
<1>1. w \in Seq(Literal) /\ ToSet(w) = {a, b} /\ Len(w) = 2 /\ w[1] = a /\ w[2] = b
  BY ShortSequences
<1> HIDE DEF w
<1>2. LET t == AddClause(s, kind, w, w) IN
      /\ Good(t, lv, ph) /\ SameClauses(s.clauses, t.clauses) /\ SameLists(s, t) /\ SameQueues(s, t)
      /\ t.decision_tracker = s.decision_tracker
      /\ NewClause(s) \in DOMAIN t.clauses /\ t.clauses[NewClause(s)].lits = w
  BY <1>1, AddGood
<1>3. AddsBinary(s, AddClause(s, kind, w, w), lv, ph, a, b)
  <2> DEFINE t == AddClause(s, kind, w, w)
  <2>1. /\ Good(t, lv, ph) /\ SameClauses(s.clauses, t.clauses) /\ SameLists(s, t) /\ SameQueues(s, t)
        /\ t.decision_tracker = s.decision_tracker
        /\ NewClause(s) \in DOMAIN t.clauses /\ t.clauses[NewClause(s)].lits = w
    BY <1>2
  <2> HIDE DEF t
  <2>2. t.clauses[NewClause(s)].lits = <<a, b>>
    BY <2>1 DEF w
  <2> QED BY <1>1, <2>1, <2>2 DEF AddsBinary, t
<1> QED BY <1>3 DEF w

\* The same for an assertion.
LEMMA AddUnit ==
  ASSUME NEW ph, NEW s, NEW lv, Good(s, lv, ph), NEW kind \in ClauseKind \ {"Learnt", "Requires"},
         NEW a \in Literal
  PROVE  LET t == AddClause(s, kind, <<a>>, << >>) IN
         /\ Good(t, lv, ph) /\ SameClauses(s.clauses, t.clauses)
         /\ NewClause(s) \in DOMAIN t.clauses /\ t.clauses[NewClause(s)].lits = <<a>>
<1> DEFINE w == <<a>>
           none == << >>
<1>1. w \in Seq(Literal) /\ none \in Seq(Literal)
  BY ShortSequences
<1>2. none # << >> => Len(none) = 2 /\ ToSet(w) = {none[1], none[2]}
  OBVIOUS
<1> HIDE DEF w, none
<1>3. LET t == AddClause(s, kind, w, none) IN
      /\ Good(t, lv, ph) /\ SameClauses(s.clauses, t.clauses)
      /\ NewClause(s) \in DOMAIN t.clauses /\ t.clauses[NewClause(s)].lits = w
  BY <1>1, <1>2, AddGood
<1> QED BY <1>3 DEF w, none

\* A clause is reported, an assertion or a requirer recorded.
LEMMA GoodReport ==
  ASSUME NEW ph, NEW s, NEW lv, Good(s, lv, ph), NEW c \in DOMAIN s.clauses, ph # "root"
  PROVE  Good(Report(s, c), lv, ph)
<1> DEFINE t == Report(s, c)
<1>1. Shape(s) /\ ListsOK(s) /\ s.clauses \in Seq(ClauseType)
  BY DEF Good, Core, ClausesOK
<1>2. s.conflicting_clauses \in Seq(Nat) /\ \A i \in DOMAIN s.conflicting_clauses : s.conflicting_clauses[i] \in DOMAIN s.clauses
  BY <1>1 DEF ListsOK, ReportedOK
<1> DEFINE q == s.conflicting_clauses
           r == Append(q, c)
<1>3. c \in Nat
  BY <1>1
<1>4. r \in Seq(Nat) /\ \A i \in DOMAIN r : r[i] \in DOMAIN s.clauses
  BY <1>2, <1>3
<1>5. t = [s EXCEPT !.conflicting_clauses = r]
  BY DEF Report
<1> HIDE DEF t, r
<1>6. /\ Shape(t) /\ SameQueues(s, t) /\ t.conflicting_clauses = r
      /\ t.decision_tracker = s.decision_tracker /\ t.clauses = s.clauses /\ t.watches = s.watches
      /\ t.negative_assertions = s.negative_assertions /\ t.learnt_clause_ids = s.learnt_clause_ids
      /\ t.gate_requirers = s.gate_requirers
  BY <1>1, <1>5 DEF Shape, SameQueues
<1>7. ListsOK(t)
  BY <1>1, <1>4, <1>6 DEF ListsOK, ReportedOK
<1>8. Queues(t)
  BY <1>6 DEF Good, Queues, SameQueues
<1>9. Core(t, lv)
  BY <1>6, <1>7 DEF Good, Core
<1> QED BY <1>8, <1>9 DEF Good, t

\* An assertion is noted.
LEMMA GoodAssertion ==
  ASSUME NEW ph, NEW s, NEW lv, Good(s, lv, ph), NEW c \in DOMAIN s.clauses, NEW v \in Variable,
         s.clauses[c].lits = <<Neg(v)>>
  PROVE  LET t == [s EXCEPT !.negative_assertions = Append(@, <<v, c>>)] IN
         Good(t, lv, ph) /\ t.clauses = s.clauses
<1> DEFINE t == [s EXCEPT !.negative_assertions = Append(@, <<v, c>>)]
           q == s.negative_assertions
           r == Append(q, <<v, c>>)
<1>1. Shape(s) /\ ListsOK(s) /\ s.clauses \in Seq(ClauseType)
  BY DEF Good, Core, ClausesOK
<1>2. /\ q \in Seq(Variable \X Nat)
      /\ \A i \in DOMAIN q : q[i][2] \in DOMAIN s.clauses /\ s.clauses[q[i][2]].lits = <<Neg(q[i][1])>>
  BY <1>1 DEF ListsOK, AssertionsOK
<1>3. <<v, c>> \in Variable \X Nat
  BY <1>1
<1>4. r \in Seq(Variable \X Nat) /\ Len(r) = Len(q) + 1 /\ Len(q) \in Nat
      /\ (\A i \in 1 .. Len(q) : r[i] = q[i]) /\ r[Len(q) + 1] = <<v, c>> /\ DOMAIN q = 1 .. Len(q)
      /\ DOMAIN r = 1 .. Len(q) + 1
  BY <1>2, <1>3
<1> HIDE DEF r, q
<1>5. AssertionsOK(r, s.clauses)
  <2> SUFFICES ASSUME NEW i \in DOMAIN r
               PROVE  r[i][2] \in DOMAIN s.clauses /\ s.clauses[r[i][2]].lits = <<Neg(r[i][1])>>
    BY <1>4 DEF AssertionsOK
  <2>1. CASE i \in 1 .. Len(q)
    <3>1. r[i] = q[i] /\ i \in DOMAIN q
      BY <1>4, <2>1
    <3> QED BY <1>2, <3>1
  <2>2. CASE i = Len(q) + 1
    <3>1. r[i][1] = v /\ r[i][2] = c
      BY <1>4, <2>2
    <3> QED BY <3>1
  <2> QED BY <1>4, <2>1, <2>2
<1>6. t = [s EXCEPT !.negative_assertions = r]
  BY DEF r, q
<1> HIDE DEF t
<1>7. /\ Shape(t) /\ SameQueues(s, t) /\ t.negative_assertions = r
      /\ t.decision_tracker = s.decision_tracker /\ t.clauses = s.clauses /\ t.watches = s.watches
      /\ t.conflicting_clauses = s.conflicting_clauses /\ t.learnt_clause_ids = s.learnt_clause_ids
      /\ t.gate_requirers = s.gate_requirers
  BY <1>1, <1>6 DEF Shape, SameQueues
<1>8. ListsOK(t)
  BY <1>1, <1>5, <1>7 DEF ListsOK
<1>9. Queues(t)
  BY <1>7 DEF Good, Queues, SameQueues
<1>10. Core(t, lv)
  BY <1>7, <1>8 DEF Good, Core
<1>11. OnlyRoot(s) => OnlyRoot(t)
  BY <1>7 DEF OnlyRoot, Map
<1> QED BY <1>7, <1>9, <1>10, <1>11 DEF Good, t

\* Clause c lets v imply the gate of a requirement, and the note of it.
Implication(K, c, v, req) == K[c].lits = <<Pos(GateVar(req)), Neg(v)>>
NoteRequirer(s, c, v, req) == [s EXCEPT !.gate_requirers[req] = Append(@, <<v, c>>)]

\* The requirer of a gate is noted.
LEMMA GoodRequirer ==
  ASSUME NEW ph, NEW s, NEW lv, Good(s, lv, ph), NEW c \in DOMAIN s.clauses, NEW v \in Variable,
         NEW req \in Requirement, Implication(s.clauses, c, v, req)
  PROVE  LET t == NoteRequirer(s, c, v, req) IN
         Good(t, lv, ph) /\ t.clauses = s.clauses /\ t.decision_tracker = s.decision_tracker
<1> DEFINE t == NoteRequirer(s, c, v, req)
           g == s.gate_requirers
           q == g[req]
           r == Append(q, <<v, c>>)
           h == [g EXCEPT ![req] = r]
<1>1. Shape(s) /\ ListsOK(s) /\ s.clauses \in Seq(ClauseType)
  BY DEF Good, Core, ClausesOK
<1>2. /\ g \in [Requirement -> Seq(Variable \X Nat)]
      /\ \A x \in Requirement : \A i \in DOMAIN g[x] :
           /\ g[x][i][2] \in DOMAIN s.clauses
           /\ s.clauses[g[x][i][2]].lits = <<Pos(GateVar(x)), Neg(g[x][i][1])>>
  BY <1>1 DEF ListsOK, RequirersOK
<1>3. <<v, c>> \in Variable \X Nat
  BY <1>1
<1>4. q \in Seq(Variable \X Nat)
  BY <1>2
<1>5. r \in Seq(Variable \X Nat) /\ Len(r) = Len(q) + 1 /\ Len(q) \in Nat
      /\ (\A i \in 1 .. Len(q) : r[i] = q[i]) /\ r[Len(q) + 1] = <<v, c>> /\ DOMAIN q = 1 .. Len(q)
      /\ DOMAIN r = 1 .. Len(q) + 1
  <2> HIDE DEF q
  <2> QED BY <1>3, <1>4
<1> HIDE DEF r
<1>6. h \in [Requirement -> Seq(Variable \X Nat)] /\ h[req] = r
      /\ \A x \in Requirement : x # req => h[x] = g[x]
  BY <1>2, <1>5
<1>h. t = [s EXCEPT !.gate_requirers = h]
  BY DEF r, NoteRequirer
<1> HIDE DEF h
<1>7. ASSUME NEW i \in DOMAIN r
      PROVE  r[i][2] \in DOMAIN s.clauses /\ s.clauses[r[i][2]].lits = <<Pos(GateVar(req)), Neg(r[i][1])>>
  <2>1. CASE i \in 1 .. Len(q)
    <3>1. r[i] = q[i] /\ i \in DOMAIN q
      BY <1>5, <2>1
    <3> QED BY <1>2, <3>1
  <2>2. CASE i = Len(q) + 1
    <3>1. r[i][1] = v /\ r[i][2] = c
      BY <1>5, <2>2
    <3> QED BY <3>1 DEF Implication
  <2> HIDE DEF q
  <2> QED BY <1>5, <2>1, <2>2
<1>8. RequirersOK(h, s.clauses)
  <2> SUFFICES ASSUME NEW x \in Requirement, NEW i \in DOMAIN h[x]
               PROVE  /\ h[x][i][2] \in DOMAIN s.clauses
                      /\ s.clauses[h[x][i][2]].lits = <<Pos(GateVar(x)), Neg(h[x][i][1])>>
    BY <1>6 DEF RequirersOK
  <2> HIDE DEF q, g
  <2>1. CASE x = req
    BY <1>6, <1>7, <2>1
  <2>2. CASE x # req
    <3>1. h[x] = g[x]
      BY <1>6, <2>2
    <3> QED BY <1>2, <3>1
  <2> QED BY <2>1, <2>2
<1> HIDE DEF t, g, q
<1>9. /\ Shape(t) /\ SameQueues(s, t) /\ t.gate_requirers = h
      /\ t.decision_tracker = s.decision_tracker /\ t.clauses = s.clauses /\ t.watches = s.watches
      /\ t.conflicting_clauses = s.conflicting_clauses /\ t.learnt_clause_ids = s.learnt_clause_ids
      /\ t.negative_assertions = s.negative_assertions
  BY <1>1, <1>h DEF Shape, SameQueues
<1>10. ListsOK(t)
  BY <1>1, <1>8, <1>9 DEF ListsOK
<1>11. Queues(t)
  BY <1>9 DEF Good, Queues, SameQueues
<1>12. Core(t, lv)
  BY <1>9, <1>10 DEF Good, Core
<1>13. OnlyRoot(s) => OnlyRoot(t)
  BY <1>9 DEF OnlyRoot, Map
<1> QED BY <1>9, <1>11, <1>12, <1>13 DEF Good, t

----------------------------------------------------------------------------
(* What the provider answers                                                *)

\* A sequence given by its elements.
LEMMA MapSequence ==
  ASSUME NEW T, NEW n \in Nat, NEW f, DOMAIN f = 1 .. n, f = [i \in 1 .. n |-> f[i]],
         \A i \in 1 .. n : f[i] \in T
  PROVE  f \in Seq(T) /\ Len(f) = n
  OBVIOUS

\* Candidates of version sets and requirements are solvables of their packages.
LEMMA AnswersTyped ==
  /\ \A n \in Name : Candidates[n] \in Seq(Solvable) /\ ToSet(Candidates[n]) \subseteq Solvable
  /\ \A vs \in VersionSet :
       /\ VsName[vs] \in Name
       /\ NonMatching(vs) \in Seq(Solvable) /\ Matching(vs) \in Seq(Solvable)
       /\ ToSet(NonMatching(vs)) \subseteq ToSet(Candidates[VsName[vs]])
  /\ \A req \in Requirement :
       /\ VersionSetNames(req) \in Seq(Name)
       /\ RequirementCandidates(req) \in Seq(Solvable)
  /\ \A c \in Solvable : NameOf(c) \in Name /\ SolvableVar(c) \in CandidateVars(NameOf(c))
<1>1. \A n \in Name : Candidates[n] \in Seq(Solvable) /\ ToSet(Candidates[n]) \subseteq Solvable
  <2>1. \A n \in Name : Candidates[n] \in Seq(Solvable)
    BY ProviderAssumption
  <2> QED BY <2>1, ToSetType
<1>2. ASSUME NEW vs \in VersionSet
      PROVE  /\ VsName[vs] \in Name
             /\ NonMatching(vs) \in Seq(Solvable) /\ Matching(vs) \in Seq(Solvable)
             /\ ToSet(NonMatching(vs)) \subseteq ToSet(Candidates[VsName[vs]])
  <2>1. VsName[vs] \in Name
    BY ProviderAssumption
  <2>2. Candidates[VsName[vs]] \in Seq(Solvable)
    BY <1>1, <2>1
  <2>3. /\ Keep(Candidates[VsName[vs]], VsMatch[vs]) \in Seq(Solvable)
        /\ Keep(Candidates[VsName[vs]], Solvable \ VsMatch[vs]) \in Seq(Solvable)
        /\ ToSet(Keep(Candidates[VsName[vs]], Solvable \ VsMatch[vs]))
             \subseteq ToSet(Candidates[VsName[vs]])
    BY <2>2, KeepElements
  <2> QED BY <2>1, <2>3 DEF Matching, NonMatching
<1>3. ASSUME NEW req \in Requirement
      PROVE  VersionSetNames(req) \in Seq(Name) /\ RequirementCandidates(req) \in Seq(Solvable)
  <2> DEFINE q == ReqVs[req]
             parts == [i \in DOMAIN q |-> Matching(q[i])]
             names == [i \in DOMAIN q |-> VsName[q[i]]]
  <2>1. q \in Seq(VersionSet)
    BY ProviderAssumption
  <2>2. Len(q) \in Nat /\ DOMAIN q = 1 .. Len(q) /\ \A i \in DOMAIN q : q[i] \in VersionSet
    <3> HIDE DEF q
    <3> QED BY <2>1
  <2>3. parts \in Seq(Seq(Solvable)) /\ names \in Seq(Name)
    <3>1. \A i \in DOMAIN q : Matching(q[i]) \in Seq(Solvable) /\ VsName[q[i]] \in Name
      BY <1>2, <2>2
    <3> HIDE DEF q
    <3> QED BY <2>2, <3>1
  <2>4. FlattenSeq(parts) \in Seq(Solvable)
    BY <2>3, FlattenElements
  <2> QED BY <2>3, <2>4 DEF VersionSetNames, RequirementCandidates
<1>4. ASSUME NEW c \in Solvable PROVE NameOf(c) \in Name /\ SolvableVar(c) \in CandidateVars(NameOf(c))
  <2>1. \E n \in Name : c \in ToSet(Candidates[n])
    BY ProviderAssumption
  <2>2. NameOf(c) \in Name /\ c \in ToSet(Candidates[NameOf(c)])
    BY <2>1 DEF NameOf
  <2> QED BY <2>2 DEF CandidateVars
<1> QED BY <1>1, <1>2, <1>3, <1>4

\* The literals of the candidates of a requirement are positive literals of
\* solvables; those of a condition may also be negated at-least-one variables.
CandidateLit == {Pos(SolvableVar(c)) : c \in Solvable}
ConditionLit == CandidateLit \cup {Neg(AtLeastOneVar(n)) : n \in Name}

\* Candidates and conditions become such literals.
LEMMA LiteralsTyped ==
  /\ CandidateLit \subseteq Literal /\ ConditionLit \subseteq Literal
  /\ \A req \in Requirement : CandidateLits(req) \in Seq(CandidateLit)
  /\ \A d \in Seq(VersionSet) : ConditionLits(d) \in Seq(ConditionLit)
<1>1. CandidateLit \subseteq Literal /\ ConditionLit \subseteq Literal
  <2>1. \A c \in Solvable : Pos(SolvableVar(c)) \in Literal
    BY Variables, LiteralParts
  <2>2. \A n \in Name : Neg(AtLeastOneVar(n)) \in Literal
    BY Variables, LiteralParts
  <2> QED BY <2>1, <2>2 DEF CandidateLit, ConditionLit
<1>2. ASSUME NEW q \in Seq(Solvable)
      PROVE  [i \in DOMAIN q |-> Pos(SolvableVar(q[i]))] \in Seq(CandidateLit)
  <2>1. Len(q) \in Nat /\ DOMAIN q = 1 .. Len(q) /\ \A i \in DOMAIN q : q[i] \in Solvable
    OBVIOUS
  <2>2. \A i \in DOMAIN q : Pos(SolvableVar(q[i])) \in CandidateLit
    BY <2>1 DEF CandidateLit
  <2> QED BY <2>1, <2>2
<1>3. ASSUME NEW req \in Requirement PROVE CandidateLits(req) \in Seq(CandidateLit)
  <2>1. RequirementCandidates(req) \in Seq(Solvable)
    BY AnswersTyped
  <2> QED BY <1>2, <2>1 DEF CandidateLits
<1>4. ASSUME NEW vs \in VersionSet PROVE Complement(vs) \in Seq(ConditionLit)
  <2>1. VsName[vs] \in Name /\ NonMatching(vs) \in Seq(Solvable)
    BY AnswersTyped
  <2>2. CASE NonMatching(vs) = << >>
    <3>1. Neg(AtLeastOneVar(VsName[vs])) \in ConditionLit
      BY <2>1 DEF ConditionLit
    <3>2. <<Neg(AtLeastOneVar(VsName[vs]))>> \in Seq(ConditionLit)
      BY <3>1, ShortSequences
    <3> QED BY <2>2, <3>2 DEF Complement
  <2>3. CASE NonMatching(vs) # << >>
    <3>1. Complement(vs) \in Seq(CandidateLit)
      BY <1>2, <2>1, <2>3 DEF Complement
    <3>2. CandidateLit \subseteq ConditionLit
      BY DEF ConditionLit
    <3> HIDE DEF CandidateLit, ConditionLit
    <3> QED BY <3>1, <3>2
  <2> QED BY <2>2, <2>3
<1>5. ASSUME NEW d \in Seq(VersionSet) PROVE ConditionLits(d) \in Seq(ConditionLit)
  <2> DEFINE parts == [i \in DOMAIN d |-> Complement(d[i])]
  <2>1. Len(d) \in Nat /\ DOMAIN d = 1 .. Len(d) /\ \A i \in DOMAIN d : d[i] \in VersionSet
    OBVIOUS
  <2>2. \A i \in DOMAIN d : Complement(d[i]) \in Seq(ConditionLit)
    BY <1>4, <2>1
  <2>3. parts \in Seq(Seq(ConditionLit))
    BY <2>1, <2>2
  <2>4. FlattenSeq(parts) \in Seq(ConditionLit)
    BY <2>3, FlattenElements
  <2> QED BY <2>4 DEF ConditionLits
<1> QED BY <1>1, <1>3, <1>5

\* Every variable but the root's.
OtherVar == {v \in Variable : v # RootVar}

\* Only askers can be the root; the literals of candidates and conditions are not.
LEMMA OtherVars ==
  /\ OtherVar \subseteq Variable
  /\ \A x \in Solvable : SolvableVar(x) \in OtherVar /\ VarOf(x) \in OtherVar
  /\ \A r \in Requirement : GateVar(r) \in OtherVar
  /\ \A v \in VersionSet : ViolationVar(v) \in OtherVar
  /\ \A n \in Name : AtLeastOneVar(n) \in OtherVar
  /\ \A n \in Name : \A i \in 0 .. Len(Candidates[n]) - 2 : ForbidVar(n, i) \in OtherVar
  /\ \A n \in Name : CandidateVars(n) \subseteq OtherVar
  /\ \A l \in ConditionLit : l.variable \in OtherVar
<1>0. RootVar.origin = "Root"
  BY DEF RootVar, Var
<1>1. \A x : SolvableVar(x).origin = "Solvable"
  BY DEF SolvableVar, Var
<1>2. \A x : GateVar(x).origin = "RequiresGate"
  BY DEF GateVar, Var
<1>3. \A x : ViolationVar(x).origin = "ConstrainsViolation"
  BY DEF ViolationVar, Var
<1>4. \A x : AtLeastOneVar(x).origin = "AtLeastOne"
  BY DEF AtLeastOneVar, Var
<1>5. \A x, i : ForbidVar(x, i).origin = "ForbidMultiple"
  BY DEF ForbidVar, Var
<1>6. \A x \in Solvable : SolvableVar(x) \in OtherVar
  BY <1>0, <1>1, Variables DEF OtherVar
<1>7. \A x \in Solvable : VarOf(x) = SolvableVar(x)
  BY ProviderAssumption DEF VarOf
<1>8. \A r \in Requirement : GateVar(r) \in OtherVar
  BY <1>0, <1>2, Variables DEF OtherVar
<1>9. \A v \in VersionSet : ViolationVar(v) \in OtherVar
  BY <1>0, <1>3, Variables DEF OtherVar
<1>10. \A n \in Name : AtLeastOneVar(n) \in OtherVar
  BY <1>0, <1>4, Variables DEF OtherVar
<1>11. \A n \in Name : \A i \in 0 .. Len(Candidates[n]) - 2 : ForbidVar(n, i) \in OtherVar
  BY <1>0, <1>5, Variables DEF OtherVar
<1>12. \A n \in Name : CandidateVars(n) \subseteq OtherVar
  <2>1. \A n \in Name : ToSet(Candidates[n]) \subseteq Solvable
    BY AnswersTyped
  <2> QED BY <1>6, <2>1 DEF CandidateVars
<1>13. \A l \in ConditionLit : l.variable \in OtherVar
  <2>1. \A c \in Solvable : Pos(SolvableVar(c)).variable \in OtherVar
    BY <1>6, LiteralParts
  <2>2. \A n \in Name : Neg(AtLeastOneVar(n)).variable \in OtherVar
    BY <1>10, LiteralParts
  <2> QED BY <2>1, <2>2 DEF ConditionLit, CandidateLit
<1>14. OtherVar \subseteq Variable
  BY DEF OtherVar
<1> QED BY <1>6, <1>7, <1>8, <1>9, <1>10, <1>11, <1>12, <1>13, <1>14

\* Once another variable is decided, the root is no longer being installed.
LEMMA OtherDecided ==
  ASSUME NEW ph, NEW s, NEW lv, Good(s, lv, ph)
  PROVE  /\ \A v \in OtherVar : IsTrue(Map(s), v) \/ IsFalse(Map(s), v) => ph # "root"
         /\ \A l : l.variable \in OtherVar /\ LitFalse(Map(s), l) => ph # "root"
<1>1. ASSUME NEW v \in OtherVar, IsTrue(Map(s), v) \/ IsFalse(Map(s), v) PROVE ph # "root"
  <2>1. ~IsUndecided(Map(s), v)
    <3> DEFINE x == Map(s)[v]
    <3>1. x > 0 \/ x < 0
      BY <1>1 DEF IsTrue, IsFalse
    <3>2. x \in Int
      <4>1. s.decision_tracker.map \in [Variable -> Int]
        BY DEF Good, Core, TrailOK, Tracker
      <4> QED BY <4>1 DEF Map, OtherVar
    <3>3. x # 0
      <4> HIDE DEF x
      <4> QED BY <3>1, <3>2
    <3> QED BY <3>3 DEF IsUndecided
  <2> QED BY <2>1 DEF Good, OnlyRoot, OtherVar
<1>2. \A l : LitFalse(Map(s), l) => IsTrue(Map(s), l.variable) \/ IsFalse(Map(s), l.variable)
  BY DEF LitFalse
<1> QED BY <1>1, <1>2

----------------------------------------------------------------------------
(* Requests                                                                 *)

\* What the loops of the encoder keep.
Kept(lv, ph, i, s) == Good(s, lv, ph)

\* The fields that a step leaves are still good.
LEMMA GoodTasks ==
  ASSUME NEW ph, NEW s, NEW t, NEW lv, Good(s, lv, ph), Shape(t), SameCore(s, t), t.tasks \in Seq(TaskType),
         t.gates = s.gates, t.pending_forbid_clauses = s.pending_forbid_clauses,
         t.at_most_one_trackers = s.at_most_one_trackers,
         t.new_at_least_one_packages = s.new_at_least_one_packages,
         t.deferred_requirements = s.deferred_requirements
  PROVE  Good(t, lv, ph)
<1>1. Queues(t)
  BY DEF Good, Queues
<1> QED BY <1>1, GoodFrame

\* Every request that the encoder makes is of its type.
LEMMA TaskKinds ==
  /\ \A x \in Asker : Task("Dependencies", x, None) \in TaskType
  /\ \A n \in Name : Task("Candidates", None, n) \in TaskType
  /\ \A x \in Asker : \A r \in ConditionalRequirement :
       r.condition # NoCondition => Task("ConditionData", x, r) \in TaskType
  /\ \A x \in Asker : \A r \in Requirement : Task("Requirement", x, r) \in TaskType
  /\ \A x \in Asker : \A r \in Requirement : \A fired \in Seq(Seq(VersionSet)) :
       [Task("Requirement", x, r) EXCEPT !.fired = fired] \in TaskType
  /\ \A x \in Asker : \A vs \in VersionSet : Task("Constraint", x, vs) \in TaskType
<1> DEFINE A == [kind : {"Dependencies"}, who : Asker, what : {None}, fired : {<< >>}]
           B == [kind : {"Candidates"}, who : {None}, what : Name, fired : {<< >>}]
           C == [kind : {"ConditionData"}, who : Asker,
                 what : {r \in ConditionalRequirement : r.condition # NoCondition}, fired : {<< >>}]
           D == [kind : {"Requirement"}, who : Asker, what : Requirement, fired : Seq(Seq(VersionSet))]
           E == [kind : {"Constraint"}, who : Asker, what : VersionSet, fired : {<< >>}]
<1>0. TaskType = A \cup B \cup C \cup D \cup E
  BY DEF TaskType
<1>1. \A x \in Asker : Task("Dependencies", x, None) \in A
  BY DEF Task
<1>2. \A n \in Name : Task("Candidates", None, n) \in B
  BY DEF Task
<1>3. \A x \in Asker : \A r \in ConditionalRequirement :
        r.condition # NoCondition => Task("ConditionData", x, r) \in C
  BY DEF Task
<1>4. \A x \in Asker : \A r \in Requirement : Task("Requirement", x, r) \in D
  <2>1. << >> \in Seq(Seq(VersionSet))
    OBVIOUS
  <2> QED BY <2>1 DEF Task
<1>5. \A x \in Asker : \A r \in Requirement : \A fired \in Seq(Seq(VersionSet)) :
        [Task("Requirement", x, r) EXCEPT !.fired = fired] \in D
  BY DEF Task
<1>6. \A x \in Asker : \A vs \in VersionSet : Task("Constraint", x, vs) \in E
  BY DEF Task
<1> HIDE DEF A, B, C, D, E
<1> QED BY <1>0, <1>1, <1>2, <1>3, <1>4, <1>5, <1>6

\* A request is queued.
LEMMA EnqueueGood ==
  ASSUME NEW ph, NEW s, NEW lv, Good(s, lv, ph), NEW task \in TaskType
  PROVE  Good(Enqueue(s, task), lv, ph)
<1> DEFINE t == Enqueue(s, task)
<1>1. Shape(s) /\ s.tasks \in Seq(TaskType)
  BY DEF Good, Core, Queues
<1>2. Append(s.tasks, task) \in Seq(TaskType)
  BY <1>1, AppendSet
<1>3. t = [s EXCEPT !.tasks = Append(s.tasks, task)]
  BY DEF Enqueue
<1> HIDE DEF t
<1>4. /\ Shape(t) /\ SameCore(s, t) /\ t.tasks = Append(s.tasks, task)
      /\ t.gates = s.gates /\ t.pending_forbid_clauses = s.pending_forbid_clauses
      /\ t.at_most_one_trackers = s.at_most_one_trackers
      /\ t.new_at_least_one_packages = s.new_at_least_one_packages
      /\ t.deferred_requirements = s.deferred_requirements
  BY <1>1, <1>3 DEF Shape, SameCore, SameLists
<1> QED BY <1>2, <1>4, GoodTasks DEF t

\* queue_solvable
LEMMA QueueSolvableGood ==
  ASSUME NEW ph, NEW s, NEW lv, Good(s, lv, ph), NEW x \in Asker
  PROVE  Good(QueueSolvable(s, x), lv, ph)
<1> DEFINE t == [s EXCEPT !.clauses_added_for_solvable = @ \cup {x}]
<1>1. Shape(s)
  BY DEF Good, Core
<1>2. t = [s EXCEPT !.clauses_added_for_solvable = s.clauses_added_for_solvable \cup {x}]
  OBVIOUS
<1>3. QueueSolvable(s, x) = s \/ QueueSolvable(s, x) = Enqueue(t, Task("Dependencies", x, None))
  BY DEF QueueSolvable
<1> HIDE DEF t
<1>4. Shape(t) /\ SameCore(s, t) /\ SameQueues(s, t)
  BY <1>1, <1>2 DEF Shape, SameCore, SameLists, SameQueues
<1>5. Good(t, lv, ph)
  <2>1. Queues(t)
    BY <1>4 DEF Good, Queues, SameQueues
  <2> QED BY <1>4, <2>1, GoodFrame
<1>6. Good(Enqueue(t, Task("Dependencies", x, None)), lv, ph)
  BY <1>5, TaskKinds, EnqueueGood
<1> QED BY <1>3, <1>6

\* queue_package
LEMMA QueuePackageGood ==
  ASSUME NEW ph, NEW s, NEW lv, Good(s, lv, ph), NEW n \in Name
  PROVE  Good(QueuePackage(s, n), lv, ph)
<1> DEFINE t == [s EXCEPT !.clauses_added_for_package = @ \cup {n}]
<1>1. Shape(s)
  BY DEF Good, Core
<1>2. t = [s EXCEPT !.clauses_added_for_package = s.clauses_added_for_package \cup {n}]
  OBVIOUS
<1>3. QueuePackage(s, n) = s \/ QueuePackage(s, n) = Enqueue(t, Task("Candidates", None, n))
  BY DEF QueuePackage
<1> HIDE DEF t
<1>4. Shape(t) /\ SameCore(s, t) /\ SameQueues(s, t)
  BY <1>1, <1>2 DEF Shape, SameCore, SameLists, SameQueues
<1>5. Good(t, lv, ph)
  <2>1. Queues(t)
    BY <1>4 DEF Good, Queues, SameQueues
  <2> QED BY <1>4, <2>1, GoodFrame
<1>6. Good(Enqueue(t, Task("Candidates", None, n)), lv, ph)
  BY <1>5, TaskKinds, EnqueueGood
<1> QED BY <1>3, <1>6

\* The loops over solvables and packages.
SolvablesDef(s, q, c, d, f, S) == IF S = {} THEN s ELSE QueueSolvable(f[S \ {Max(S)}], q[Max(S)])
Solvables == INSTANCE Recursion WITH Def <- SolvablesDef, P <- Kept

\* The dependencies of several solvables are asked for.
LEMMA QueueAllGood ==
  ASSUME NEW ph, NEW s, NEW lv, Good(s, lv, ph), NEW q \in Seq(Asker)
  PROVE  Good(QueueAll(s, q), lv, ph)
<1>1. DOMAIN q = 1 .. Len(q) /\ Len(q) \in Nat /\ \A i \in 1 .. Len(q) : q[i] \in Asker
  OBVIOUS
<1>2. QueueAll(s, q) = Solvables!Loop(s, q, 0, 0, Len(q))
  BY <1>1 DEF QueueAll, FoldLeft, MapThenFoldSet, Solvables!Loop, Solvables!Fix, SolvablesDef
<1>3. Solvables!Rounds(s, q, 0, 0, Len(q))
  BY DEF Solvables!Rounds, SolvablesDef, Solvables!Max, Max
<1>4. Solvables!Keeps(s, q, 0, 0, Len(q), lv, ph)
  BY <1>1, QueueSolvableGood DEF Solvables!Keeps, Kept, SolvablesDef, Solvables!Max, Max
<1>5. Kept(lv, ph, 1 .. Len(q), Solvables!Loop(s, q, 0, 0, Len(q)))
  BY <1>1, <1>3, <1>4, Solvables!FoldInduction, Tr!LeastNatural DEF Solvables!WellOrdered
<1> QED BY <1>2, <1>5 DEF Kept

\* The loop over the packages of a requirement.
PackagesDef(s, q, c, d, f, S) == IF S = {} THEN s ELSE QueuePackage(f[S \ {Max(S)}], q[Max(S)])
Packages == INSTANCE Recursion WITH Def <- PackagesDef, P <- Kept

\* The candidates of several packages are asked for.
LEMMA QueuePackagesGood ==
  ASSUME NEW ph, NEW s, NEW lv, Good(s, lv, ph), NEW q \in Seq(Name)
  PROVE  Good(FoldLeft(QueuePackage, s, q), lv, ph)
<1>1. DOMAIN q = 1 .. Len(q) /\ Len(q) \in Nat /\ \A i \in 1 .. Len(q) : q[i] \in Name
  OBVIOUS
<1>2. FoldLeft(QueuePackage, s, q) = Packages!Loop(s, q, 0, 0, Len(q))
  BY <1>1 DEF FoldLeft, MapThenFoldSet, Packages!Loop, Packages!Fix, PackagesDef
<1>3. Packages!Rounds(s, q, 0, 0, Len(q))
  BY DEF Packages!Rounds, PackagesDef, Packages!Max, Max
<1>4. Packages!Keeps(s, q, 0, 0, Len(q), lv, ph)
  BY <1>1, QueuePackageGood DEF Packages!Keeps, Kept, PackagesDef, Packages!Max, Max
<1>5. Kept(lv, ph, 1 .. Len(q), Packages!Loop(s, q, 0, 0, Len(q)))
  BY <1>1, <1>3, <1>4, Packages!FoldInduction, Tr!LeastNatural DEF Packages!WellOrdered
<1> QED BY <1>2, <1>5 DEF Kept

\* A sequence with one element replaced.
LEMMA ReplaceElement ==
  ASSUME NEW T, NEW q \in Seq(T), NEW i \in DOMAIN q, NEW x \in T
  PROVE  /\ [q EXCEPT ![i] = x] \in Seq(T)
         /\ Len([q EXCEPT ![i] = x]) = Len(q) /\ DOMAIN [q EXCEPT ![i] = x] = DOMAIN q
  OBVIOUS

\* A requirement is asked for with the disjuncts that hold.
LEMMA QueueFiredGood ==
  ASSUME NEW ph, NEW s, NEW lv, Good(s, lv, ph), NEW x \in Asker, NEW req \in Requirement,
         NEW fired \in Seq(Seq(VersionSet))
  PROVE  Good(QueueFired(s, x, req, fired), lv, ph)
<1>1. VersionSetNames(req) \in Seq(Name)
  BY AnswersTyped
<1>2. Good(FoldLeft(QueuePackage, s, VersionSetNames(req)), lv, ph)
  BY <1>1, QueuePackagesGood
<1>3. [Task("Requirement", x, req) EXCEPT !.fired = fired] \in TaskType
  BY TaskKinds
<1> QED BY <1>2, <1>3, EnqueueGood DEF QueueFired

\* The loop over the deferred requirements that have fired.
DeferredDef(s, q, c, d, f, S) ==
  IF S = {} THEN s ELSE QueueDeferredRequirement(f[S \ {Max(S)}], q[Max(S)])
DeferredLoop == INSTANCE Recursion WITH Def <- DeferredDef, P <- Kept

\* The deferred requirements that were drained are asked for.
LEMMA QueueDeferredGood ==
  ASSUME NEW ph, NEW s, NEW lv, Good(s, lv, ph), NEW q \in Seq(EntryType)
  PROVE  Good(FoldLeft(QueueDeferredRequirement, s, q), lv, ph)
<1>1. DOMAIN q = 1 .. Len(q) /\ Len(q) \in Nat /\ \A i \in 1 .. Len(q) : q[i] \in EntryType
  OBVIOUS
<1>2. FoldLeft(QueueDeferredRequirement, s, q) = DeferredLoop!Loop(s, q, 0, 0, Len(q))
  BY <1>1 DEF FoldLeft, MapThenFoldSet, DeferredLoop!Loop, DeferredLoop!Fix, DeferredDef
<1>3. DeferredLoop!Rounds(s, q, 0, 0, Len(q))
  BY DEF DeferredLoop!Rounds, DeferredDef, DeferredLoop!Max, Max
<1>4. \A t : \A e \in EntryType : Good(t, lv, ph) => Good(QueueDeferredRequirement(t, e), lv, ph)
  <2> SUFFICES ASSUME NEW t, NEW e \in EntryType, Good(t, lv, ph)
               PROVE  Good(QueueDeferredRequirement(t, e), lv, ph)
    OBVIOUS
  <2>1. e.who \in Asker /\ e.requirement \in Requirement /\ e.disjunct \in Seq(VersionSet)
    BY DEF EntryType
  <2>2. <<e.disjunct>> \in Seq(Seq(VersionSet))
    BY <2>1
  <2> QED BY <2>1, <2>2, QueueFiredGood DEF QueueDeferredRequirement
<1>5. DeferredLoop!Keeps(s, q, 0, 0, Len(q), lv, ph)
  BY <1>1, <1>4 DEF DeferredLoop!Keeps, Kept, DeferredDef, DeferredLoop!Max, Max
<1>6. Kept(lv, ph, 1 .. Len(q), DeferredLoop!Loop(s, q, 0, 0, Len(q)))
  BY <1>1, <1>3, <1>5, DeferredLoop!FoldInduction, Tr!LeastNatural DEF DeferredLoop!WellOrdered
<1> QED BY <1>2, <1>6 DEF Kept

----------------------------------------------------------------------------
(* on_dependencies_available                                                *)

\* A solvable whose dependencies are unknown is excluded by an assertion.
LEMMA ExclusionGood ==
  ASSUME NEW ph, NEW s, NEW lv, Good(s, lv, ph), NEW x \in Solvable
  PROVE  Good(AddExclusionClause(s, x), lv, ph)
<1> DEFINE v == VarOf(x)
           lits == <<Neg(v)>>
           added == AddClause(s, "Excluded", lits, << >>)
           asserted == [added EXCEPT !.negative_assertions = Append(@, <<v, NewClause(s)>>)]
<1>1. v \in Variable /\ Neg(v) \in Literal /\ v \in OtherVar
  BY OtherVars, LiteralParts
<1>e. AddExclusionClause(s, x) =
        IF IsTrue(Map(s), v) THEN Report(asserted, NewClause(s)) ELSE asserted
  BY DEF AddExclusionClause
<1>d. IsTrue(Map(s), v) => ph # "root"
  BY <1>1, OtherDecided
<1>2. Good(added, lv, ph) /\ NewClause(s) \in DOMAIN added.clauses /\ added.clauses[NewClause(s)].lits = lits
  <2>1. "Excluded" \in ClauseKind \ {"Learnt", "Requires"}
    BY DEF ClauseKind
  <2> HIDE DEF v
  <2> QED BY <1>1, <2>1, AddUnit
<1> HIDE DEF added
<1>3. Good(asserted, lv, ph) /\ asserted.clauses = added.clauses
  <2> HIDE DEF v
  <2> QED BY <1>1, <1>2, GoodAssertion
<1> HIDE DEF asserted
<1>4. ph # "root" => Good(Report(asserted, NewClause(s)), lv, ph)
  BY <1>2, <1>3, GoodReport
<1> QED BY <1>d, <1>e, <1>3, <1>4

\* The loop over the excluded candidates of a package.
ExclusionsDef(s, q, c, d, f, S) ==
  IF S = {} THEN s ELSE AddExclusionClause(f[S \ {Max(S)}], q[Max(S)])
Exclusions == INSTANCE Recursion WITH Def <- ExclusionsDef, P <- Kept

\* All excluded candidates of a package get their assertion.
LEMMA ExclusionsGood ==
  ASSUME NEW ph, NEW s, NEW lv, Good(s, lv, ph), NEW q \in Seq(Solvable)
  PROVE  Good(FoldLeft(AddExclusionClause, s, q), lv, ph)
<1>1. DOMAIN q = 1 .. Len(q) /\ Len(q) \in Nat /\ \A i \in 1 .. Len(q) : q[i] \in Solvable
  OBVIOUS
<1>2. FoldLeft(AddExclusionClause, s, q) = Exclusions!Loop(s, q, 0, 0, Len(q))
  BY <1>1 DEF FoldLeft, MapThenFoldSet, Exclusions!Loop, Exclusions!Fix, ExclusionsDef
<1>3. Exclusions!Rounds(s, q, 0, 0, Len(q))
  BY DEF Exclusions!Rounds, ExclusionsDef, Exclusions!Max, Max
<1>4. Exclusions!Keeps(s, q, 0, 0, Len(q), lv, ph)
  BY <1>1, ExclusionGood DEF Exclusions!Keeps, Kept, ExclusionsDef, Exclusions!Max, Max
<1>5. Kept(lv, ph, 1 .. Len(q), Exclusions!Loop(s, q, 0, 0, Len(q)))
  BY <1>1, <1>3, <1>4, Exclusions!FoldInduction, Tr!LeastNatural DEF Exclusions!WellOrdered
<1> QED BY <1>2, <1>5 DEF Kept

\* on_dependencies_available
LEMMA OnDependenciesGood ==
  ASSUME NEW ph, NEW s, NEW lv, Good(s, lv, ph), NEW p \in Problem, NEW x \in Asker
  PROVE  Good(OnDependencies(p, s, x), lv, ph)
<1> DEFINE deps == p.deps[x]
           direct == Keep(deps.requirements,
                          {r \in ToSet(deps.requirements) : r.condition = NoCondition})
           wanted == [i \in DOMAIN direct |-> VersionSetNames(direct[i].requirement)]
           bounded == [i \in DOMAIN deps.constrains |-> VsName[deps.constrains[i]]]
           names == FlattenSeq(wanted) \o bounded
           asks == [i \in DOMAIN deps.requirements |-> RequirementTask(x, deps.requirements[i])]
           checks == [i \in DOMAIN deps.constrains |-> Task("Constraint", x, deps.constrains[i])]
           queued == FoldLeft(QueuePackage, s, names)
           t == [queued EXCEPT !.tasks = @ \o (asks \o checks)]
<1>e. OnDependencies(p, s, x) = IF ~deps.known THEN AddExclusionClause(s, x) ELSE t
  BY DEF OnDependencies
<1>k. ~deps.known => x \in Solvable
  <2>1. p.deps[Root].known
    BY DEF Problem
  <2> QED BY <2>1 DEF Asker
<1>1. deps.requirements \in Seq(ConditionalRequirement) /\ deps.constrains \in Seq(VersionSet)
  <2>1. p.deps \in [Asker -> Dependencies]
    BY DEF Problem, Asker
  <2>2. deps \in Dependencies
    BY <2>1
  <2> HIDE DEF deps
  <2> QED BY <2>2 DEF Dependencies
<1>r. \A r \in ConditionalRequirement : r.requirement \in Requirement
  BY DEF ConditionalRequirement
<1> HIDE DEF deps
<1>2. direct \in Seq(ConditionalRequirement)
  BY <1>1, KeepElements
<1> HIDE DEF direct
<1>3. wanted \in Seq(Seq(Name))
  <2>1. Len(direct) \in Nat /\ DOMAIN direct = 1 .. Len(direct)
        /\ \A i \in 1 .. Len(direct) : direct[i] \in ConditionalRequirement
    BY <1>2
  <2>2. \A i \in 1 .. Len(direct) : VersionSetNames(direct[i].requirement) \in Seq(Name)
    BY <1>r, <2>1, AnswersTyped
  <2> QED BY <2>1, <2>2
<1>4. bounded \in Seq(Name) /\ checks \in Seq(TaskType)
  <2> DEFINE q == deps.constrains
  <2>1. Len(q) \in Nat /\ DOMAIN q = 1 .. Len(q) /\ \A i \in 1 .. Len(q) : q[i] \in VersionSet
    BY <1>1
  <2>2. \A i \in 1 .. Len(q) : VsName[q[i]] \in Name /\ Task("Constraint", x, q[i]) \in TaskType
    BY <2>1, AnswersTyped, TaskKinds
  <2> HIDE DEF q
  <2> QED BY <2>1, <2>2 DEF q
<1>5. asks \in Seq(TaskType)
  <2> DEFINE q == deps.requirements
  <2>1. Len(q) \in Nat /\ DOMAIN q = 1 .. Len(q) /\ \A i \in 1 .. Len(q) : q[i] \in ConditionalRequirement
    BY <1>1
  <2>2. \A i \in 1 .. Len(q) : RequirementTask(x, q[i]) \in TaskType
    BY <1>r, <2>1, TaskKinds DEF RequirementTask
  <2> HIDE DEF q
  <2> QED BY <2>1, <2>2 DEF q
<1>6. names \in Seq(Name)
  <2>1. FlattenSeq(wanted) \in Seq(Name)
    BY <1>3, FlattenElements
  <2> HIDE DEF wanted, bounded
  <2> QED BY <1>4, <2>1, ConcatSet
<1>7. asks \o checks \in Seq(TaskType)
  <2> HIDE DEF asks, checks
  <2> QED BY <1>4, <1>5, ConcatSet
<1> HIDE DEF names, asks, checks
<1>8. Good(queued, lv, ph)
  BY <1>6, QueuePackagesGood
<1> HIDE DEF queued
<1>9. Good(t, lv, ph)
  <2>1. Shape(queued) /\ queued.tasks \in Seq(TaskType)
    BY <1>8 DEF Good, Core, Queues
  <2> DEFINE all == queued.tasks \o (asks \o checks)
  <2>2. all \in Seq(TaskType)
    BY <1>7, <2>1, ConcatSet
  <2>3. t = [queued EXCEPT !.tasks = all]
    OBVIOUS
  <2> HIDE DEF all, t
  <2>4. /\ Shape(t) /\ SameCore(queued, t) /\ t.tasks = all
        /\ t.gates = queued.gates /\ t.pending_forbid_clauses = queued.pending_forbid_clauses
        /\ t.at_most_one_trackers = queued.at_most_one_trackers
        /\ t.new_at_least_one_packages = queued.new_at_least_one_packages
        /\ t.deferred_requirements = queued.deferred_requirements
    BY <2>1, <2>3 DEF Shape, SameCore, SameLists
  <2> QED BY <1>8, <2>2, <2>4, GoodTasks
<1> QED BY <1>e, <1>k, <1>9, ExclusionGood

----------------------------------------------------------------------------
(* on_condition_data_available                                              *)

\* Only the deferred requirements change.
LEMMA GoodDeferred ==
  ASSUME NEW ph, NEW s, NEW lv, Good(s, lv, ph), NEW q \in Seq(DeferredType)
  PROVE  Good([s EXCEPT !.deferred_requirements = q], lv, ph)
<1> DEFINE t == [s EXCEPT !.deferred_requirements = q]
<1>1. Shape(s)
  BY DEF Good, Core
<1>2. /\ Shape(t) /\ SameCore(s, t) /\ t.deferred_requirements = q /\ t.tasks = s.tasks
      /\ t.gates = s.gates /\ t.pending_forbid_clauses = s.pending_forbid_clauses
      /\ t.at_most_one_trackers = s.at_most_one_trackers
      /\ t.new_at_least_one_packages = s.new_at_least_one_packages
  BY <1>1 DEF Shape, SameCore, SameLists
<1> HIDE DEF t
<1>3. Queues(t)
  BY <1>2 DEF Good, Queues
<1>4. Good(t, lv, ph)
  BY <1>2, <1>3, GoodFrame
<1> QED BY <1>4 DEF t

\* A requirement is put off until its condition holds.
LEMMA PushDeferredGood ==
  ASSUME NEW ph, NEW s, NEW lv, Good(s, lv, ph), NEW entry \in EntryType
  PROVE  Good(PushDeferred(s, entry), lv, ph)
<1> DEFINE q == s.deferred_requirements
           fresh == [condition |-> entry.condition, entries |-> <<entry>>]
           at == CHOOSE i \in KeyOf(s, entry.condition) : TRUE
           grown == [q[at] EXCEPT !.entries = Append(q[at].entries, entry)]
<1>1. q \in Seq(DeferredType) /\ Shape(s)
  BY DEF Good, Core, Queues
<1>2. CASE KeyOf(s, entry.condition) = {}
  <2>1. fresh \in DeferredType
    <3>1. <<entry>> \in Seq(EntryType) /\ entry.condition \in ConditionId
      BY DEF EntryType
    <3> QED BY <3>1 DEF DeferredType
  <2>2. Append(q, fresh) \in Seq(DeferredType)
    <3> HIDE DEF fresh, q
    <3> QED BY <1>1, <2>1, AppendSet
  <2> DEFINE r == Append(q, fresh)
  <2>3. PushDeferred(s, entry) = [s EXCEPT !.deferred_requirements = r]
    BY <1>2 DEF PushDeferred
  <2> HIDE DEF r
  <2>4. Good([s EXCEPT !.deferred_requirements = r], lv, ph)
    <3>1. r \in Seq(DeferredType)
      BY <2>2 DEF r
    <3> QED BY <3>1, GoodDeferred
  <2> QED BY <2>3, <2>4
<1>3. CASE KeyOf(s, entry.condition) # {}
  <2>1. at \in DOMAIN q
    BY <1>3 DEF KeyOf
  <2>2. PushDeferred(s, entry) = [s EXCEPT !.deferred_requirements = [q EXCEPT ![at] = grown]]
    BY <1>3 DEF PushDeferred
  <2> HIDE DEF at, q
  <2>3. q[at] \in DeferredType
    BY <1>1, <2>1
  <2>4. grown \in DeferredType
    <3>1. q[at].entries \in Seq(EntryType)
      BY <2>3 DEF DeferredType
    <3>2. Append(q[at].entries, entry) \in Seq(EntryType)
      BY <3>1, AppendSet
    <3> QED BY <2>3, <3>2 DEF DeferredType
  <2> HIDE DEF grown
  <2> DEFINE r == [q EXCEPT ![at] = grown]
  <2>5. r \in Seq(DeferredType)
    BY <1>1, <2>1, <2>4, ReplaceElement
  <2>6. PushDeferred(s, entry) = [s EXCEPT !.deferred_requirements = r]
    BY <2>2
  <2> HIDE DEF r
  <2>7. Good([s EXCEPT !.deferred_requirements = r], lv, ph)
    BY <2>5, GoodDeferred
  <2> QED BY <2>6, <2>7
<1> QED BY <1>2, <1>3

\* The loop over the disjuncts of a condition.
DeferDef(s, disjuncts, x, r, f, S) ==
  IF S = {} THEN s
  ELSE IF HoldsNow(s, disjuncts[Max(S)]) THEN f[S \ {Max(S)}]
       ELSE PushDeferred(f[S \ {Max(S)}], [who |-> x, requirement |-> r.requirement,
                                           condition |-> r.condition, disjunct |-> disjuncts[Max(S)]])
Defers == INSTANCE Recursion WITH Def <- DeferDef, P <- Kept

\* on_condition_data_available
LEMMA OnConditionDataGood ==
  ASSUME NEW ph, NEW s, NEW lv, Good(s, lv, ph), NEW x \in Asker, NEW r \in ConditionalRequirement,
         r.condition # NoCondition
  PROVE  Good(OnConditionData(s, x, r), lv, ph)
<1> DEFINE q == ConvertConditionsToDnf(r.condition)
           fired == Keep(q, {d \in ToSet(q) : HoldsNow(s, d)})
           deferred == Defers!Loop(s, q, x, r, Len(q))
<1>1. r.condition \in ConditionId /\ r.requirement \in Requirement
  BY DEF ConditionalRequirement
<1>2. q \in Seq(Seq(VersionSet))
  BY <1>1, DnfIsExact
<1>3. DOMAIN q = 1 .. Len(q) /\ Len(q) \in Nat /\ \A i \in 1 .. Len(q) : q[i] \in Seq(VersionSet)
  <2> HIDE DEF q
  <2> QED BY <1>2
<1>4. OnConditionData(s, x, r) = IF fired = << >> THEN deferred
                                 ELSE QueueFired(deferred, x, r.requirement, fired)
  BY <1>3 DEF OnConditionData, FoldLeft, MapThenFoldSet, Defers!Loop, Defers!Fix, DeferDef
<1> HIDE DEF q
<1>5. Defers!Rounds(s, q, x, r, Len(q))
  BY DEF Defers!Rounds, DeferDef, Defers!Max, Max
<1>6. Defers!Keeps(s, q, x, r, Len(q), lv, ph)
  <2>1. \A i \in 1 .. Len(q) : [who |-> x, requirement |-> r.requirement,
                                condition |-> r.condition, disjunct |-> q[i]] \in EntryType
    BY <1>1, <1>3 DEF EntryType
  <2> QED BY <2>1, PushDeferredGood DEF Defers!Keeps, Kept, DeferDef, Defers!Max, Max
<1>7. Kept(lv, ph, 1 .. Len(q), Defers!Loop(s, q, x, r, Len(q)))
  BY <1>3, <1>5, <1>6, Defers!FoldInduction, Tr!LeastNatural DEF Defers!WellOrdered
<1>8. Good(deferred, lv, ph)
  BY <1>7 DEF Kept
<1>9. fired \in Seq(Seq(VersionSet))
  BY <1>2, KeepElements
<1> HIDE DEF deferred, fired
<1> QED BY <1>1, <1>4, <1>8, <1>9, QueueFiredGood

----------------------------------------------------------------------------
(* on_candidates_available                                                  *)

\* The clause that forbids a candidate that is not the locked one.
Locking(t, other) ==
  AddClause(t, "Lock", <<Neg(SolvableVar(other)), Neg(RootVar)>>,
            <<Neg(RootVar), Neg(SolvableVar(other))>>)
LockDef(s, q, locked, d, f, S) ==
  IF S = {} THEN s
  ELSE IF q[Max(S)] = locked THEN f[S \ {Max(S)}] ELSE Locking(f[S \ {Max(S)}], q[Max(S)])
Locks == INSTANCE Recursion WITH Def <- LockDef, P <- Kept

\* All candidates but the locked one get a lock clause.
LEMMA LockedClausesGood ==
  ASSUME NEW ph, NEW s, NEW lv, Good(s, lv, ph), NEW locked, NEW q \in Seq(Solvable)
  PROVE  Good(AddLockedClauses(s, locked, q), lv, ph)
<1>1. DOMAIN q = 1 .. Len(q) /\ Len(q) \in Nat /\ \A i \in 1 .. Len(q) : q[i] \in Solvable
  OBVIOUS
<1>2. AddLockedClauses(s, locked, q) = Locks!Loop(s, q, locked, 0, Len(q))
  BY <1>1 DEF AddLockedClauses, FoldLeft, MapThenFoldSet, Locks!Loop, Locks!Fix, LockDef, Locking
<1>3. Locks!Rounds(s, q, locked, 0, Len(q))
  BY DEF Locks!Rounds, LockDef, Locks!Max, Max
<1>4. \A t : \A c \in Solvable : Good(t, lv, ph) => Good(Locking(t, c), lv, ph)
  <2> SUFFICES ASSUME NEW t, NEW c \in Solvable, Good(t, lv, ph) PROVE Good(Locking(t, c), lv, ph)
    OBVIOUS
  <2> DEFINE a == Neg(SolvableVar(c))
             b == Neg(RootVar)
             lits == <<a, b>>
             watched == <<b, a>>
  <2>1. a \in Literal /\ b \in Literal
    BY Variables, LiteralParts
  <2> HIDE DEF a, b
  <2>2. lits \in Seq(Literal) /\ watched \in Seq(Literal) /\ ToSet(lits) = {a, b}
        /\ watched[1] = b /\ watched[2] = a /\ Len(watched) = 2
    BY <2>1, ShortSequences
  <2> HIDE DEF lits, watched
  <2>3. "Lock" \in ClauseKind \ {"Learnt", "Requires"}
    BY DEF ClauseKind
  <2>4. ToSet(lits) = {watched[1], watched[2]}
    BY <2>2
  <2>5. Good(AddClause(t, "Lock", lits, watched), lv, ph)
    BY <2>2, <2>3, <2>4, AddGood
  <2> QED BY <2>5 DEF Locking, lits, watched, a, b
<1>5. Locks!Keeps(s, q, locked, 0, Len(q), lv, ph)
  BY <1>1, <1>4 DEF Locks!Keeps, Kept, LockDef, Locks!Max, Max
<1>6. Kept(lv, ph, 1 .. Len(q), Locks!Loop(s, q, locked, 0, Len(q)))
  BY <1>1, <1>3, <1>5, Locks!FoldInduction, Tr!LeastNatural DEF Locks!WellOrdered
<1> QED BY <1>2, <1>6 DEF Kept

\* on_candidates_available
LEMMA OnCandidatesGood ==
  ASSUME NEW ph, NEW s, NEW lv, Good(s, lv, ph), NEW p \in Problem, NEW n \in Name
  PROVE  Good(OnCandidates(p, s, n), lv, ph)
<1> DEFINE noted == IF n \in p.multiple
                    THEN [s EXCEPT !.allow_multiple_names = @ \cup {n}] ELSE s
           locked == IF p.locked[n] = None THEN noted
                     ELSE AddLockedClauses(noted, p.locked[n], Candidates[n])
<1>1. Good(noted, lv, ph)
  <2> DEFINE t == [s EXCEPT !.allow_multiple_names = @ \cup {n}]
  <2>1. Shape(s)
    BY DEF Good, Core
  <2>2. t = [s EXCEPT !.allow_multiple_names = s.allow_multiple_names \cup {n}]
    OBVIOUS
  <2>3. noted = t \/ noted = s
    OBVIOUS
  <2> HIDE DEF t, noted
  <2>4. Shape(t) /\ SameCore(s, t) /\ SameQueues(s, t)
    BY <2>1, <2>2 DEF Shape, SameCore, SameLists, SameQueues
  <2>5. Queues(t)
    BY <2>4 DEF Good, Queues, SameQueues
  <2> QED BY <2>3, <2>4, <2>5, GoodFrame
<1>e. OnCandidates(p, s, n) = FoldLeft(AddExclusionClause, locked, p.excluded[n])
  BY DEF OnCandidates
<1> HIDE DEF noted
<1>2. Good(locked, lv, ph)
  <2>1. Candidates[n] \in Seq(Solvable)
    BY AnswersTyped
  <2> QED BY <1>1, <2>1, LockedClausesGood
<1> HIDE DEF locked
<1>3. p.excluded[n] \in Seq(Solvable)
  <2>1. p.excluded \in [Name -> Seq(Solvable)]
    BY DEF Problem
  <2> QED BY <2>1
<1>4. Good(FoldLeft(AddExclusionClause, locked, p.excluded[n]), lv, ph)
  BY <1>2, <1>3, ExclusionsGood
<1> QED BY <1>e, <1>4, Zenon

----------------------------------------------------------------------------
(* register_forbid_target                                                   *)

\* Only the variables waiting for at-most-one clauses change.
LEMMA GoodPending ==
  ASSUME NEW ph, NEW s, NEW lv, Good(s, lv, ph), NEW q \in Seq(PendingType)
  PROVE  Good([s EXCEPT !.pending_forbid_clauses = q], lv, ph)
<1> DEFINE t == [s EXCEPT !.pending_forbid_clauses = q]
<1>1. Shape(s)
  BY DEF Good, Core
<1>2. /\ Shape(t) /\ SameCore(s, t) /\ t.pending_forbid_clauses = q /\ t.tasks = s.tasks
      /\ t.gates = s.gates /\ t.deferred_requirements = s.deferred_requirements
      /\ t.at_most_one_trackers = s.at_most_one_trackers
      /\ t.new_at_least_one_packages = s.new_at_least_one_packages
  BY <1>1 DEF Shape, SameCore, SameLists
<1> HIDE DEF t
<1>3. Queues(t)
  BY <1>2 DEF Good, Queues
<1>4. Good(t, lv, ph)
  BY <1>2, <1>3, GoodFrame
<1> QED BY <1>4 DEF t

\* The entries of pending_forbid_clauses.
LEMMA PendingPairs ==
  /\ \A n \in Name : \A q \in Seq(CandidateVars(n)) : <<n, q>> \in PendingType
  /\ \A e \in PendingType : /\ e[1] \in Name /\ e[2] \in Seq(CandidateVars(e[1]))
                            /\ e = <<e[1], e[2]>>
<1>1. \A n \in Name : \A q \in Seq(CandidateVars(n)) : <<n, q>> \in PendingType
  <2> SUFFICES ASSUME NEW n \in Name, NEW q \in Seq(CandidateVars(n)) PROVE <<n, q>> \in PendingType
    OBVIOUS
  <2>1. <<n, q>> \in {<<n, vs>> : vs \in Seq(CandidateVars(n))}
    OBVIOUS
  <2> QED BY <2>1, Zenon DEF PendingType
<1>2. ASSUME NEW e \in PendingType
      PROVE  e[1] \in Name /\ e[2] \in Seq(CandidateVars(e[1])) /\ e = <<e[1], e[2]>>
  <2>1. PICK n \in Name : e \in {<<n, vs>> : vs \in Seq(CandidateVars(n))}
    BY Zenon DEF PendingType
  <2>2. PICK vs \in Seq(CandidateVars(n)) : e = <<n, vs>>
    BY <2>1
  <2>3. e[1] = n /\ e[2] = vs
    BY <2>2
  <2> QED BY <2>2, <2>3
<1> QED BY <1>1, <1>2

\* A candidate is put down for the at-most-one clauses of its package.
LEMMA RegisterGood ==
  ASSUME NEW ph, NEW s, NEW lv, Good(s, lv, ph), NEW c \in Solvable
  PROVE  Good(RegisterForbidTarget(s, c), lv, ph)
<1> DEFINE n == NameOf(c)
           v == SolvableVar(c)
           q == s.pending_forbid_clauses
           at == CHOOSE i \in DOMAIN q : q[i][1] = n
           r1 == [q EXCEPT ![at] = [q[at] EXCEPT ![2] = Append(q[at][2], v)]]
           r2 == Append(q, <<n, <<v>> >>)
           there == \E i \in DOMAIN q : q[i][1] = n
<1>1. q \in Seq(PendingType)
  BY DEF Good, Queues
<1>2. n \in Name /\ v \in CandidateVars(n)
  BY AnswersTyped
<1>3. \/ RegisterForbidTarget(s, c) = s
      \/ there /\ RegisterForbidTarget(s, c) = [s EXCEPT !.pending_forbid_clauses = r1]
      \/ RegisterForbidTarget(s, c) = [s EXCEPT !.pending_forbid_clauses = r2]
  BY DEF RegisterForbidTarget
<1>4. there => at \in DOMAIN q /\ q[at][1] = n
  OBVIOUS
<1> HIDE DEF n, v, q, at
<1>5. there => r1 \in Seq(PendingType)
  <2> SUFFICES ASSUME there PROVE r1 \in Seq(PendingType)
    OBVIOUS
  <2>1. q[at] \in PendingType /\ at \in DOMAIN q
    BY <1>1, <1>4
  <2>2. q[at][1] = n /\ q[at][2] \in Seq(CandidateVars(n)) /\ q[at] = <<n, q[at][2]>>
    BY <1>4, <2>1, PendingPairs
  <2> DEFINE w == Append(q[at][2], v)
  <2>3. w \in Seq(CandidateVars(n))
    BY <1>2, <2>2, AppendSet
  <2> HIDE DEF w
  <2>4. [q[at] EXCEPT ![2] = w] = <<n, w>>
    <3> DEFINE e == q[at]
    <3>1. e = <<n, e[2]>>
      BY <2>2
    <3> HIDE DEF e
    <3>2. [e EXCEPT ![2] = w] = <<n, w>>
      BY <3>1
    <3> QED BY <3>2 DEF e
  <2>5. <<n, w>> \in PendingType
    BY <1>2, <2>3, PendingPairs
  <2>6. [q EXCEPT ![at] = <<n, w>>] \in Seq(PendingType)
    BY <1>1, <2>1, <2>5, ReplaceElement
  <2> QED BY <2>4, <2>6 DEF w
<1>6. r2 \in Seq(PendingType)
  <2>1. <<v>> \in Seq(CandidateVars(n))
    BY <1>2
  <2>2. <<n, <<v>> >> \in PendingType
    BY <1>2, <2>1, PendingPairs
  <2> QED BY <1>1, <2>2, AppendSet
<1> HIDE DEF r1, r2, there
<1>7. there => Good([s EXCEPT !.pending_forbid_clauses = r1], lv, ph)
  BY <1>5, GoodPending
<1>8. Good([s EXCEPT !.pending_forbid_clauses = r2], lv, ph)
  BY <1>6, GoodPending
<1> QED BY <1>3, <1>7, <1>8

\* The loop over candidates.
ForbidTargetsDef(s, q, c, d, f, S) ==
  IF S = {} THEN s ELSE RegisterForbidTarget(f[S \ {Max(S)}], q[Max(S)])
ForbidTargets == INSTANCE Recursion WITH Def <- ForbidTargetsDef, P <- Kept

\* All candidates of a requirement are put down.
LEMMA TargetsGood ==
  ASSUME NEW ph, NEW s, NEW lv, Good(s, lv, ph), NEW q \in Seq(Solvable)
  PROVE  Good(FoldLeft(RegisterForbidTarget, s, q), lv, ph)
<1>1. DOMAIN q = 1 .. Len(q) /\ Len(q) \in Nat /\ \A i \in 1 .. Len(q) : q[i] \in Solvable
  OBVIOUS
<1>2. FoldLeft(RegisterForbidTarget, s, q) = ForbidTargets!Loop(s, q, 0, 0, Len(q))
  BY <1>1 DEF FoldLeft, MapThenFoldSet, ForbidTargets!Loop, ForbidTargets!Fix, ForbidTargetsDef
<1>3. ForbidTargets!Rounds(s, q, 0, 0, Len(q))
  BY DEF ForbidTargets!Rounds, ForbidTargetsDef, ForbidTargets!Max, Max
<1>4. ForbidTargets!Keeps(s, q, 0, 0, Len(q), lv, ph)
  BY <1>1, RegisterGood DEF ForbidTargets!Keeps, Kept, ForbidTargetsDef, ForbidTargets!Max, Max
<1>5. Kept(lv, ph, 1 .. Len(q), ForbidTargets!Loop(s, q, 0, 0, Len(q)))
  BY <1>1, <1>3, <1>4, ForbidTargets!FoldInduction, Tr!LeastNatural DEF ForbidTargets!WellOrdered
<1> QED BY <1>2, <1>5 DEF Kept

\* The loop over the version sets of a disjunct.
Registering(t, vs) ==
  IF NonMatching(vs) # << >> THEN FoldLeft(RegisterForbidTarget, t, NonMatching(vs))
  ELSE IF VsName[vs] \in t.at_least_one_tracker \cup ToSet(t.new_at_least_one_packages) THEN t
  ELSE [t EXCEPT !.new_at_least_one_packages = Append(@, VsName[vs])]
RegisterDef(s, q, c, d, f, S) == IF S = {} THEN s ELSE Registering(f[S \ {Max(S)}], q[Max(S)])
Registers == INSTANCE Recursion WITH Def <- RegisterDef, P <- Kept

\* The candidates that a condition names are put down.
LEMMA RegisterConditionGood ==
  ASSUME NEW ph, NEW s, NEW lv, Good(s, lv, ph), NEW q \in Seq(VersionSet)
  PROVE  Good(RegisterCondition(s, q), lv, ph)
<1>1. DOMAIN q = 1 .. Len(q) /\ Len(q) \in Nat /\ \A i \in 1 .. Len(q) : q[i] \in VersionSet
  OBVIOUS
<1>2. RegisterCondition(s, q) = Registers!Loop(s, q, 0, 0, Len(q))
  BY <1>1 DEF RegisterCondition, Registering, FoldLeft, MapThenFoldSet, Registers!Loop, Registers!Fix, RegisterDef
<1>3. Registers!Rounds(s, q, 0, 0, Len(q))
  BY DEF Registers!Rounds, RegisterDef, Registers!Max, Max
<1>4. \A t : \A vs \in VersionSet : Good(t, lv, ph) => Good(Registering(t, vs), lv, ph)
  <2> SUFFICES ASSUME NEW t, NEW vs \in VersionSet, Good(t, lv, ph) PROVE Good(Registering(t, vs), lv, ph)
    OBVIOUS
  <2> DEFINE r == Append(t.new_at_least_one_packages, VsName[vs])
             u == [t EXCEPT !.new_at_least_one_packages = r]
  <2>1. Registering(t, vs) \in {FoldLeft(RegisterForbidTarget, t, NonMatching(vs)), t, u}
    BY DEF Registering
  <2>2. VsName[vs] \in Name /\ NonMatching(vs) \in Seq(Solvable)
    BY AnswersTyped
  <2>3. Good(FoldLeft(RegisterForbidTarget, t, NonMatching(vs)), lv, ph)
    BY <2>2, TargetsGood
  <2>4. Shape(t) /\ t.new_at_least_one_packages \in Seq(Name)
    BY DEF Good, Core, Queues
  <2>5. r \in Seq(Name)
    BY <2>2, <2>4, AppendSet
  <2> HIDE DEF r
  <2>6. /\ Shape(u) /\ SameCore(t, u) /\ u.new_at_least_one_packages = r /\ u.tasks = t.tasks
        /\ u.gates = t.gates /\ u.deferred_requirements = t.deferred_requirements
        /\ u.at_most_one_trackers = t.at_most_one_trackers
        /\ u.pending_forbid_clauses = t.pending_forbid_clauses
    BY <2>4 DEF Shape, SameCore, SameLists
  <2> HIDE DEF u
  <2>7. Queues(u)
    BY <2>5, <2>6 DEF Good, Queues
  <2>8. Good(u, lv, ph)
    BY <2>6, <2>7, GoodFrame
  <2> QED BY <2>1, <2>3, <2>8
<1>5. Registers!Keeps(s, q, 0, 0, Len(q), lv, ph)
  BY <1>1, <1>4 DEF Registers!Keeps, Kept, RegisterDef, Registers!Max, Max
<1>6. Kept(lv, ph, 1 .. Len(q), Registers!Loop(s, q, 0, 0, Len(q)))
  BY <1>1, <1>3, <1>5, Registers!FoldInduction, Tr!LeastNatural DEF Registers!WellOrdered
<1> QED BY <1>2, <1>6 DEF Kept

----------------------------------------------------------------------------
(* on_requirement_candidates_available                                      *)

\* The decision that satisfies a literal.
LEMMA Satisfying ==
  ASSUME NEW l \in Literal, NEW c \in Nat
  PROVE  /\ Satisfy(l, c) \in Decision /\ Own(Satisfy(l, c)) = l /\ Satisfy(l, c).derived_from = c
         /\ Satisfy(l, c).variable = l.variable
<1>1. l.variable \in Variable /\ l.negate \in BOOLEAN /\ l = [variable |-> l.variable, negate |-> l.negate]
  BY LiteralParts
<1>2. Satisfy(l, c) = [variable |-> l.variable, value |-> ~l.negate, derived_from |-> c]
  BY DEF Satisfy
<1>3. Satisfy(l, c) \in Decision
  BY <1>1, <1>2 DEF Decision
<1> DEFINE d == Satisfy(l, c)
<1>4. d.variable = l.variable /\ d.value = ~l.negate /\ d.derived_from = c
  BY <1>2
<1> HIDE DEF d
<1>5. Own(d) \in Literal /\ Own(d).variable = d.variable /\ Own(d).negate = ~d.value
  BY <1>3, LiteralParts DEF d
<1>6. Own(d) = l
  BY <1>1, <1>4, <1>5, LiteralParts
<1> QED BY <1>3, <1>4, <1>6 DEF d

\* When a literal is false.
LEMMA FalseLiterals ==
  ASSUME NEW map, NEW v
  PROVE  /\ IsTrue(map, v) => LitFalse(map, Neg(v))
         /\ IsFalse(map, v) => LitFalse(map, Pos(v))
  BY DEF LitFalse, Neg, Pos

\* A literal is assigned because of a clause all of whose other literals are false.
LEMMA AssignGood ==
  ASSUME NEW ph, NEW s, NEW lv \in Nat \ {0}, Good(s, lv, ph), NEW c \in DOMAIN s.clauses, NEW l \in Literal,
         l \in ToSet(s.clauses[c].lits), ph # "root",
         \A m \in ToSet(s.clauses[c].lits) : m = l \/ LitFalse(Map(s), m)
  PROVE  /\ Good(Assign(s, Satisfy(l, c), lv), lv, ph) /\ Assign(s, Satisfy(l, c), lv).clauses = s.clauses
         /\ SameQueues(s, Assign(s, Satisfy(l, c), lv)) /\ SameLists(s, Assign(s, Satisfy(l, c), lv))
<1> DEFINE d == Satisfy(l, c)
<1>1. s.clauses \in Seq(ClauseType)
  BY DEF Good, Core, ClausesOK
<1>2. c \in Nat /\ s.clauses[c] \in ClauseType
  BY <1>1
<1>3. s.clauses[c].lits \in Seq(Literal)
  BY <1>2 DEF ClauseType
<1>4. ToSet(s.clauses[c].lits) \subseteq Literal
  BY <1>3, ToSetType
<1>5. d \in Decision /\ Own(d) = l /\ d.derived_from = c
  BY <1>2, Satisfying
<1> HIDE DEF d
<1>6. Grounded(s.decision_tracker, s.clauses, d)
  <2>1. \A m \in ToSet(s.clauses[c].lits) : m = l \/ (m \in Literal /\ LitFalse(s.decision_tracker.map, m))
    BY <1>4 DEF Map
  <2> QED BY <1>5, <2>1 DEF Grounded
<1>7. lv \in {lv - 1, lv}
  OBVIOUS
<1>8. /\ Good(Assign(s, d, lv), lv, ph) /\ Assign(s, d, lv).clauses = s.clauses
      /\ SameQueues(s, Assign(s, d, lv)) /\ SameLists(s, Assign(s, d, lv))
  BY <1>5, <1>6, <1>7, GoodAssign
<1> QED BY <1>8 DEF d

\* The parents of requires clauses are no at-least-one variables.
ParentVar == {v \in Variable : v.origin # "AtLeastOne"}

\* Askers and gates are such parents, whose literals are in no condition.
LEMMA Parents ==
  /\ \A x \in Asker : VarOf(x) \in ParentVar
  /\ \A r \in Requirement : GateVar(r) \in ParentVar
  /\ \A v \in ParentVar : Neg(v) \in Literal /\ Neg(v) \notin ConditionLit
<1>1. \A x \in Asker : VarOf(x).origin # "AtLeastOne"
  BY DEF VarOf, RootVar, SolvableVar, Var
<1>2. \A r : GateVar(r).origin # "AtLeastOne"
  BY DEF GateVar, Var
<1>3. ASSUME NEW v \in ParentVar PROVE Neg(v) \in Literal /\ Neg(v) \notin ConditionLit
  <2>1. v \in Variable /\ v.origin # "AtLeastOne"
    BY DEF ParentVar
  <2>2. \A c \in Solvable : Neg(v) # Pos(SolvableVar(c))
    BY DEF Neg, Pos
  <2>3. \A n \in Name : Neg(v) # Neg(AtLeastOneVar(n))
    <3>1. \A n : AtLeastOneVar(n).origin = "AtLeastOne"
      BY DEF AtLeastOneVar, Var
    <3>2. \A n : Neg(AtLeastOneVar(n)).variable = AtLeastOneVar(n) /\ Neg(v).variable = v
      BY LiteralParts
    <3> QED BY <2>1, <3>1, <3>2
  <2> QED BY <2>1, <2>2, <2>3, LiteralParts DEF ConditionLit, CandidateLit
<1> QED BY <1>1, <1>2, <1>3, Variables DEF ParentVar

\* The literals of a requires clause besides the parent's.
Others(condition, req) == condition \o CandidateLits(req)

\* They are literals of conditions and candidates; the second watch is one of them.
LEMMA OthersTyped ==
  ASSUME NEW s, NEW condition \in Seq(ConditionLit), NEW req \in Requirement
  PROVE  LET others == Others(condition, req)
             second == (NotFalse(s, others) \o others)[1]
         IN /\ others \in Seq(ConditionLit) /\ others \in Seq(Literal)
            /\ ToSet(others) \subseteq ConditionLit
            /\ others # << >> => second \in ToSet(others)
            /\ NotFalse(s, others) = << >> => \A m \in ToSet(others) : LitFalse(Map(s), m)
<1> DEFINE others == Others(condition, req)
           open == NotFalse(s, others)
           q == open \o others
<1>1. CandidateLits(req) \in Seq(ConditionLit)
  <2>1. CandidateLits(req) \in Seq(CandidateLit) /\ CandidateLit \subseteq ConditionLit
    BY LiteralsTyped DEF ConditionLit
  <2> HIDE DEF CandidateLit, ConditionLit
  <2> QED BY <2>1
<1>2. others \in Seq(ConditionLit)
  BY <1>1, ConcatSet DEF Others
<1>3. ConditionLit \subseteq Literal
  BY LiteralsTyped
<1> HIDE DEF others
<1>4. others \in Seq(Literal) /\ ToSet(others) \subseteq ConditionLit
  BY <1>2, <1>3, ToSetType
<1>5. open \in Seq(ConditionLit)
      /\ ToSet(open) = ToSet(others) \cap {l \in ToSet(others) : ~LitFalse(Map(s), l)}
  BY <1>2, KeepElements DEF NotFalse
<1> HIDE DEF open
<1>6. q \in Seq(ConditionLit) /\ ToSet(q) = ToSet(open) \cup ToSet(others)
  BY <1>2, <1>5, ConcatSet
<1>7. others # << >> => q[1] \in ToSet(others)
  <2> SUFFICES ASSUME others # << >> PROVE q[1] \in ToSet(others)
    OBVIOUS
  <2>1. 1 \in DOMAIN q
    <3>1. Len(others) \in Nat /\ Len(others) # 0 /\ Len(open) \in Nat /\ Len(q) = Len(open) + Len(others)
      BY <1>2, <1>5
    <3>2. DOMAIN q = 1 .. Len(q)
      BY <1>6
    <3> HIDE DEF q
    <3> QED BY <3>1, <3>2
  <2> HIDE DEF q
  <2>2. q[1] \in ToSet(q)
    BY <1>6, <2>1, ToSetType
  <2> QED BY <1>5, <1>6, <2>2
<1>8. open = << >> => \A m \in ToSet(others) : LitFalse(Map(s), m)
  <2>1. ToSet(<< >>) = {}
    BY ShortSequences
  <2> QED BY <1>5, <2>1
<1> QED BY <1>2, <1>4, <1>7, <1>8 DEF others, open

\* A requires clause is born falsified only when another variable is decided.
LEMMA ConflictDecided ==
  ASSUME NEW ph, NEW s, NEW lv, Good(s, lv, ph), NEW parent, NEW condition \in Seq(ConditionLit),
         NEW req \in Requirement, RequiresConflicts(s, parent, condition, req)
  PROVE  ph # "root"
<1> DEFINE others == Others(condition, req)
           second == (NotFalse(s, others) \o others)[1]
<1>1. others # << >> /\ NotFalse(s, others) = << >>
  BY DEF RequiresConflicts, Others
<1>2. ToSet(others) \subseteq ConditionLit /\ second \in ToSet(others) /\ LitFalse(Map(s), second)
  BY <1>1, OthersTyped
<1> HIDE DEF others, second
<1> QED BY <1>2, OtherVars, OtherDecided

\* State t is s with the requires clause of a parent.
AddsRequires(s, t, lv, ph, parent, condition, req) ==
  /\ Good(t, lv, ph) /\ SameClauses(s.clauses, t.clauses)
  /\ t.decision_tracker = s.decision_tracker
  /\ NewClause(s) \in DOMAIN t.clauses
  /\ t.clauses[NewClause(s)].lits = <<Neg(parent)>> \o Others(condition, req)
  /\ ToSet(t.clauses[NewClause(s)].lits) = {Neg(parent)} \cup ToSet(Others(condition, req))

\* A requires clause is added, and an assertion if it has no other literal.
LEMMA AddRequiresGood ==
  ASSUME NEW ph, NEW s, NEW lv, Good(s, lv, ph), NEW parent \in ParentVar, NEW condition \in Seq(ConditionLit),
         NEW req \in Requirement
  PROVE  AddsRequires(s, AddRequiresClause(s, parent, condition, req), lv, ph, parent, condition, req)
<1> DEFINE others == Others(condition, req)
           second == (NotFalse(s, others) \o others)[1]
           a == Neg(parent)
           one == <<a>>
           lits == one \o others
           watched == IF others = << >> THEN << >> ELSE <<a, second>>
           id == NewClause(s)
           y == Clause("Requires", lits, watched, NextWatches(s.watches, id, watched))
           x == [y EXCEPT !.requirement = req, !.condition = condition]
           added == AddClause(s, "Requires", lits, watched)
           t == AddRequiresClause(s, parent, condition, req)
<1>1. /\ others \in Seq(ConditionLit) /\ others \in Seq(Literal)
      /\ ToSet(others) \subseteq ConditionLit
      /\ others # << >> => second \in ToSet(others)
  BY OthersTyped
<1>2. t = [added EXCEPT !.clauses[id].requirement = req, !.clauses[id].condition = condition]
  BY DEF AddRequiresClause, Others
<1>3. Shape(s) /\ s.clauses \in Seq(ClauseType)
  BY DEF Good, Core, ClausesOK
<1>4. a \in Literal /\ a \notin ConditionLit /\ condition \in Seq(Literal)
  <2>1. ConditionLit \subseteq Literal
    BY LiteralsTyped
  <2> QED BY <2>1, Parents
<1> HIDE DEF others, second, a
<1>5. one \in Seq(Literal) /\ ToSet(one) = {a}
  BY <1>4, ShortSequences
<1> HIDE DEF one
<1>6. lits \in Seq(Literal) /\ ToSet(lits) = {a} \cup ToSet(others)
  BY <1>1, <1>5, ConcatSet
<1>7. /\ watched \in Seq(Literal)
      /\ watched # << >> => /\ Len(watched) = 2 /\ watched[1] = a /\ watched[2] = second
                            /\ second \in ToSet(others)
  <2>1. CASE others = << >>
    BY <2>1
  <2>2. CASE others # << >>
    <3>1. second \in Literal
      BY <1>1, <2>2, LiteralsTyped
    <3>2. <<a, second>> \in Seq(Literal)
      BY <1>4, <3>1, ShortSequences
    <3> QED BY <1>1, <2>2, <3>2
  <2> QED BY <2>1, <2>2
<1> HIDE DEF lits, watched
<1>8. "Requires" \in ClauseKind
  BY DEF ClauseKind
<1>9. /\ y \in ClauseType /\ y.kind = "Requires" /\ y.lits = lits /\ y.watched = watched
      /\ y.next_watches = NextWatches(s.watches, id, watched)
      /\ watched # << >> => Len(y.next_watches) = 2
  BY <1>6, <1>7, <1>8, ClauseFields
<1>10. added = [s EXCEPT !.clauses = Append(s.clauses, y), !.watches = WatchHeads(s.watches, id, watched)]
  BY DEF AddClause
<1> HIDE DEF y, added
<1>11. /\ x \in ClauseType /\ x.kind = "Requires" /\ x.lits = lits /\ x.watched = watched
       /\ x.next_watches = y.next_watches
  <2>1. DOMAIN y = {"kind", "lits", "watched", "next_watches", "requirement", "condition", "why"}
    BY <1>9 DEF ClauseType
  <2>2. [y EXCEPT !.requirement = req] \in ClauseType
    BY <1>9 DEF ClauseType
  <2>3. x = [[y EXCEPT !.requirement = req] EXCEPT !.condition = condition]
    OBVIOUS
  <2>4. x \in ClauseType
    <3> DEFINE z == [y EXCEPT !.requirement = req]
    <3>1. z \in ClauseType /\ x = [z EXCEPT !.condition = condition]
      BY <2>2, <2>3
    <3> HIDE DEF z
    <3> QED BY <1>4, <3>1 DEF ClauseType
  <2> QED BY <1>9, <2>1, <2>4
<1>12. /\ DOMAIN added = DOMAIN s /\ added.clauses = Append(s.clauses, y)
       /\ added.watches = WatchHeads(s.watches, id, watched)
       /\ added.decision_tracker = s.decision_tracker /\ SameLists(s, added) /\ SameQueues(s, added)
  BY <1>3, <1>10 DEF Shape, SameLists, SameQueues
<1>13. t = [added EXCEPT !.clauses = [added.clauses EXCEPT ![id] = [added.clauses[id] EXCEPT !.requirement = req, !.condition = condition]]]
  BY <1>2
<1> DEFINE q == Append(s.clauses, y)
<1>14. q[id] = y /\ [q EXCEPT ![id] = x] = Append(s.clauses, x)
  <2>1. Len(s.clauses) \in Nat /\ id = Len(s.clauses) + 1
    BY <1>3 DEF NewClause
  <2> HIDE DEF x, id
  <2>2. /\ q \in Seq(ClauseType) /\ Len(q) = id /\ q[id] = y
        /\ \A i \in 1 .. Len(s.clauses) : q[i] = s.clauses[i]
    BY <1>3, <1>9, <2>1
  <2>3. /\ Append(s.clauses, x) \in Seq(ClauseType) /\ Len(Append(s.clauses, x)) = id
        /\ Append(s.clauses, x)[id] = x
        /\ \A i \in 1 .. Len(s.clauses) : Append(s.clauses, x)[i] = s.clauses[i]
    BY <1>3, <1>11, <2>1
  <2> HIDE DEF q
  <2>4. DOMAIN q = 1 .. id /\ id \in Nat
    BY <2>1, <2>2
  <2>5. [q EXCEPT ![id] = x] \in Seq(ClauseType) /\ Len([q EXCEPT ![id] = x]) = id
    BY <1>11, <2>1, <2>2, <2>4
  <2>6. \A i \in 1 .. id : [q EXCEPT ![id] = x][i] = Append(s.clauses, x)[i]
    BY <2>1, <2>2, <2>3, <2>4
  <2> QED BY <2>2, <2>3, <2>5, <2>6, SeqEqual
<1>15. t = [added EXCEPT !.clauses = Append(s.clauses, x)]
  BY <1>12, <1>13, <1>14
<1> HIDE DEF x, t
<1>16. /\ Shape(t) /\ SameLists(s, t) /\ SameQueues(s, t) /\ t.decision_tracker = s.decision_tracker
       /\ t.clauses = Append(s.clauses, x) /\ t.watches = WatchHeads(s.watches, id, watched)
  BY <1>3, <1>12, <1>15 DEF Shape, SameLists, SameQueues
<1>17. WellBuilt(x)
  BY <1>1, <1>4, <1>6, <1>7, <1>9, <1>11 DEF WellBuilt
<1>18. Adds(s, t, x) /\ x.kind # "Learnt"
  BY <1>9, <1>11, <1>16, <1>17 DEF Adds
<1>19. /\ Good(t, lv, ph) /\ SameClauses(s.clauses, t.clauses)
       /\ id \in DOMAIN t.clauses /\ t.clauses[id] = x
  BY <1>18, GoodAdd
<1>20. t.clauses[id].lits = <<Neg(parent)>> \o Others(condition, req)
  BY <1>11, <1>19 DEF lits, one, a, others
<1>21. ToSet(t.clauses[id].lits) = {Neg(parent)} \cup ToSet(Others(condition, req))
  BY <1>6, <1>11, <1>19 DEF a, others
<1> QED BY <1>16, <1>19, <1>20, <1>21 DEF AddsRequires, t

\* Only the list of gates changes.
LEMMA GoodGates ==
  ASSUME NEW ph, NEW s, NEW lv, Good(s, lv, ph), NEW req \in Requirement
  PROVE  LET t == [s EXCEPT !.gates = Append(@, req)] IN
         /\ Good(t, lv, ph) /\ t.clauses = s.clauses /\ t.decision_tracker = s.decision_tracker
<1> DEFINE r == Append(s.gates, req)
           t == [s EXCEPT !.gates = r]
<1>1. Shape(s) /\ s.gates \in Seq(Requirement)
  BY DEF Good, Core, Queues
<1>2. r \in Seq(Requirement)
  BY <1>1, AppendSet
<1> HIDE DEF r
<1>3. /\ Shape(t) /\ SameCore(s, t) /\ t.gates = r /\ t.tasks = s.tasks
      /\ t.deferred_requirements = s.deferred_requirements
      /\ t.at_most_one_trackers = s.at_most_one_trackers
      /\ t.pending_forbid_clauses = s.pending_forbid_clauses
      /\ t.new_at_least_one_packages = s.new_at_least_one_packages
  BY <1>1 DEF Shape, SameCore, SameLists
<1> HIDE DEF t
<1>4. Queues(t)
  BY <1>2, <1>3 DEF Good, Queues
<1>5. Good(t, lv, ph) /\ t.clauses = s.clauses /\ t.decision_tracker = s.decision_tracker
  BY <1>3, <1>4, GoodFrame DEF SameCore
<1> QED BY <1>5 DEF t, r

\* A gate is added, and decided when no candidate of its requirement is left.
LEMMA AddGateGood ==
  ASSUME NEW ph, NEW s, NEW lv \in Nat \ {0}, Good(s, lv, ph), NEW req \in Requirement
  PROVE  Good(AddGate(s, req, lv), lv, ph)
<1> DEFINE gate == GateVar(req)
           none == << >>
           g == [s EXCEPT !.gates = Append(@, req)]
           added == AddRequiresClause(g, gate, none, req)
           id == NewClause(s)
           conflict == RequiresConflicts(s, gate, none, req)
<1>1. Good(g, lv, ph) /\ g.clauses = s.clauses /\ g.decision_tracker = s.decision_tracker
  BY GoodGates
<1>2. gate \in ParentVar /\ gate \in Variable /\ none \in Seq(ConditionLit) /\ Neg(gate) \in Literal
  BY Parents DEF ParentVar
<1>3. AddGate(s, req, lv) = IF conflict THEN Assign(added, Satisfy(Neg(gate), id), lv) ELSE added
  BY DEF AddGate
<1>4. conflict => NotFalse(s, Others(none, req)) = << >>
  BY DEF RequiresConflicts, Others
<1>5. NewClause(g) = id
  BY <1>1 DEF NewClause
<1>d. conflict => ph # "root"
  BY <1>2, ConflictDecided
<1> HIDE DEF none, g, id, gate, conflict
<1>6. /\ Good(added, lv, ph) /\ added.decision_tracker = s.decision_tracker /\ id \in DOMAIN added.clauses
      /\ ToSet(added.clauses[id].lits) = {Neg(gate)} \cup ToSet(Others(none, req))
  <2>1. /\ Good(added, lv, ph) /\ added.decision_tracker = g.decision_tracker
        /\ NewClause(g) \in DOMAIN added.clauses
        /\ ToSet(added.clauses[NewClause(g)].lits) = {Neg(gate)} \cup ToSet(Others(none, req))
    <3>1. AddsRequires(g, added, lv, ph, gate, none, req)
      BY <1>1, <1>2, AddRequiresGood
    <3> HIDE DEF added
    <3> QED BY <3>1 DEF AddsRequires
  <2> HIDE DEF added
  <2> QED BY <1>1, <1>5, <2>1
<1> HIDE DEF added
<1>7. conflict => \A m \in ToSet(Others(none, req)) : LitFalse(Map(added), m)
  <2>1. Map(added) = Map(s)
    BY <1>6 DEF Map
  <2> QED BY <1>2, <1>4, <2>1, OthersTyped
<1>8. conflict => Good(Assign(added, Satisfy(Neg(gate), id), lv), lv, ph)
  <2>1. Neg(gate) \in ToSet(added.clauses[id].lits)
    BY <1>6
  <2>2. conflict => \A m \in ToSet(added.clauses[id].lits) : m = Neg(gate) \/ LitFalse(Map(added), m)
    BY <1>6, <1>7
  <2> QED BY <1>d, <1>2, <1>6, <2>1, <2>2, AssignGood
<1> QED BY <1>3, <1>6, <1>8

\* The implication from a parent to the gate of a requirement.
LEMMA AddImplicationGood ==
  ASSUME NEW ph, NEW s, NEW lv \in Nat \ {0}, Good(s, lv, ph), NEW parent \in OtherVar, NEW req \in Requirement
  PROVE  Good(AddImplication(s, parent, req, lv), lv, ph)
<1> DEFINE gate == GateVar(req)
           a == Pos(gate)
           b == Neg(parent)
           id == NewClause(s)
           kind == "AnyOf"
           added == AddClause(s, kind, <<a, b>>, <<a, b>>)
           t == NoteRequirer(added, id, parent, req)
           map == Map(s)
<1>1. gate \in OtherVar /\ parent \in Variable /\ a \in Literal /\ b \in Literal
  BY OtherVars, LiteralParts
<1>2. kind \in ClauseKind \ {"Learnt", "Requires"}
  BY DEF ClauseKind
<1>3. \/ AddImplication(s, parent, req, lv) = t
      \/ /\ AddImplication(s, parent, req, lv) = Report(t, id)
         /\ IsTrue(map, parent)
      \/ /\ AddImplication(s, parent, req, lv) = Assign(t, Satisfy(a, id), lv)
         /\ IsTrue(map, parent)
      \/ /\ AddImplication(s, parent, req, lv) = Assign(t, Satisfy(b, id), lv)
         /\ IsFalse(map, gate)
  BY DEF AddImplication, NoteRequirer
<1>d. IsTrue(map, parent) \/ IsFalse(map, gate) => ph # "root"
  BY <1>1, OtherDecided
<1>4. /\ IsTrue(map, parent) => LitFalse(map, b)
      /\ IsFalse(map, gate) => LitFalse(map, a)
  BY FalseLiterals
<1> HIDE DEF map
<1>5. /\ Good(added, lv, ph) /\ id \in DOMAIN added.clauses /\ ToSet(added.clauses[id].lits) = {a, b}
      /\ added.decision_tracker = s.decision_tracker /\ added.clauses[id].lits = <<a, b>>
  <2> HIDE DEF a, b, kind
  <2>1. AddsBinary(s, added, lv, ph, a, b)
    BY <1>1, <1>2, AddBinary
  <2> HIDE DEF added
  <2> QED BY <2>1 DEF AddsBinary
<1> HIDE DEF id, added
<1>6. Good(t, lv, ph) /\ t.clauses = added.clauses /\ t.decision_tracker = added.decision_tracker
  <2>1. Implication(added.clauses, id, parent, req)
    BY <1>5 DEF Implication
  <2> HIDE DEF gate, a, b
  <2> QED BY <1>1, <1>5, <2>1, GoodRequirer
<1> HIDE DEF t
<1>7. id \in DOMAIN t.clauses /\ ToSet(t.clauses[id].lits) = {a, b} /\ Map(t) = map
  BY <1>5, <1>6 DEF map, Map
<1> HIDE DEF a, b
<1>8. IsTrue(map, parent) => Good(Report(t, id), lv, ph)
  BY <1>d, <1>6, <1>7, GoodReport
<1>9. IsTrue(map, parent) => Good(Assign(t, Satisfy(a, id), lv), lv, ph)
  <2>1. a \in ToSet(t.clauses[id].lits)
    BY <1>7
  <2>2. IsTrue(map, parent) => \A m \in ToSet(t.clauses[id].lits) : m = a \/ LitFalse(Map(t), m)
    BY <1>4, <1>7
  <2> QED BY <1>d, <1>1, <1>6, <1>7, <2>1, <2>2, AssignGood
<1>10. IsFalse(map, gate) => Good(Assign(t, Satisfy(b, id), lv), lv, ph)
  <2>1. b \in ToSet(t.clauses[id].lits)
    BY <1>7
  <2>2. IsFalse(map, gate) => \A m \in ToSet(t.clauses[id].lits) : m = b \/ LitFalse(Map(t), m)
    BY <1>4, <1>7
  <2> QED BY <1>d, <1>1, <1>6, <1>7, <2>1, <2>2, AssignGood
<1> QED BY <1>3, <1>6, <1>8, <1>9, <1>10

\* A requirement with a gate that its requirers share.
LEMMA AddSharedGood ==
  ASSUME NEW ph, NEW s, NEW lv \in Nat \ {0}, Good(s, lv, ph), NEW parent \in OtherVar, NEW req \in Requirement
  PROVE  Good(AddSharedRequires(s, parent, req, lv), lv, ph)
<1> DEFINE t == IF req \in ToSet(s.gates) THEN s ELSE AddGate(s, req, lv)
<1>1. Good(t, lv, ph)
  BY AddGateGood
<1> HIDE DEF t
<1>2. Good(AddImplication(t, parent, req, lv), lv, ph)
  BY <1>1, AddImplicationGood
<1> QED BY <1>2 DEF AddSharedRequires, t

\* A requirement with a clause of its own.
LEMMA AddDirectGood ==
  ASSUME NEW ph, NEW s, NEW lv, Good(s, lv, ph), NEW parent \in ParentVar, NEW condition \in Seq(ConditionLit),
         NEW req \in Requirement
  PROVE  Good(AddDirectRequires(s, parent, condition, req), lv, ph)
<1> DEFINE added == AddRequiresClause(s, parent, condition, req)
           id == NewClause(s)
           t == [added EXCEPT !.negative_assertions = Append(@, <<parent, id>>)]
<1>1. /\ Good(added, lv, ph) /\ id \in DOMAIN added.clauses
      /\ added.clauses[id].lits = <<Neg(parent)>> \o Others(condition, req)
  <2>1. AddsRequires(s, added, lv, ph, parent, condition, req)
    BY AddRequiresGood
  <2> HIDE DEF added
  <2> QED BY <2>1 DEF AddsRequires
<1>2. \/ AddDirectRequires(s, parent, condition, req) = added
      \/ /\ AddDirectRequires(s, parent, condition, req) = Report(added, id)
         /\ RequiresConflicts(s, parent, condition, req)
      \/ /\ AddDirectRequires(s, parent, condition, req) = t
         /\ CandidateLits(req) = << >> /\ condition = << >>
  BY DEF AddDirectRequires
<1> HIDE DEF added, id
<1>3. RequiresConflicts(s, parent, condition, req) => Good(Report(added, id), lv, ph)
  BY <1>1, ConflictDecided, GoodReport
<1>4. CandidateLits(req) = << >> /\ condition = << >> => Good(t, lv, ph)
  <2> SUFFICES ASSUME CandidateLits(req) = << >>, condition = << >> PROVE Good(t, lv, ph)
    OBVIOUS
  <2>1. Others(condition, req) = << >>
    BY DEF Others
  <2>2. added.clauses[id].lits = <<Neg(parent)>>
    <3>1. <<Neg(parent)>> \o << >> = <<Neg(parent)>>
      OBVIOUS
    <3> QED BY <1>1, <2>1, <3>1
  <2>3. parent \in Variable
    BY DEF ParentVar
  <2> QED BY <1>1, <2>2, <2>3, GoodAssertion
<1> QED BY <1>1, <1>2, <1>3, <1>4

\* The loop that asks for the dependencies of hinted candidates.
PrefetchDef(s, q, hint, d, f, S) ==
  IF S = {} THEN s
  ELSE IF q[Max(S)] \in hint THEN QueueSolvable(f[S \ {Max(S)}], q[Max(S)]) ELSE f[S \ {Max(S)}]
Prefetches == INSTANCE Recursion WITH Def <- PrefetchDef, P <- Kept

\* Prefetching keeps the state good.
LEMMA PrefetchGood ==
  ASSUME NEW ph, NEW s, NEW lv, Good(s, lv, ph), NEW hint, NEW q \in Seq(Solvable)
  PROVE  Good(Prefetches!Loop(s, q, hint, 0, Len(q)), lv, ph)
<1>1. DOMAIN q = 1 .. Len(q) /\ Len(q) \in Nat /\ \A i \in 1 .. Len(q) : q[i] \in Asker
  BY DEF Asker
<1>3. Prefetches!Rounds(s, q, hint, 0, Len(q))
  BY DEF Prefetches!Rounds, PrefetchDef, Prefetches!Max, Max
<1>4. Prefetches!Keeps(s, q, hint, 0, Len(q), lv, ph)
  BY <1>1, QueueSolvableGood DEF Prefetches!Keeps, Kept, PrefetchDef, Prefetches!Max, Max
<1>5. Kept(lv, ph, 1 .. Len(q), Prefetches!Loop(s, q, hint, 0, Len(q)))
  BY <1>1, <1>3, <1>4, Prefetches!FoldInduction, Tr!LeastNatural DEF Prefetches!WellOrdered
<1> QED BY <1>5 DEF Kept

\* The loop over the disjuncts that fired, for what their literals need.
ConditionsDef(s, q, c, d, f, S) ==
  IF S = {} THEN s ELSE RegisterCondition(f[S \ {Max(S)}], q[Max(S)])
RegisterAll == INSTANCE Recursion WITH Def <- ConditionsDef, P <- Kept

\* Registering the conditions keeps the state good.
LEMMA RegisterAllGood ==
  ASSUME NEW ph, NEW s, NEW lv, Good(s, lv, ph), NEW q \in Seq(Seq(VersionSet))
  PROVE  Good(FoldLeft(RegisterCondition, s, q), lv, ph)
<1>1. DOMAIN q = 1 .. Len(q) /\ Len(q) \in Nat /\ \A i \in 1 .. Len(q) : q[i] \in Seq(VersionSet)
  OBVIOUS
<1>2. FoldLeft(RegisterCondition, s, q) = RegisterAll!Loop(s, q, 0, 0, Len(q))
  BY <1>1 DEF FoldLeft, MapThenFoldSet, RegisterAll!Loop, RegisterAll!Fix, ConditionsDef
<1>3. RegisterAll!Rounds(s, q, 0, 0, Len(q))
  BY DEF RegisterAll!Rounds, ConditionsDef, RegisterAll!Max, Max
<1>4. RegisterAll!Keeps(s, q, 0, 0, Len(q), lv, ph)
  BY <1>1, RegisterConditionGood DEF RegisterAll!Keeps, Kept, ConditionsDef, RegisterAll!Max, Max
<1>5. Kept(lv, ph, 1 .. Len(q), RegisterAll!Loop(s, q, 0, 0, Len(q)))
  BY <1>1, <1>3, <1>4, RegisterAll!FoldInduction, Tr!LeastNatural DEF RegisterAll!WellOrdered
<1> QED BY <1>2, <1>5 DEF Kept

\* The loop over the disjuncts that fired, for their clauses.
ConditionalDef(s, q, x, req, f, S) ==
  IF S = {} THEN s
  ELSE AddDirectRequires(f[S \ {Max(S)}], VarOf(x), ConditionLits(q[Max(S)]), req)
Conditionals == INSTANCE Recursion WITH Def <- ConditionalDef, P <- Kept

\* The clauses of a conditional requirement keep the state good.
LEMMA ConditionalGood ==
  ASSUME NEW ph, NEW s, NEW lv, Good(s, lv, ph), NEW x \in Asker, NEW req \in Requirement,
         NEW q \in Seq(Seq(VersionSet))
  PROVE  LET Conditional(t, d) == AddDirectRequires(t, VarOf(x), ConditionLits(d), req)
         IN Good(FoldLeft(Conditional, s, q), lv, ph)
<1> DEFINE Conditional(t, d) == AddDirectRequires(t, VarOf(x), ConditionLits(d), req)
<1>1. DOMAIN q = 1 .. Len(q) /\ Len(q) \in Nat /\ \A i \in 1 .. Len(q) : q[i] \in Seq(VersionSet)
  OBVIOUS
<1>2. FoldLeft(Conditional, s, q) = Conditionals!Loop(s, q, x, req, Len(q))
  BY <1>1 DEF FoldLeft, MapThenFoldSet, Conditionals!Loop, Conditionals!Fix, ConditionalDef
<1>3. Conditionals!Rounds(s, q, x, req, Len(q))
  BY DEF Conditionals!Rounds, ConditionalDef, Conditionals!Max, Max
<1>4. \A t : \A d \in Seq(VersionSet) :
        Good(t, lv, ph) => Good(AddDirectRequires(t, VarOf(x), ConditionLits(d), req), lv, ph)
  <2>1. VarOf(x) \in ParentVar /\ \A d \in Seq(VersionSet) : ConditionLits(d) \in Seq(ConditionLit)
    BY Parents, LiteralsTyped
  <2> QED BY <2>1, AddDirectGood
<1>5. Conditionals!Keeps(s, q, x, req, Len(q), lv, ph)
  BY <1>1, <1>4 DEF Conditionals!Keeps, Kept, ConditionalDef, Conditionals!Max, Max
<1>6. Kept(lv, ph, 1 .. Len(q), Conditionals!Loop(s, q, x, req, Len(q)))
  BY <1>1, <1>3, <1>5, Conditionals!FoldInduction, Tr!LeastNatural DEF Conditionals!WellOrdered
<1> QED BY <1>2, <1>6 DEF Kept

\* on_requirement_candidates_available keeps the state good.
LEMMA OnRequirementGood ==
  ASSUME NEW ph, NEW s, NEW lv \in Nat \ {0}, Good(s, lv, ph), NEW p \in Problem, NEW x \in Asker,
         NEW req \in Requirement, NEW fired \in Seq(Seq(VersionSet))
  PROVE  Good(OnRequirement(p, s, x, req, fired, lv), lv, ph)
<1> DEFINE cands == RequirementCandidates(req)
           Prefetch(t, c) == IF c \in p.hint THEN QueueSolvable(t, c) ELSE t
           Conditional(t, d) == AddDirectRequires(t, VarOf(x), ConditionLits(d), req)
           r == FoldLeft(RegisterForbidTarget, s, cands)
           u == FoldLeft(Prefetch, r, cands)
           w == FoldLeft(RegisterCondition, u, fired)
           none == << >>
<1>1. \/ OnRequirement(p, s, x, req, fired, lv)
           \in {FoldLeft(Conditional, w, fired), AddDirectRequires(u, VarOf(x), none, req)}
      \/ OnRequirement(p, s, x, req, fired, lv) = AddSharedRequires(u, VarOf(x), req, lv) /\ x # Root
  BY DEF OnRequirement
<1>2. cands \in Seq(Solvable) /\ VarOf(x) \in ParentVar /\ VarOf(x) \in Variable /\ none \in Seq(ConditionLit)
  BY AnswersTyped, Parents DEF ParentVar
<1> HIDE DEF cands, none
<1>3. Good(r, lv, ph)
  BY <1>2, TargetsGood
<1> HIDE DEF r
<1>4. Good(u, lv, ph)
  <2>1. DOMAIN cands = 1 .. Len(cands)
    BY <1>2
  <2>2. u = Prefetches!Loop(r, cands, p.hint, 0, Len(cands))
    BY <2>1 DEF FoldLeft, MapThenFoldSet, Prefetches!Loop, Prefetches!Fix, PrefetchDef
  <2> QED BY <1>2, <1>3, <2>2, PrefetchGood
<1> HIDE DEF u
<1>5. Good(w, lv, ph)
  BY <1>4, RegisterAllGood
<1> HIDE DEF w
<1>6. Good(FoldLeft(Conditional, w, fired), lv, ph)
  BY <1>5, ConditionalGood
<1>7. x # Root => Good(AddSharedRequires(u, VarOf(x), req, lv), lv, ph)
  <2>1. x # Root => VarOf(x) \in OtherVar
    BY OtherVars DEF Asker
  <2> QED BY <1>4, <2>1, AddSharedGood
<1>8. Good(AddDirectRequires(u, VarOf(x), none, req), lv, ph)
  BY <1>2, <1>4, AddDirectGood
<1> HIDE DEF Conditional
<1> QED BY <1>1, <1>6, <1>7, <1>8

----------------------------------------------------------------------------
(* on_constraint_candidates_available                                       *)

\* A clause against two solvables keeps the state good.
LEMMA BinaryConstraintGood ==
  ASSUME NEW ph, NEW s, NEW lv, Good(s, lv, ph), NEW kind \in ClauseKind \ {"Learnt", "Requires"},
         NEW parent \in Variable, NEW other \in OtherVar
  PROVE  Good(AddBinaryConstraint(s, kind, parent, other), lv, ph)
<1> DEFINE a == Neg(parent)
           b == Neg(other)
           id == NewClause(s)
           added == AddClause(s, kind, <<a, b>>, <<a, b>>)
<1>1. a \in Literal /\ b \in Literal
  BY OtherVars, LiteralParts
<1>2. \/ AddBinaryConstraint(s, kind, parent, other) = added
      \/ AddBinaryConstraint(s, kind, parent, other) = Report(added, id) /\ IsTrue(Map(s), other)
  BY DEF AddBinaryConstraint
<1> HIDE DEF a, b
<1>3. AddsBinary(s, added, lv, ph, a, b)
  BY <1>1, AddBinary
<1> HIDE DEF added
<1>4. Good(added, lv, ph) /\ id \in DOMAIN added.clauses
  BY <1>3 DEF AddsBinary
<1>5. IsTrue(Map(s), other) => Good(Report(added, id), lv, ph)
  BY <1>4, OtherDecided, GoodReport
<1> QED BY <1>2, <1>4, <1>5

\* The clause that lets a candidate imply the violation of a version set.
Excluding(t, c, aux, level) ==
  LET added == AddClause(t, "ConstrainsExcluded", <<Neg(SolvableVar(c)), Pos(aux)>>,
                         <<Neg(SolvableVar(c)), Pos(aux)>>)
  IN IF IsTrue(Map(t), SolvableVar(c))
     THEN Assign(added, Satisfy(Pos(aux), NewClause(t)), level)
     ELSE added
ExcludingDef(s, q, aux, level, f, S) ==
  IF S = {} THEN s ELSE Excluding(f[S \ {Max(S)}], q[Max(S)], aux, level)
Excludes == INSTANCE Recursion WITH Def <- ExcludingDef, P <- Kept

\* Such a clause keeps the state good.
LEMMA ExcludingGood ==
  ASSUME NEW ph, NEW t, NEW lv \in Nat \ {0}, Good(t, lv, ph), NEW c \in Solvable, NEW aux \in Variable
  PROVE  Good(Excluding(t, c, aux, lv), lv, ph)
<1> DEFINE v == SolvableVar(c)
           a == Neg(v)
           b == Pos(aux)
           id == NewClause(t)
           kind == "ConstrainsExcluded"
           added == AddClause(t, kind, <<a, b>>, <<a, b>>)
<1>1. a \in Literal /\ b \in Literal
  BY LiteralParts, Variables
<1>2. kind \in ClauseKind \ {"Learnt", "Requires"}
  BY DEF ClauseKind
<1>3. Excluding(t, c, aux, lv) = IF IsTrue(Map(t), v) THEN Assign(added, Satisfy(b, id), lv) ELSE added
  BY DEF Excluding
<1>4. IsTrue(Map(t), v) => LitFalse(Map(t), a) /\ ph # "root"
  BY FalseLiterals, OtherVars, OtherDecided
<1> HIDE DEF v, a, b, kind
<1>5. AddsBinary(t, added, lv, ph, a, b)
  BY <1>1, <1>2, AddBinary
<1> HIDE DEF added
<1>6. /\ Good(added, lv, ph) /\ id \in DOMAIN added.clauses /\ ToSet(added.clauses[id].lits) = {a, b}
      /\ Map(added) = Map(t)
  BY <1>5 DEF AddsBinary, Map
<1> HIDE DEF id
<1>7. IsTrue(Map(t), v) => Good(Assign(added, Satisfy(b, id), lv), lv, ph)
  <2>1. b \in ToSet(added.clauses[id].lits)
    BY <1>6
  <2>2. IsTrue(Map(t), v) => \A m \in ToSet(added.clauses[id].lits) : m = b \/ LitFalse(Map(added), m)
    BY <1>4, <1>6
  <2> QED BY <1>1, <1>4, <1>6, <2>1, <2>2, AssignGood
<1> QED BY <1>3, <1>6, <1>7

\* The clauses of a violated version set keep the state good.
LEMMA AddViolationGood ==
  ASSUME NEW ph, NEW s, NEW lv \in Nat \ {0}, Good(s, lv, ph), NEW vs \in VersionSet
  PROVE  Good(AddViolation(s, vs, lv), lv, ph)
<1> DEFINE aux == ViolationVar(vs)
           q == NonMatching(vs)
           t == [s EXCEPT !.constrains_aux_vars = @ \cup {vs}]
<1>1. Shape(s)
  BY DEF Good, Core
<1>2. Shape(t) /\ SameCore(s, t) /\ SameQueues(s, t)
  BY <1>1 DEF Shape, SameCore, SameLists, SameQueues
<1>3. Good(t, lv, ph)
  <2> HIDE DEF t
  <2>1. Queues(t)
    BY <1>2 DEF Good, Queues, SameQueues
  <2> QED BY <1>2, <2>1, GoodFrame
<1>4. aux \in Variable /\ q \in Seq(Solvable)
  BY Variables, AnswersTyped
<1>5. DOMAIN q = 1 .. Len(q) /\ Len(q) \in Nat /\ \A i \in 1 .. Len(q) : q[i] \in Solvable
  BY <1>4
<1>6. AddViolation(s, vs, lv) = Excludes!Loop(t, q, aux, lv, Len(q))
  BY <1>5 DEF AddViolation, Excluding, FoldLeft, MapThenFoldSet, Excludes!Loop, Excludes!Fix, ExcludingDef
<1> HIDE DEF t, q, aux
<1>7. Excludes!Rounds(t, q, aux, lv, Len(q))
  BY DEF Excludes!Rounds, ExcludingDef, Excludes!Max, Max
<1>8. Excludes!Keeps(t, q, aux, lv, Len(q), lv, ph)
  BY <1>3, <1>4, <1>5, ExcludingGood DEF Excludes!Keeps, Kept, ExcludingDef, Excludes!Max, Max
<1>9. Kept(lv, ph, 1 .. Len(q), Excludes!Loop(t, q, aux, lv, Len(q)))
  BY <1>5, <1>7, <1>8, Excludes!FoldInduction, Tr!LeastNatural DEF Excludes!WellOrdered
<1> QED BY <1>6, <1>9 DEF Kept

\* The loop over the candidates that a constraint forbids.
PairwiseDef(s, q, x, d, f, S) ==
  IF S = {} THEN s
  ELSE AddBinaryConstraint(f[S \ {Max(S)}], "Constrains", VarOf(x), SolvableVar(q[Max(S)]))
Pairs == INSTANCE Recursion WITH Def <- PairwiseDef, P <- Kept

\* on_constraint_candidates_available keeps the state good.
LEMMA OnConstraintGood ==
  ASSUME NEW ph, NEW s, NEW lv \in Nat \ {0}, Good(s, lv, ph), NEW x \in Asker, NEW vs \in VersionSet
  PROVE  Good(OnConstraint(s, x, vs, lv), lv, ph)
<1> DEFINE q == NonMatching(vs)
           u == IF vs \in s.constrains_aux_vars THEN s ELSE AddViolation(s, vs, lv)
           Pairwise(t, c) == AddBinaryConstraint(t, "Constrains", VarOf(x), SolvableVar(c))
           all == FoldLeft(Pairwise, s, q)
           one == AddBinaryConstraint(u, "ConstrainsParent", VarOf(x), ViolationVar(vs))
<1>1. OnConstraint(s, x, vs, lv) \in {all, one}
  BY DEF OnConstraint
<1>2. /\ VarOf(x) \in Variable /\ ViolationVar(vs) \in OtherVar /\ q \in Seq(Solvable)
      /\ \A c \in Solvable : SolvableVar(c) \in OtherVar
  BY Variables, OtherVars, AnswersTyped
<1>3. /\ "Constrains" \in ClauseKind \ {"Learnt", "Requires"}
      /\ "ConstrainsParent" \in ClauseKind \ {"Learnt", "Requires"}
  BY DEF ClauseKind
<1>4. Good(u, lv, ph)
  BY AddViolationGood
<1> HIDE DEF u
<1>5. Good(one, lv, ph)
  BY <1>2, <1>3, <1>4, BinaryConstraintGood
<1>6. Good(all, lv, ph)
  <2>1. DOMAIN q = 1 .. Len(q) /\ Len(q) \in Nat /\ \A i \in 1 .. Len(q) : q[i] \in Solvable
    BY <1>2
  <2> HIDE DEF q
  <2>2. all = Pairs!Loop(s, q, x, 0, Len(q))
    BY <2>1 DEF FoldLeft, MapThenFoldSet, Pairs!Loop, Pairs!Fix, PairwiseDef
  <2>3. Pairs!Rounds(s, q, x, 0, Len(q))
    BY DEF Pairs!Rounds, PairwiseDef, Pairs!Max, Max
  <2>4. \A t : \A c \in Solvable :
          Good(t, lv, ph) => Good(AddBinaryConstraint(t, "Constrains", VarOf(x), SolvableVar(c)), lv, ph)
    BY <1>2, <1>3, BinaryConstraintGood
  <2>5. Pairs!Keeps(s, q, x, 0, Len(q), lv, ph)
    BY <2>1, <2>4 DEF Pairs!Keeps, Kept, PairwiseDef, Pairs!Max, Max
  <2>6. Kept(lv, ph, 1 .. Len(q), Pairs!Loop(s, q, x, 0, Len(q)))
    BY <2>1, <2>3, <2>5, Pairs!FoldInduction, Tr!LeastNatural DEF Pairs!WellOrdered
  <2> QED BY <2>2, <2>6 DEF Kept
<1> QED BY <1>1, <1>5, <1>6

\* on_task_result keeps the state good.
LEMMA HandleGood ==
  ASSUME NEW ph, NEW s, NEW lv \in Nat \ {0}, Good(s, lv, ph), NEW p \in Problem, NEW task \in TaskType
  PROVE  Good(Handle(p, s, task, lv), lv, ph)
<1>1. CASE task \in [kind : {"Dependencies"}, who : Asker, what : {None}, fired : {<< >>}]
  <2>1. task.kind = "Dependencies" /\ task.who \in Asker
    BY <1>1
  <2>2. Handle(p, s, task, lv) = OnDependencies(p, s, task.who)
    BY <2>1 DEF Handle
  <2> QED BY <2>1, <2>2, OnDependenciesGood
<1>2. CASE task \in [kind : {"Candidates"}, who : {None}, what : Name, fired : {<< >>}]
  <2>1. task.kind = "Candidates" /\ task.what \in Name
    BY <1>2
  <2>2. Handle(p, s, task, lv) = OnCandidates(p, s, task.what)
    BY <2>1 DEF Handle
  <2> QED BY <2>1, <2>2, OnCandidatesGood
<1>3. CASE task \in [kind : {"ConditionData"}, who : Asker,
                     what : {r \in ConditionalRequirement : r.condition # NoCondition}, fired : {<< >>}]
  <2>1. /\ task.kind = "ConditionData" /\ task.who \in Asker
        /\ task.what \in ConditionalRequirement /\ task.what.condition # NoCondition
    BY <1>3
  <2>2. Handle(p, s, task, lv) = OnConditionData(s, task.who, task.what)
    BY <2>1 DEF Handle
  <2> QED BY <2>1, <2>2, OnConditionDataGood
<1>4. CASE task \in [kind : {"Requirement"}, who : Asker, what : Requirement, fired : Seq(Seq(VersionSet))]
  <2>1. /\ task.kind = "Requirement" /\ task.who \in Asker
        /\ task.what \in Requirement /\ task.fired \in Seq(Seq(VersionSet))
    BY <1>4
  <2>2. Handle(p, s, task, lv) = OnRequirement(p, s, task.who, task.what, task.fired, lv)
    BY <2>1 DEF Handle
  <2> QED BY <2>1, <2>2, OnRequirementGood
<1>5. CASE task \in [kind : {"Constraint"}, who : Asker, what : VersionSet, fired : {<< >>}]
  <2>1. task.kind = "Constraint" /\ task.who \in Asker /\ task.what \in VersionSet
    BY <1>5
  <2>2. Handle(p, s, task, lv) = OnConstraint(s, task.who, task.what, lv)
    BY <2>1 DEF Handle
  <2> QED BY <2>1, <2>2, OnConstraintGood
<1> QED BY <1>1, <1>2, <1>3, <1>4, <1>5 DEF TaskType

----------------------------------------------------------------------------
(* add_pending_forbid_clauses                                               *)

\* One clause of the at-most-one encoding keeps the state good.
LEMMA ForbidClauseGood ==
  ASSUME NEW ph, NEW s, NEW lv \in Nat \ {0}, Good(s, lv, ph), NEW v \in OtherVar, NEW b \in Literal,
         b.variable \in OtherVar
  PROVE  Good(AddForbidClause(s, v, b, lv), lv, ph)
<1> DEFINE a == Neg(v)
           kind == "ForbidMultipleInstances"
           id == NewClause(s)
           added == AddClause(s, kind, <<a, b>>, <<a, b>>)
           map == Map(s)
<1>1. a \in Literal /\ a.variable = v
  BY OtherVars, LiteralParts
<1>2. kind \in ClauseKind \ {"Learnt", "Requires"}
  BY DEF ClauseKind
<1>3. \/ AddForbidClause(s, v, b, lv) = added
      \/ AddForbidClause(s, v, b, lv) = Report(added, id) /\ LitFalse(map, a)
      \/ AddForbidClause(s, v, b, lv) = Assign(added, Satisfy(b, id), lv) /\ LitFalse(map, a)
      \/ AddForbidClause(s, v, b, lv) = Assign(added, Satisfy(a, id), lv) /\ LitFalse(map, b)
  BY DEF AddForbidClause
<1>d. LitFalse(map, a) \/ LitFalse(map, b) => ph # "root"
  BY <1>1, OtherDecided
<1> HIDE DEF a, kind
<1>4. AddsBinary(s, added, lv, ph, a, b)
  BY <1>1, <1>2, AddBinary
<1> HIDE DEF added
<1>5. /\ Good(added, lv, ph) /\ id \in DOMAIN added.clauses /\ ToSet(added.clauses[id].lits) = {a, b}
      /\ Map(added) = map
  BY <1>4 DEF AddsBinary, Map
<1> HIDE DEF id, map
<1>6. LitFalse(map, a) => Good(Report(added, id), lv, ph)
  BY <1>d, <1>5, GoodReport
<1>7. LitFalse(map, a) => Good(Assign(added, Satisfy(b, id), lv), lv, ph)
  <2>1. b \in ToSet(added.clauses[id].lits)
    BY <1>5
  <2>2. LitFalse(map, a) => \A m \in ToSet(added.clauses[id].lits) : m = b \/ LitFalse(Map(added), m)
    BY <1>5
  <2> QED BY <1>d, <1>5, <2>1, <2>2, AssignGood
<1>8. LitFalse(map, b) => Good(Assign(added, Satisfy(a, id), lv), lv, ph)
  <2>1. a \in ToSet(added.clauses[id].lits)
    BY <1>5
  <2>2. LitFalse(map, b) => \A m \in ToSet(added.clauses[id].lits) : m = a \/ LitFalse(Map(added), m)
    BY <1>5
  <2> QED BY <1>d, <1>1, <1>5, <2>1, <2>2, AssignGood
<1> QED BY <1>3, <1>5, <1>6, <1>7, <1>8

\* The literals of every variable but the root's.
OtherLit == {l \in Literal : l.variable \in OtherVar}

\* The loop over the clauses of one variable of an at-most-one tracker.
ForbidDef(s, q, level, d, f, S) ==
  IF S = {} THEN s ELSE AddForbidClause(f[S \ {Max(S)}], q[Max(S)][1], q[Max(S)][2], level)
Forbids == INSTANCE Recursion WITH Def <- ForbidDef, P <- Kept

\* These clauses keep the state good.
LEMMA ForbidsGood ==
  ASSUME NEW ph, NEW s, NEW lv \in Nat \ {0}, Good(s, lv, ph), NEW q, DOMAIN q = 1 .. Len(q), Len(q) \in Nat,
         \A i \in 1 .. Len(q) : q[i][1] \in OtherVar /\ q[i][2] \in OtherLit
  PROVE  Good(Forbids!Loop(s, q, lv, 0, Len(q)), lv, ph)
<1>1. Forbids!Rounds(s, q, lv, 0, Len(q))
  BY DEF Forbids!Rounds, ForbidDef, Forbids!Max, Max
<1>2. Forbids!Keeps(s, q, lv, 0, Len(q), lv, ph)
  BY ForbidClauseGood DEF OtherLit, Forbids!Keeps, Kept, ForbidDef, Forbids!Max, Max
<1>3. Kept(lv, ph, 1 .. Len(q), Forbids!Loop(s, q, lv, 0, Len(q)))
  BY <1>1, <1>2, Forbids!FoldInduction, Tr!LeastNatural DEF Forbids!WellOrdered
<1> QED BY <1>3 DEF Kept

\* Distinct variables of candidates of a package are no more than its candidates.
LEMMA DistinctCandidates ==
  ASSUME NEW n \in Name, NEW q \in Seq(CandidateVars(n)), IsInjective(q)
  PROVE  Len(q) <= Len(Candidates[n])
<1> DEFINE cs == Candidates[n]
           g == [i \in 1 .. Len(cs) |-> SolvableVar(cs[i])]
<1>1. cs \in Seq(Solvable)
  BY AnswersTyped
<1>2. Len(cs) \in Nat /\ DOMAIN cs = 1 .. Len(cs) /\ Len(q) \in Nat /\ DOMAIN q = 1 .. Len(q)
  BY <1>1
<1>3. CandidateVars(n) = {SolvableVar(cs[i]) : i \in 1 .. Len(cs)}
  <2>1. ToSet(cs) = {cs[i] : i \in DOMAIN cs}
    BY <1>1, ToSetType DEF ToSet
  <2> QED BY <1>2, <2>1 DEF CandidateVars
<1>4. g \in Surjection(1 .. Len(cs), CandidateVars(n))
  BY <1>3 DEF Surjection
<1>5. q \in Injection(1 .. Len(q), CandidateVars(n))
  BY <1>2 DEF Injection
<1> HIDE DEF g, cs
<1>6. /\ IsFiniteSet(1 .. Len(cs)) /\ Cardinality(1 .. Len(cs)) = Len(cs)
      /\ Cardinality(1 .. Len(q)) = Len(q)
  <2>0. ASSUME NEW k \in Int
        PROVE  IsFiniteSet(1 .. k) /\ Cardinality(1 .. k) = IF 1 > k THEN 0 ELSE k - 1 + 1
    <3>1. 1 \in Int
      OBVIOUS
    <3> QED BY <3>1, FS_Interval, Zenon
  <2>1. \A k \in Nat : IsFiniteSet(1 .. k) /\ Cardinality(1 .. k) = k
    BY <2>0
  <2> QED BY <1>2, <2>1
<1>7. IsFiniteSet(CandidateVars(n)) /\ Cardinality(CandidateVars(n)) <= Len(cs)
  BY <1>4, <1>6, FS_Surjection
<1>8. Len(q) <= Cardinality(CandidateVars(n))
  BY <1>5, <1>6, <1>7, FS_Injection
<1>9. Cardinality(CandidateVars(n)) \in Nat
  BY <1>7, FS_CardinalityType
<1> QED BY <1>2, <1>7, <1>8, <1>9 DEF cs

\* Only the at-most-one tracker of a package changes.
LEMMA GoodTracker ==
  ASSUME NEW ph, NEW s, NEW lv, Good(s, lv, ph), NEW n \in Name, NEW tr \in TrackerType, TrackerOK(n, tr)
  PROVE  Good([s EXCEPT !.at_most_one_trackers[n] = tr], lv, ph)
<1> DEFINE m == s.at_most_one_trackers
           r == [m EXCEPT ![n] = tr]
           t == [s EXCEPT !.at_most_one_trackers = r]
<1>1. Shape(s) /\ TrackersOK(m)
  BY DEF Good, Core, Queues
<1>2. r \in [Name -> TrackerType] /\ r[n] = tr /\ \A k \in Name : k # n => r[k] = m[k]
  BY <1>1 DEF TrackersOK
<1>3. TrackersOK(r)
  <2> HIDE DEF r, m
  <2> QED BY <1>1, <1>2 DEF TrackersOK
<1> HIDE DEF r
<1>4. /\ Shape(t) /\ SameCore(s, t) /\ t.at_most_one_trackers = r /\ t.tasks = s.tasks
      /\ t.gates = s.gates /\ t.deferred_requirements = s.deferred_requirements
      /\ t.pending_forbid_clauses = s.pending_forbid_clauses
      /\ t.new_at_least_one_packages = s.new_at_least_one_packages
  BY <1>1 DEF Shape, SameCore, SameLists
<1> HIDE DEF t
<1>5. Queues(t)
  BY <1>3, <1>4 DEF Good, Queues
<1>6. Good(t, lv, ph)
  BY <1>4, <1>5, GoodFrame
<1> QED BY <1>6 DEF t, r, m

\* AtMostOnceTracker::add keeps the state good: the helpers are variables there are.
LEMMA AddToTrackerGood ==
  ASSUME NEW ph, NEW s, NEW lv \in Nat \ {0}, Good(s, lv, ph), NEW n \in Name, NEW v \in CandidateVars(n)
  PROVE  Good(AddToTracker(s, n, v, lv), lv, ph)
<1> DEFINE tracker == s.at_most_one_trackers[n]
           vs == tracker.variables
           count == Len(vs)
           fresh == IF count > 2^tracker.helpers - 1 THEN 1 ELSE 0
           helpers == tracker.helpers + fresh
           older == IF fresh = 0 THEN << >>
                    ELSE [i \in 1 .. count |-> <<vs[i], BitLiteral(n, i - 1, helpers - 1)>>]
           own == [bit \in 1 .. helpers |-> <<v, BitLiteral(n, count, bit - 1)>>]
           q == older \o own
           next == Append(vs, v)
           tr(h) == [variables |-> next, helpers |-> h]
           Tracked(h) == [s EXCEPT !.at_most_one_trackers[n] = tr(h)]
           Add(t, pair) == AddForbidClause(t, pair[1], pair[2], lv)
<1>1. AddToTracker(s, n, v, lv) =
        IF v \in ToSet(vs) THEN s
        ELSE IF count = 0 THEN Tracked(0) ELSE FoldLeft(Add, Tracked(helpers), q)
  BY DEF AddToTracker
<1> SUFFICES ASSUME v \notin ToSet(vs) PROVE Good(AddToTracker(s, n, v, lv), lv, ph)
  BY <1>1
<1>2. TrackersOK(s.at_most_one_trackers)
  BY DEF Good, Queues
<1>3. tracker \in TrackerType /\ TrackerOK(n, tracker)
  BY <1>2 DEF TrackersOK
<1> HIDE DEF tracker
<1>4. /\ vs \in Seq(CandidateVars(n)) /\ IsInjective(vs) /\ tracker.helpers \in Nat
      /\ tracker.helpers = 0 \/ tracker.helpers < count
  BY <1>3 DEF TrackerOK, TrackerType
<1> HIDE DEF vs
<1>5. count \in Nat /\ DOMAIN vs = 1 .. count /\ CandidateVars(n) \subseteq Variable
      /\ v \in OtherVar /\ \A i \in 1 .. count : vs[i] \in OtherVar
  BY <1>4, OtherVars
<1>6. next \in Seq(CandidateVars(n)) /\ Len(next) = count + 1 /\ next \in Seq(Variable)
      /\ next[count + 1] = v /\ (\A i \in 1 .. count : next[i] = vs[i]) /\ DOMAIN next = 1 .. count + 1
  <2>1. next \in Seq(CandidateVars(n))
    BY <1>4, AppendSet
  <2>2. next \in Seq(Variable)
    <3> HIDE DEF next, CandidateVars
    <3> QED BY <1>5, <2>1
  <2> QED BY <1>4, <2>1, <2>2
<1> HIDE DEF next
<1>7. IsInjective(next)
  <2> SUFFICES ASSUME NEW i \in 1 .. count + 1, NEW j \in 1 .. count + 1, next[i] = next[j] PROVE i = j
    BY <1>6 DEF IsInjective
  <2>1. \A k \in 1 .. count : vs[k] # v
    BY <1>4, <1>5, ToSetType DEF ToSet
  <2>2. \A k \in 1 .. count + 1 : k \in 1 .. count \/ k = count + 1
    BY <1>5
  <2> QED BY <1>4, <1>5, <1>6, <2>1, <2>2 DEF IsInjective
<1>8. count + 1 <= Len(Candidates[n])
  BY <1>6, <1>7, DistinctCandidates
<1>9. fresh \in {0, 1} /\ helpers \in Nat /\ (count # 0 => helpers <= count)
  BY <1>4, <1>5
<1>10. \A h \in Nat : (h = 0 \/ h <= count) => tr(h) \in TrackerType /\ TrackerOK(n, tr(h))
  BY <1>5, <1>6, <1>7 DEF TrackerType, TrackerOK
<1> HIDE DEF tr
<1>11. Good(Tracked(0), lv, ph)
  BY <1>10, GoodTracker
<1> HIDE DEF fresh
<1>12. CASE count # 0
  <2>1. Good(Tracked(helpers), lv, ph)
    BY <1>9, <1>10, <1>12, GoodTracker
  <2>2. \A index : \A bit \in 0 .. helpers - 1 : BitLiteral(n, index, bit) \in OtherLit
    <3>1. \A bit \in 0 .. helpers - 1 : bit \in 0 .. Len(Candidates[n]) - 2
      <4>1. Len(Candidates[n]) \in Nat
        BY AnswersTyped
      <4> QED BY <1>5, <1>8, <1>9, <1>12, <4>1
    <3>2. \A bit \in 0 .. helpers - 1 : ForbidVar(n, bit) \in OtherVar /\ ForbidVar(n, bit) \in Variable
      BY <3>1, OtherVars
    <3> QED BY <3>2, LiteralParts DEF BitLiteral, OtherLit
  <2>3. own \in Seq(OtherVar \X OtherLit) /\ older \in Seq(OtherVar \X OtherLit)
    <3>1. \A bit \in 1 .. helpers : <<v, BitLiteral(n, count, bit - 1)>> \in OtherVar \X OtherLit
      BY <1>5, <1>9, <2>2
    <3>2. fresh # 0 => \A i \in 1 .. count : <<vs[i], BitLiteral(n, i - 1, helpers - 1)>> \in OtherVar \X OtherLit
      <4>1. fresh # 0 => helpers - 1 \in 0 .. helpers - 1
        BY <1>4, <1>9
      <4> QED BY <1>5, <2>2, <4>1
    <3> HIDE DEF helpers
    <3> QED BY <1>5, <1>9, <3>1, <3>2
  <2> HIDE DEF own, older
  <2>4. q \in Seq(OtherVar \X OtherLit)
    BY <2>3
  <2> HIDE DEF q
  <2>5. /\ DOMAIN q = 1 .. Len(q) /\ Len(q) \in Nat
        /\ \A i \in 1 .. Len(q) : q[i][1] \in OtherVar /\ q[i][2] \in OtherLit
    BY <2>4
  <2> DEFINE u == Tracked(helpers)
  <2>u. Good(u, lv, ph)
    BY <2>1
  <2>e. AddToTracker(s, n, v, lv) = FoldLeft(Add, u, q)
    BY <1>1, <1>12 DEF q, own, older, fresh, tr, next, vs, tracker
  <2> HIDE DEF u
  <2>6. FoldLeft(Add, u, q) = Forbids!Loop(u, q, lv, 0, Len(q))
    BY <2>5 DEF FoldLeft, MapThenFoldSet, Forbids!Loop, Forbids!Fix, ForbidDef
  <2>7. Good(Forbids!Loop(u, q, lv, 0, Len(q)), lv, ph)
    BY <2>u, <2>5, ForbidsGood
  <2> QED BY <2>e, <2>6, <2>7
<1>13. CASE count = 0
  <2>1. AddToTracker(s, n, v, lv) = Tracked(0)
    BY <1>1, <1>13 DEF tr, next, vs, tracker
  <2> QED BY <1>11, <2>1
<1> QED BY <1>12, <1>13

\* The clause that lets a candidate imply the at-least-one variable of its package
\* keeps the state good.
LEMMA SelectedGood ==
  ASSUME NEW ph, NEW s, NEW lv, Good(s, lv, ph), NEW n \in Name, NEW v \in Variable
  PROVE  AddsBinary(s, AddSelectedClause(s, n, v), lv, ph, Pos(AtLeastOneVar(n)), Neg(v))
<1> DEFINE a == Pos(AtLeastOneVar(n))
           b == Neg(v)
           kind == "AnyOf"
<1>1. a \in Literal /\ b \in Literal
  BY LiteralParts, Variables
<1>2. kind \in ClauseKind \ {"Learnt", "Requires"}
  BY DEF ClauseKind
<1>3. AddSelectedClause(s, n, v) = AddClause(s, kind, <<a, b>>, <<a, b>>)
  BY DEF AddSelectedClause
<1> HIDE DEF a, b, kind
<1>4. AddsBinary(s, AddClause(s, kind, <<a, b>>, <<a, b>>), lv, ph, a, b)
  BY <1>1, <1>2, AddBinary
<1> QED BY <1>3, <1>4 DEF a, b

\* One variable that waits for its at-most-one clauses, and the loop over those of
\* a package.
Forbidding(u, n, v, level) ==
  IF n \in u.at_least_one_tracker /\ v \notin ToSet(u.at_most_one_trackers[n].variables)
  THEN AddSelectedClause(AddToTracker(u, n, v, level), n, v) ELSE AddToTracker(u, n, v, level)
ForbiddingDef(s, q, n, level, f, S) ==
  IF S = {} THEN s ELSE Forbidding(f[S \ {Max(S)}], n, q[Max(S)], level)
ForbidAll == INSTANCE Recursion WITH Def <- ForbiddingDef, P <- Kept

\* The at-most-one clauses of one package keep the state good.
LEMMA ForbidAllGood ==
  ASSUME NEW ph, NEW s, NEW lv \in Nat \ {0}, Good(s, lv, ph), NEW n \in Name, NEW q \in Seq(CandidateVars(n))
  PROVE  Good(ForbidAll!Loop(s, q, n, lv, Len(q)), lv, ph)
<1>1. /\ DOMAIN q = 1 .. Len(q) /\ Len(q) \in Nat /\ \A i \in 1 .. Len(q) : q[i] \in CandidateVars(n)
  OBVIOUS
<1>2. ASSUME NEW u, Good(u, lv, ph), NEW v \in CandidateVars(n) PROVE Good(Forbidding(u, n, v, lv), lv, ph)
  <2> DEFINE t == AddToTracker(u, n, v, lv)
  <2>1. Good(t, lv, ph)
    BY <1>2, AddToTrackerGood
  <2> HIDE DEF t
  <2>2. v \in Variable
    BY Variables
  <2>3. Good(AddSelectedClause(t, n, v), lv, ph)
    BY <2>1, <2>2, SelectedGood DEF AddsBinary
  <2> QED BY <2>1, <2>3 DEF Forbidding, t
<1>3. ForbidAll!Rounds(s, q, n, lv, Len(q))
  BY DEF ForbidAll!Rounds, ForbiddingDef, ForbidAll!Max, Max
<1>4. ForbidAll!Keeps(s, q, n, lv, Len(q), lv, ph)
  BY <1>1, <1>2 DEF ForbidAll!Keeps, Kept, ForbiddingDef, ForbidAll!Max, Max
<1>5. Kept(lv, ph, 1 .. Len(q), ForbidAll!Loop(s, q, n, lv, Len(q)))
  BY <1>1, <1>3, <1>4, ForbidAll!FoldInduction, Tr!LeastNatural DEF ForbidAll!WellOrdered
<1> QED BY <1>5 DEF Kept

\* What is added for the variables of one package, and the loop over the packages.
PackageForbidden(t, entry, level) ==
  LET n == entry[1]
      Add(u, v) ==
        LET tracked == AddToTracker(u, n, v, level)
        IN IF n \in u.at_least_one_tracker
              /\ v \notin ToSet(u.at_most_one_trackers[n].variables)
           THEN AddSelectedClause(tracked, n, v) ELSE tracked
  IN FoldLeft(Add, t, entry[2])
PendingDef(s, q, level, d, f, S) ==
  IF S = {} THEN s ELSE PackageForbidden(f[S \ {Max(S)}], q[Max(S)], level)
PendingAll == INSTANCE Recursion WITH Def <- PendingDef, P <- Kept

\* add_pending_forbid_clauses keeps the state good.
LEMMA PendingForbidGood ==
  ASSUME NEW ph, NEW s, NEW lv \in Nat \ {0}, Good(s, lv, ph)
  PROVE  Good(AddPendingForbidClauses(s, lv), lv, ph)
<1> DEFINE q == s.pending_forbid_clauses
           r == PendingAll!Loop(s, q, lv, 0, Len(q))
           none == << >>
<1>1. q \in Seq(PendingType)
  BY DEF Good, Queues
<1>2. /\ DOMAIN q = 1 .. Len(q) /\ Len(q) \in Nat /\ \A i \in 1 .. Len(q) : q[i] \in PendingType
  BY <1>1
<1>3. AddPendingForbidClauses(s, lv) = [r EXCEPT !.pending_forbid_clauses = none]
  BY <1>2 DEF AddPendingForbidClauses, PackageForbidden, FoldLeft, MapThenFoldSet, PendingAll!Loop,
              PendingAll!Fix, PendingDef
<1> HIDE DEF q
<1>4. ASSUME NEW e \in PendingType, NEW t, Good(t, lv, ph)
      PROVE  Good(PackageForbidden(t, e, lv), lv, ph)
  <2>1. e[1] \in Name /\ e[2] \in Seq(CandidateVars(e[1]))
    BY PendingPairs
  <2>2. DOMAIN (e[2]) = 1 .. Len(e[2])
    BY <2>1
  <2>3. PackageForbidden(t, e, lv) = ForbidAll!Loop(t, e[2], e[1], lv, Len(e[2]))
    BY <2>2 DEF PackageForbidden, FoldLeft, MapThenFoldSet, ForbidAll!Loop, ForbidAll!Fix, ForbiddingDef, Forbidding
  <2> QED BY <1>4, <2>1, <2>3, ForbidAllGood
<1>5. PendingAll!Rounds(s, q, lv, 0, Len(q))
  BY DEF PendingAll!Rounds, PendingDef, PendingAll!Max, Max
<1>6. PendingAll!Keeps(s, q, lv, 0, Len(q), lv, ph)
  BY <1>2, <1>4 DEF PendingAll!Keeps, Kept, PendingDef, PendingAll!Max, Max
<1>7. Kept(lv, ph, 1 .. Len(q), r)
  BY <1>2, <1>5, <1>6, PendingAll!FoldInduction, Tr!LeastNatural DEF PendingAll!WellOrdered
<1>8. Good(r, lv, ph) /\ none \in Seq(PendingType)
  BY <1>7 DEF Kept
<1> HIDE DEF r, none
<1>9. Good([r EXCEPT !.pending_forbid_clauses = none], lv, ph)
  BY <1>8, GoodPending
<1> QED BY <1>3, <1>9

----------------------------------------------------------------------------
(* add_pending_at_least_one_clauses                                         *)

\* One variable of a package with an at-least-one variable, and the loop over them.
Selecting(u, n, v, level) ==
  LET added == AddSelectedClause(u, n, v)
  IN IF IsTrue(Map(u), v)
     THEN Assign(added, Satisfy(Pos(AtLeastOneVar(n)), NewClause(u)), level)
     ELSE added
SelectingDef(s, q, n, level, f, S) ==
  IF S = {} THEN s ELSE Selecting(f[S \ {Max(S)}], n, q[Max(S)], level)
SelectAll == INSTANCE Recursion WITH Def <- SelectingDef, P <- Kept

\* The at-least-one clauses of one package keep the state good.
LEMMA SelectAllGood ==
  ASSUME NEW ph, NEW s, NEW lv \in Nat \ {0}, Good(s, lv, ph), NEW n \in Name, NEW q \in Seq(OtherVar)
  PROVE  Good(SelectAll!Loop(s, q, n, lv, Len(q)), lv, ph)
<1>1. /\ DOMAIN q = 1 .. Len(q) /\ Len(q) \in Nat /\ \A i \in 1 .. Len(q) : q[i] \in OtherVar
  OBVIOUS
<1>2. ASSUME NEW u, Good(u, lv, ph), NEW v \in OtherVar PROVE Good(Selecting(u, n, v, lv), lv, ph)
  <2> DEFINE a == Pos(AtLeastOneVar(n))
             b == Neg(v)
             id == NewClause(u)
             added == AddSelectedClause(u, n, v)
  <2>1. AddsBinary(u, added, lv, ph, a, b)
    BY <1>2, OtherVars, SelectedGood
  <2>2. Selecting(u, n, v, lv) = IF IsTrue(Map(u), v) THEN Assign(added, Satisfy(a, id), lv) ELSE added
    BY DEF Selecting
  <2>3. a \in Literal /\ (IsTrue(Map(u), v) => LitFalse(Map(u), b) /\ ph # "root")
    BY <1>2, LiteralParts, Variables, FalseLiterals, OtherDecided
  <2> HIDE DEF added, a, b
  <2>4. /\ Good(added, lv, ph) /\ id \in DOMAIN added.clauses /\ ToSet(added.clauses[id].lits) = {a, b}
        /\ Map(added) = Map(u)
    BY <2>1 DEF AddsBinary, Map
  <2> HIDE DEF id
  <2>5. IsTrue(Map(u), v) => Good(Assign(added, Satisfy(a, id), lv), lv, ph)
    <3>1. a \in ToSet(added.clauses[id].lits)
      BY <2>4
    <3>2. IsTrue(Map(u), v) => \A m \in ToSet(added.clauses[id].lits) : m = a \/ LitFalse(Map(added), m)
      BY <2>3, <2>4
    <3> QED BY <2>3, <2>4, <3>1, <3>2, AssignGood
  <2> QED BY <2>2, <2>4, <2>5
<1>3. SelectAll!Rounds(s, q, n, lv, Len(q))
  BY DEF SelectAll!Rounds, SelectingDef, SelectAll!Max, Max
<1>4. SelectAll!Keeps(s, q, n, lv, Len(q), lv, ph)
  BY <1>1, <1>2 DEF SelectAll!Keeps, Kept, SelectingDef, SelectAll!Max, Max
<1>5. Kept(lv, ph, 1 .. Len(q), SelectAll!Loop(s, q, n, lv, Len(q)))
  BY <1>1, <1>3, <1>4, SelectAll!FoldInduction, Tr!LeastNatural DEF SelectAll!WellOrdered
<1> QED BY <1>5 DEF Kept

\* What is added for one package, and the loop over the packages.
PackageSelected(t, n, level) ==
  LET Add(u, v) ==
        LET added == AddSelectedClause(u, n, v)
        IN IF IsTrue(Map(u), v)
           THEN Assign(added, Satisfy(Pos(AtLeastOneVar(n)), NewClause(u)), level)
           ELSE added
  IN [FoldLeft(Add, t, t.at_most_one_trackers[n].variables)
        EXCEPT !.at_least_one_tracker = @ \cup {n}]
NewPackagesDef(s, q, level, d, f, S) ==
  IF S = {} THEN s ELSE PackageSelected(f[S \ {Max(S)}], q[Max(S)], level)
NewPackages == INSTANCE Recursion WITH Def <- NewPackagesDef, P <- Kept

\* add_pending_at_least_one_clauses keeps the state good.
LEMMA PendingAtLeastOneGood ==
  ASSUME NEW ph, NEW s, NEW lv \in Nat \ {0}, Good(s, lv, ph)
  PROVE  Good(AddPendingAtLeastOneClauses(s, lv), lv, ph)
<1> DEFINE q == s.new_at_least_one_packages
           r == NewPackages!Loop(s, q, lv, 0, Len(q))
           none == << >>
           t == [r EXCEPT !.new_at_least_one_packages = none]
<1>1. q \in Seq(Name)
  BY DEF Good, Queues
<1>2. /\ DOMAIN q = 1 .. Len(q) /\ Len(q) \in Nat /\ \A i \in 1 .. Len(q) : q[i] \in Name
  BY <1>1
<1>3. AddPendingAtLeastOneClauses(s, lv) = t
  BY <1>2 DEF AddPendingAtLeastOneClauses, PackageSelected, FoldLeft, MapThenFoldSet, NewPackages!Loop,
              NewPackages!Fix, NewPackagesDef
<1> HIDE DEF q
<1>4. ASSUME NEW n \in Name, NEW u, Good(u, lv, ph)
      PROVE  Good(PackageSelected(u, n, lv), lv, ph)
  <2> DEFINE vs == u.at_most_one_trackers[n].variables
             w == SelectAll!Loop(u, vs, n, lv, Len(vs))
             x == [w EXCEPT !.at_least_one_tracker = @ \cup {n}]
  <2>1. TrackersOK(u.at_most_one_trackers)
    BY <1>4 DEF Good, Queues
  <2>2. u.at_most_one_trackers[n] \in TrackerType
    BY <2>1 DEF TrackersOK
  <2>3. vs \in Seq(OtherVar)
    <3>1. vs \in Seq(CandidateVars(n)) /\ CandidateVars(n) \subseteq OtherVar
      BY <2>1, OtherVars DEF TrackersOK, TrackerOK
    <3> HIDE DEF vs, CandidateVars
    <3> QED BY <3>1
  <2>4. DOMAIN vs = 1 .. Len(vs)
    BY <2>3
  <2>5. PackageSelected(u, n, lv) = x
    BY <2>4 DEF PackageSelected, FoldLeft, MapThenFoldSet, SelectAll!Loop, SelectAll!Fix, SelectingDef, Selecting
  <2> HIDE DEF vs
  <2>6. Good(w, lv, ph)
    BY <1>4, <2>3, SelectAllGood
  <2> HIDE DEF w
  <2>7. Shape(w)
    BY <2>6 DEF Good, Core
  <2>8. Shape(x) /\ SameCore(w, x) /\ SameQueues(w, x)
    BY <2>7 DEF Shape, SameCore, SameLists, SameQueues
  <2> HIDE DEF x
  <2>9. Queues(x)
    BY <2>6, <2>8 DEF Good, Queues, SameQueues
  <2> QED BY <2>5, <2>6, <2>8, <2>9, GoodFrame
<1>5. NewPackages!Rounds(s, q, lv, 0, Len(q))
  BY DEF NewPackages!Rounds, NewPackagesDef, NewPackages!Max, Max
<1>6. NewPackages!Keeps(s, q, lv, 0, Len(q), lv, ph)
  BY <1>2, <1>4 DEF NewPackages!Keeps, Kept, NewPackagesDef, NewPackages!Max, Max
<1>7. Kept(lv, ph, 1 .. Len(q), r)
  BY <1>2, <1>5, <1>6, NewPackages!FoldInduction, Tr!LeastNatural DEF NewPackages!WellOrdered
<1>8. Good(r, lv, ph) /\ none \in Seq(Name)
  BY <1>7 DEF Kept
<1> HIDE DEF r, none
<1>9. Shape(r)
  BY <1>8 DEF Good, Core
<1>10. /\ Shape(t) /\ SameCore(r, t) /\ t.new_at_least_one_packages = none /\ t.tasks = r.tasks
       /\ t.gates = r.gates /\ t.deferred_requirements = r.deferred_requirements
       /\ t.at_most_one_trackers = r.at_most_one_trackers
       /\ t.pending_forbid_clauses = r.pending_forbid_clauses
  BY <1>9 DEF Shape, SameCore, SameLists
<1> HIDE DEF t
<1>11. Queues(t)
  BY <1>8, <1>10 DEF Good, Queues
<1>12. Good(t, lv, ph)
  BY <1>8, <1>10, <1>11, GoodFrame
<1> QED BY <1>3, <1>12

----------------------------------------------------------------------------
(* The trail                                                                *)

\* Only the trail changes.
LEMMA GoodTrail ==
  ASSUME NEW s, NEW t, NEW lv, NEW k, Good(s, lv, "any"), Shape(t), SameLists(s, t), SameQueues(s, t),
         t.clauses = s.clauses, t.watches = s.watches,
         TrailOK(t.decision_tracker, s.clauses, k)
  PROVE  Good(t, k, "any")
<1>1. ListsOK(t)
  BY DEF Good, Core, SameLists, ListsOK
<1>2. Core(t, k)
  BY <1>1 DEF Good, Core
<1>3. Queues(t)
  BY DEF Good, Queues, SameQueues
<1> QED BY <1>2, <1>3 DEF Good

\* What the trail of a good state is.
LEMMA GoodTracks ==
  ASSUME NEW s, NEW lv, Good(s, lv, "any")
  PROVE  /\ s.decision_tracker \in Tracker /\ Consistent(s.decision_tracker)
         /\ Explained(s.decision_tracker, s.clauses) /\ TopLevel(s.decision_tracker) <= lv
         /\ Bottom(s.decision_tracker, lv) /\ Shape(s) /\ s.clauses \in Seq(ClauseType)
  BY DEF Good, Core, TrailOK, ClausesOK

\* The first entry of a trail that is not empty is decided at level 1.
LEMMA BottomEntry ==
  ASSUME NEW x \in Tracker, Consistent(x), NEW lv, Bottom(x, lv), lv # 0
  PROVE  /\ x.stack # << >> /\ 1 \in 1 .. Len(x.stack) /\ Len(x.stack) \in Nat \ {0}
         /\ LevelOf(x.map, x.stack[1].variable) = 1 /\ x.map[x.stack[1].variable] # 0
         /\ x.stack[1].variable \in Variable
<1>1. x.stack # << >> /\ LevelOf(x.map, x.stack[1].variable) = 1
  BY DEF Bottom
<1>2. x.stack \in Seq(Decision) /\ Len(x.stack) \in Nat
      /\ \A i \in 1 .. Len(x.stack) : x.stack[i].variable \in Variable
  BY TrailEntries
<1>3. 1 \in 1 .. Len(x.stack)
  BY <1>1, <1>2
<1>4. x.map[x.stack[1].variable] # 0
  BY <1>3 DEF Consistent, IsUndecided
<1> QED BY <1>1, <1>2, <1>3, <1>4

\* undo_until does not panic and leaves a good state.
LEMMA UndoGood ==
  ASSUME NEW s, NEW lv \in Nat \ {0}, Good(s, lv, "any"), NEW k \in Nat
  PROVE  LET t == UndoTo(s, k) IN
         /\ Good(t, k, "any") /\ t.decision_tracker = UndoUntil(s.decision_tracker, k)
         /\ t.clauses = s.clauses /\ t.panicked = s.panicked
<1> DEFINE x == s.decision_tracker
           y == UndoUntil(x, k)
           t == UndoTo(s, k)
<1>1. /\ x \in Tracker /\ Consistent(x) /\ Explained(x, s.clauses) /\ Bottom(x, lv) /\ Shape(s)
  BY GoodTracks
<1>2. /\ x.stack # << >> /\ 1 \in 1 .. Len(x.stack) /\ LevelOf(x.map, x.stack[1].variable) = 1
      /\ x.stack[1].variable \in Variable /\ x.map[x.stack[1].variable] # 0
  BY <1>1, BottomEntry
<1>3. ~UndoUntilPanics(x, k)
  <2>1. \A i \in KeptLength(x, k)+1 .. Len(x.stack) : LevelOf(x.map, x.stack[i].variable) > k
    BY <1>1, SameTracker, Tr!KeptLengthExists
  <2>2. KeptLength(x, k) = 0 => k = 0
    <3> SUFFICES ASSUME KeptLength(x, k) = 0 PROVE k = 0
      OBVIOUS
    <3>1. 1 \in KeptLength(x, k) + 1 .. Len(x.stack)
      BY <1>2
    <3> QED BY <1>2, <2>1, <3>1
  <2> QED BY <2>2 DEF UndoUntilPanics
<1>4. t = [s EXCEPT !.decision_tracker = y]
  BY <1>3 DEF UndoTo
<1>5. /\ y \in Tracker /\ Consistent(y) /\ Len(y.stack) <= Len(x.stack)
      /\ \A i \in 1 .. Len(y.stack) : y.stack[i] = x.stack[i]
      /\ \A v \in Variable : y.map[v] \in {0, x.map[v]}
      /\ \A v \in Variable : LevelOf(x.map, v) <= k => y.map[v] = x.map[v]
      /\ TopLevel(y) <= k
  BY <1>1, UndoTrail
<1>6. Bottom(y, k)
  <2>1. CASE k = 0
    <3>1. y.stack = << >>
      BY <2>1 DEF UndoUntil, Clear
    <3> QED BY <2>1, <3>1 DEF Bottom
  <2>2. CASE k # 0
    <3>1. y.map[x.stack[1].variable] = x.map[x.stack[1].variable]
      BY <1>2, <1>5, <2>2
    <3> HIDE DEF y
    <3>2. PICK i \in 1 .. Len(y.stack) : TRUE
      BY <1>2, <1>5, <3>1 DEF Consistent, IsUndecided
    <3>3. 1 \in 1 .. Len(y.stack) /\ y.stack # << >>
      <4>1. Len(y.stack) \in Nat /\ y.stack \in Seq(Decision)
        BY <1>5, TrailEntries
      <4> QED BY <3>2, <4>1
    <3>4. y.stack[1] = x.stack[1] /\ IsRoot(x.stack[1])
      BY <1>1, <1>2, <1>5, <3>3 DEF Bottom
    <3>5. LevelOf(y.map, x.stack[1].variable) = 1
      BY <1>2, <3>1 DEF LevelOf
    <3> QED BY <3>3, <3>4, <3>5 DEF Bottom
  <2> QED BY <2>1, <2>2
<1> HIDE DEF t, y
<1>7. /\ Shape(t) /\ SameLists(s, t) /\ SameQueues(s, t) /\ t.clauses = s.clauses
      /\ t.watches = s.watches /\ t.decision_tracker = y /\ t.panicked = s.panicked
  BY <1>1, <1>4 DEF Shape, SameLists, SameQueues
<1>8. Explained(y, s.clauses)
  BY <1>1, <1>5, ExplainedPrefix
<1>9. TrailOK(y, s.clauses, k)
  BY <1>5, <1>6, <1>8 DEF TrailOK
<1>10. Good(t, k, "any")
  BY <1>7, <1>9, GoodTrail
<1> QED BY <1>7, <1>10 DEF t, y

\* A trail with the same entries is as good.
LEMMA SameEntries ==
  ASSUME NEW x \in Tracker, NEW y \in Tracker, y.stack = x.stack, y.map = x.map, NEW K, NEW lv,
         TrailOK(x, K, lv)
  PROVE  TrailOK(y, K, lv)
<1>1. Consistent(y)
  BY DEF TrailOK, Consistent
<1>2. TopLevel(y) <= lv /\ Bottom(y, lv)
  BY DEF TrailOK, TopLevel, Bottom
<1>3. Explained(y, K)
  <2>1. \A i : Opens(x, i) => Opens(y, i)
    BY DEF Opens
  <2>2. \A i : Follows(x, K, i) => Follows(y, K, i)
    BY DEF Follows
  <2>3. Explained(x, K) /\ Len(y.stack) = Len(x.stack)
    BY DEF TrailOK
  <2> QED BY <2>1, <2>2, <2>3 DEF Explained
<1> QED BY <1>1, <1>2, <1>3 DEF TrailOK

\* next_unpropagated and take_sync_floor leave the entries alone.
LEMMA MarksGood ==
  ASSUME NEW s, NEW lv, Good(s, lv, "any")
  PROVE  /\ Good([s EXCEPT !.decision_tracker = MarkPropagated(s.decision_tracker)], lv, "any")
         /\ Good([s EXCEPT !.decision_tracker = TakeSyncFloor(s.decision_tracker)], lv, "any")
         /\ MarkPropagated(s.decision_tracker).map = s.decision_tracker.map
         /\ TakeSyncFloor(s.decision_tracker).map = s.decision_tracker.map
<1> DEFINE x == s.decision_tracker
<1>1. x \in Tracker /\ Shape(s) /\ TrailOK(x, s.clauses, lv)
  BY GoodTracks DEF Good, Core
<1>2. x.stack \in Seq(Decision) /\ x.propagate_index \in Nat /\ Len(x.stack) \in Nat
  BY <1>1, TrailEntries
<1> HIDE DEF x
<1>3. /\ MarkPropagated(x) \in Tracker /\ MarkPropagated(x).stack = x.stack
      /\ MarkPropagated(x).map = x.map
  BY <1>1, <1>2 DEF MarkPropagated, Tracker
<1>4. /\ TakeSyncFloor(x) \in Tracker /\ TakeSyncFloor(x).stack = x.stack
      /\ TakeSyncFloor(x).map = x.map
  BY <1>1, <1>2 DEF TakeSyncFloor, Tracker
<1>5. ASSUME NEW y \in Tracker, y.stack = x.stack, y.map = x.map
      PROVE  Good([s EXCEPT !.decision_tracker = y], lv, "any")
  <2> DEFINE t == [s EXCEPT !.decision_tracker = y]
  <2>1. TrailOK(y, s.clauses, lv)
    BY <1>1, <1>5, SameEntries
  <2>2. /\ Shape(t) /\ SameLists(s, t) /\ SameQueues(s, t) /\ t.clauses = s.clauses
        /\ t.watches = s.watches /\ t.decision_tracker = y
    BY <1>1 DEF Shape, SameLists, SameQueues
  <2> HIDE DEF t
  <2>3. Good(t, lv, "any")
    BY <2>1, <2>2, GoodTrail
  <2> QED BY <2>3 DEF t
<1> QED BY <1>3, <1>4, <1>5 DEF x

----------------------------------------------------------------------------
(* The deferred requirements                                                *)

\* drain_fired_deferred keeps the state good, and what it returns is deferred
\* requirements.
LEMMA DrainGood ==
  ASSUME NEW s, NEW lv, Good(s, lv, "any"), NEW condition
  PROVE  Good(DrainFiredDeferred(s, condition), lv, "any")
<1> DEFINE q == s.deferred_requirements
           at == CHOOSE i \in KeyOf(s, condition) : TRUE
           entries == q[at].entries
           kept == Keep(entries, {e \in ToSet(entries) : ~HoldsNow(s, e.disjunct)})
           left == [q[at] EXCEPT !.entries = kept]
           moved == [q EXCEPT ![at] = Last(q)]
           r1 == SwapRemove(q, at)
           r2 == [q EXCEPT ![at] = left]
<1>1. q \in Seq(DeferredType)
  BY DEF Good, Queues
<1>2. DrainFiredDeferred(s, condition)
        \in {[s EXCEPT !.deferred_requirements = r1], [s EXCEPT !.deferred_requirements = r2]}
  BY DEF DrainFiredDeferred
<1>3. at \in DOMAIN q => kept \in Seq(EntryType)
  <2> SUFFICES ASSUME at \in DOMAIN q PROVE kept \in Seq(EntryType)
    OBVIOUS
  <2> HIDE DEF at, q
  <2>1. q[at] \in DeferredType
    BY <1>1
  <2>2. q[at].entries \in Seq(EntryType)
    BY <2>1 DEF DeferredType
  <2> HIDE DEF entries
  <2> QED BY <2>2, KeepElements DEF entries
<1> HIDE DEF at, q, kept
<1>4. r2 \in Seq(DeferredType)
  <2>1. CASE at \in DOMAIN q
    <3>1. q[at] \in DeferredType
      BY <1>1, <2>1
    <3>2. left \in DeferredType
      BY <1>3, <2>1, <3>1 DEF DeferredType
    <3> HIDE DEF left
    <3> QED BY <1>1, <2>1, <3>2, ReplaceElement
  <2>2. CASE at \notin DOMAIN q
    <3> HIDE DEF left
    <3>1. r2 = q
      BY <1>1, <2>2
    <3> QED BY <1>1, <3>1
  <2> QED BY <2>1, <2>2
<1>5. r1 \in Seq(DeferredType)
  <2>1. moved \in Seq(DeferredType)
    <3>1. CASE at \in DOMAIN q
      <4>1. Last(q) \in DeferredType
        BY <1>1, <3>1 DEF Last
      <4> HIDE DEF r2
      <4> QED BY <1>1, <3>1, <4>1, ReplaceElement
    <3>2. CASE at \notin DOMAIN q
      <4>1. moved = q
        BY <1>1, <3>2
      <4> QED BY <1>1, <4>1
    <3> QED BY <3>1, <3>2
  <2>2. r1 = SubSeq(moved, 1, Len(moved) - 1)
    BY DEF SwapRemove, Front
  <2> HIDE DEF moved, r1
  <2>3. /\ Len(moved) \in Nat
        /\ \A i \in 1 .. Len(moved) - 1 : moved[i] \in DeferredType
    BY <2>1
  <2>4. SubSeq(moved, 1, Len(moved) - 1) \in Seq(DeferredType)
    BY <2>1, <2>3, SubSeqProperties
  <2> QED BY <2>2, <2>4
<1> HIDE DEF r1, r2
<1>6. /\ Good([s EXCEPT !.deferred_requirements = r1], lv, "any")
      /\ Good([s EXCEPT !.deferred_requirements = r2], lv, "any")
  BY <1>4, <1>5, GoodDeferred
<1> QED BY <1>2, <1>6

\* The loop over the conditions that have fired.
DrainDef(s, q, c, d, f, S) ==
  IF S = {} THEN s ELSE DrainFiredDeferred(f[S \ {Max(S)}], q[Max(S)])
Drains == INSTANCE Recursion WITH Def <- DrainDef, P <- Kept

\* Draining all of them keeps the state good, and yields deferred requirements.
LEMMA DrainAllGood ==
  ASSUME NEW s, NEW lv, Good(s, lv, "any")
  PROVE  Good(DrainAll(s), lv, "any") /\ DrainedEntries(s) \in Seq(EntryType)
<1> DEFINE keys == s.deferred_requirements
<1>1. keys \in Seq(DeferredType)
  BY DEF Good, Queues
<1>2. \A entries \in Seq(EntryType) : Fired(s, entries) \in Seq(EntryType)
  BY KeepElements DEF Fired
<1>3. DrainedEntries(s) \in Seq(EntryType)
  <2> DEFINE parts == [i \in DOMAIN keys |-> Fired(s, keys[i].entries)]
  <2>1. DOMAIN keys = 1 .. Len(keys) /\ Len(keys) \in Nat /\ \A i \in 1 .. Len(keys) : keys[i] \in DeferredType
    BY <1>1
  <2>2. \A i \in 1 .. Len(keys) : keys[i].entries \in Seq(EntryType)
    BY <2>1 DEF DeferredType
  <2>3. parts \in Seq(Seq(EntryType))
    <3>1. DOMAIN parts = 1 .. Len(keys) /\ parts = [i \in 1 .. Len(keys) |-> parts[i]]
      BY <2>1
    <3>2. \A i \in 1 .. Len(keys) : parts[i] \in Seq(EntryType)
      BY <1>2, <2>1, <2>2
    <3> HIDE DEF parts
    <3> QED BY <2>1, <3>1, <3>2, MapSequence
  <2> HIDE DEF parts
  <2>4. FlattenSeq(parts) \in Seq(EntryType)
    BY <2>3, FlattenElements
  <2> QED BY <2>4 DEF DrainedEntries, parts
<1>4. Good(DrainAll(s), lv, "any")
  <2> DEFINE fired == Keep(keys, {e \in ToSet(keys) : Fired(s, e.entries) # << >>})
             q == [i \in DOMAIN fired |-> fired[i].condition]
  <2>1. fired \in Seq(DeferredType)
    BY <1>1, KeepElements
  <2>2. DrainAll(s) = FoldLeft(DrainFiredDeferred, s, q)
    BY DEF DrainAll, FiredDeferredConditions
  <2> HIDE DEF fired
  <2>3. DOMAIN q = 1 .. Len(q) /\ Len(q) \in Nat
    BY <2>1
  <2> HIDE DEF q
  <2>4. FoldLeft(DrainFiredDeferred, s, q) = Drains!Loop(s, q, 0, 0, Len(q))
    BY <2>3 DEF FoldLeft, MapThenFoldSet, Drains!Loop, Drains!Fix, DrainDef
  <2>5. Drains!Rounds(s, q, 0, 0, Len(q))
    BY DEF Drains!Rounds, DrainDef, Drains!Max, Max
  <2>6. Drains!Keeps(s, q, 0, 0, Len(q), lv, "any")
    BY DrainGood DEF Drains!Keeps, Kept, DrainDef, Drains!Max, Max
  <2>7. Kept(lv, "any", 1 .. Len(q), Drains!Loop(s, q, 0, 0, Len(q)))
    BY <2>3, <2>5, <2>6, Drains!FoldInduction, Tr!LeastNatural DEF Drains!WellOrdered
  <2> QED BY <2>2, <2>4, <2>7 DEF Kept
<1> QED BY <1>3, <1>4

----------------------------------------------------------------------------
(* The causes of a clause, and the clauses collected for a Conflict         *)

\* The causes of a clause as a recursive function: of a learnt one, those of the
\* clauses it was derived from.  Whatever satisfies its causes satisfies it.
CauseDef(K, b, c, d, f, i) ==
  LET why == K[i].why
  IN IF K[i].kind # "Learnt" THEN <<i>>
     ELSE FlattenSeq([j \in DOMAIN why |-> f[why[j]]])
Implies(ids, K, lits) ==
  \A A : (\A w \in ToSet(ids) \ {InstallRootClause} : Sat(A, K[w].lits)) => Sat(A, lits)
CausesHold(K, e, i, ids) ==
  ids \in Seq(Nat) /\ (K[i].lits # << >> => Implies(ids, K, K[i].lits))
Causing == INSTANCE Recursion WITH Def <- CauseDef, P <- CausesHold
CausesIn(K) == Causing!Fix(K, 0, 0, 0, 1 .. Len(K))

\* The parts of the causes of a learnt clause.
LEMMA CauseParts ==
  ASSUME NEW K, ClausesOK(K), NEW i \in DOMAIN K, K[i].kind = "Learnt"
  PROVE  /\ K[i].why \in Seq(Nat) /\ DOMAIN K[i].why = 1 .. Len(K[i].why) /\ Len(K[i].why) \in Nat
         /\ \A j \in DOMAIN K[i].why : /\ K[i].why[j] \in ToSet(K[i].why) /\ K[i].why[j] \in 1 .. i - 1
                                       /\ K[K[i].why[j]].lits # << >>
         /\ \A w \in ToSet(K[i].why) : \E j \in DOMAIN K[i].why : w = K[i].why[j]
<1>1. K[i] \in ClauseType /\ Derived(K, i)
  <2>1. K \in Seq(ClauseType)
    BY DEF ClausesOK
  <2> QED BY <2>1 DEF ClausesOK
<1>2. K[i].why \in Seq(Nat)
  BY <1>1 DEF ClauseType
<1>3. \A w \in ToSet(K[i].why) : w \in 1 .. i - 1 /\ K[w].lits # << >>
  BY <1>1 DEF Derived
<1>4. /\ \A j \in DOMAIN K[i].why : K[i].why[j] \in ToSet(K[i].why)
      /\ \A w \in ToSet(K[i].why) : \E j \in DOMAIN K[i].why : w = K[i].why[j]
  BY DEF ToSet
<1> QED BY <1>2, <1>3, <1>4

\* Whatever satisfies the causes of the clauses it was derived from satisfies
\* a learnt clause.
LEMMA CausesOfLearnt ==
  ASSUME NEW K, ClausesOK(K), NEW i \in DOMAIN K, K[i].kind = "Learnt",
         NEW f, \A w \in 1 .. i - 1 : CausesHold(K, 0, w, f[w])
  PROVE  CausesHold(K, 0, i, CauseDef(K, 0, 0, 0, f, i))
<1> DEFINE why == K[i].why
           parts == [j \in DOMAIN why |-> f[why[j]]]
           ids == FlattenSeq(parts)
<1>1. CauseDef(K, 0, 0, 0, f, i) = ids
  BY DEF CauseDef
<1>2. /\ DOMAIN why = 1 .. Len(why) /\ Len(why) \in Nat
      /\ \A j \in DOMAIN why : why[j] \in ToSet(why) /\ why[j] \in 1 .. i - 1 /\ K[why[j]].lits # << >>
      /\ \A w \in ToSet(why) : \E j \in DOMAIN why : w = why[j]
  BY CauseParts
<1>3. Derived(K, i)
  BY DEF ClausesOK
<1> HIDE DEF why
<1>4. \A j \in 1 .. Len(why) : parts[j] = f[why[j]] /\ CausesHold(K, 0, why[j], f[why[j]])
  BY <1>2
<1>5. parts \in Seq(Seq(Nat)) /\ Len(parts) = Len(why)
  <2>1. DOMAIN parts = 1 .. Len(why) /\ parts = [j \in 1 .. Len(why) |-> parts[j]]
    BY <1>2
  <2>2. \A j \in 1 .. Len(why) : parts[j] \in Seq(Nat)
    BY <1>4 DEF CausesHold
  <2> HIDE DEF parts
  <2> QED BY <1>2, <2>1, <2>2, MapSequence
<1> HIDE DEF parts
<1>6. ids \in Seq(Nat) /\ ToSet(ids) = Elements(parts, Len(parts))
  BY <1>5, FlattenElements
<1>7. Implies(ids, K, K[i].lits)
  <2> SUFFICES ASSUME NEW A, \A w \in ToSet(ids) \ {InstallRootClause} : Sat(A, K[w].lits)
               PROVE  Sat(A, K[i].lits)
    BY DEF Implies
  <2>1. ASSUME NEW j \in DOMAIN why PROVE Sat(A, K[why[j]].lits)
    <3>1. ToSet(parts[j]) \subseteq ToSet(ids)
      BY <1>2, <1>5, <1>6 DEF Elements
    <3>2. Implies(parts[j], K, K[why[j]].lits)
      BY <1>2, <1>4, <2>1 DEF CausesHold
    <3> QED BY <3>1, <3>2 DEF Implies
  <2>2. \A w \in ToSet(why) : Sat(A, K[w].lits)
    BY <1>2, <2>1
  <2> QED BY <1>3, <2>2 DEF Derived, why
<1> HIDE DEF ids
<1> QED BY <1>1, <1>6, <1>7 DEF CausesHold

\* The causes of every clause imply it (analyze_unsolvable_clause).
LEMMA CausesImply ==
  ASSUME NEW K, ClausesOK(K)
  PROVE  /\ CausesIn(K) = [i \in 1 .. Len(K) |-> CauseDef(K, 0, 0, 0, CausesIn(K), i)]
         /\ DOMAIN K = 1 .. Len(K)
         /\ \A c \in DOMAIN K : /\ CausesIn(K)[c] \in Seq(Nat)
                                /\ K[c].lits # << >> => Implies(CausesIn(K)[c], K, K[c].lits)
<1> DEFINE n == Len(K)
<1>1. n \in Nat /\ DOMAIN K = 1 .. n /\ 1 \in Nat
  BY DEF ClausesOK
<1>2. ASSUME NEW f, NEW h, NEW i \in 1 .. n, \A j \in 1 .. i - 1 : f[j] = h[j]
      PROVE  CauseDef(K, 0, 0, 0, f, i) = CauseDef(K, 0, 0, 0, h, i)
  <2>1. CASE K[i].kind # "Learnt"
    BY <2>1 DEF CauseDef
  <2>2. CASE K[i].kind = "Learnt"
    <3>1. \A j \in DOMAIN K[i].why : K[i].why[j] \in 1 .. i - 1
      BY <1>1, <2>2, CauseParts
    <3>2. [j \in DOMAIN K[i].why |-> f[K[i].why[j]]] = [j \in DOMAIN K[i].why |-> h[K[i].why[j]]]
      BY <1>2, <3>1
    <3> QED BY <3>2, Zenon DEF CauseDef
  <2> QED BY <2>1, <2>2
<1>3. ASSUME NEW f, NEW i \in 1 .. n, \A j \in 1 .. i - 1 : CausesHold(K, 0, j, f[j])
      PROVE  CausesHold(K, 0, i, CauseDef(K, 0, 0, 0, f, i))
  <2>1. CASE K[i].kind # "Learnt"
    <3>1. CauseDef(K, 0, 0, 0, f, i) = <<i>>
      BY <2>1 DEF CauseDef
    <3>2. <<i>> \in Seq(Nat) /\ ToSet(<<i>>) = {i}
      BY <1>1, ShortSequences
    <3>3. K[i].lits # << >> => i # InstallRootClause
      BY DEF ClausesOK, InstallRootClause
    <3>4. K[i].lits # << >> => Implies(<<i>>, K, K[i].lits)
      BY <3>2, <3>3 DEF Implies
    <3> QED BY <3>1, <3>2, <3>4 DEF CausesHold
  <2>2. CASE K[i].kind = "Learnt"
    BY <1>1, <1>3, <2>2, CausesOfLearnt
  <2> QED BY <2>1, <2>2
<1>4. /\ CausesIn(K) = [i \in 1 .. n |-> CauseDef(K, 0, 0, 0, CausesIn(K), i)]
      /\ \A i \in 1 .. n : CausesHold(K, 0, i, CausesIn(K)[i])
  <2> HIDE DEF n
  <2>1. /\ Causing!Fix(K, 0, 0, 0, 1 .. n)
             = [i \in 1 .. n |-> CauseDef(K, 0, 0, 0, Causing!Fix(K, 0, 0, 0, 1 .. n), i)]
        /\ \A i \in 1 .. n : CausesHold(K, 0, i, Causing!Fix(K, 0, 0, 0, 1 .. n)[i])
    BY <1>1, <1>2, <1>3, Causing!IntervalInduction, Tr!LeastNatural DEF Causing!WellOrdered
  <2> QED BY <2>1 DEF CausesIn, n
<1> QED BY <1>1, <1>4 DEF CausesHold

\* The loop that adds clauses to a Conflict, each one once.
CollectDef(core, q, c, d, f, S) ==
  IF S = {} THEN core
  ELSE IF q[Max(S)] \in ToSet(f[S \ {Max(S)}]) THEN f[S \ {Max(S)}]
       ELSE Append(f[S \ {Max(S)}], q[Max(S)])
Collected(core, q, S, v) == v \in Seq(Nat) /\ ToSet(v) = ToSet(core) \cup {q[i] : i \in S}
Collect == INSTANCE Recursion WITH Def <- CollectDef, P <- Collected

\* The clauses that are there and the new ones are collected (Conflict::add_clause).
LEMMA CollectedAll ==
  ASSUME NEW core \in Seq(Nat), NEW q \in Seq(Nat)
  PROVE  LET v == Collect!Loop(core, q, 0, 0, Len(q))
         IN v \in Seq(Nat) /\ ToSet(v) = ToSet(core) \cup ToSet(q)
<1>1. DOMAIN q = 1 .. Len(q) /\ Len(q) \in Nat /\ \A i \in 1 .. Len(q) : q[i] \in Nat
  OBVIOUS
<1>2. Collect!Rounds(core, q, 0, 0, Len(q))
  BY DEF Collect!Rounds, CollectDef, Collect!Max, Max
<1>3. ASSUME NEW f, NEW S \in SUBSET (1 .. Len(q)),
             S # {} => Max(S) \in S /\ Collected(core, q, S \ {Max(S)}, f[S \ {Max(S)}])
      PROVE  Collected(core, q, S, CollectDef(core, q, 0, 0, f, S))
  <2>1. CASE S = {}
    BY <2>1 DEF Collected, CollectDef
  <2>2. CASE S # {}
    <3> DEFINE m == Max(S)
               v == f[S \ {m}]
    <3>1. m \in S /\ v \in Seq(Nat) /\ ToSet(v) = ToSet(core) \cup {q[i] : i \in S \ {m}}
      BY <1>3, <2>2 DEF Collected
    <3>2. CollectDef(core, q, 0, 0, f, S) = IF q[m] \in ToSet(v) THEN v ELSE Append(v, q[m])
      BY <2>2 DEF CollectDef
    <3> HIDE DEF m, v
    <3>3. q[m] \in Nat /\ {q[i] : i \in S} = {q[i] : i \in S \ {m}} \cup {q[m]}
      BY <1>1, <3>1
    <3>4. Append(v, q[m]) \in Seq(Nat) /\ ToSet(Append(v, q[m])) = ToSet(v) \cup {q[m]}
      BY <3>1, <3>3, AppendSet
    <3>5. CASE q[m] \in ToSet(v)
      BY <3>1, <3>2, <3>3, <3>5 DEF Collected
    <3>6. CASE q[m] \notin ToSet(v)
      BY <3>1, <3>2, <3>3, <3>4, <3>6 DEF Collected
    <3> QED BY <3>5, <3>6
  <2> QED BY <2>1, <2>2
<1>4. Collect!Keeps(core, q, 0, 0, Len(q), core, q)
  BY <1>3 DEF Collect!Keeps, Collect!Max, Max
<1>5. Collected(core, q, 1 .. Len(q), Collect!Loop(core, q, 0, 0, Len(q)))
  BY <1>1, <1>2, <1>4, Collect!FoldInduction, Tr!LeastNatural DEF Collect!WellOrdered
<1>6. ToSet(q) = {q[i] : i \in 1 .. Len(q)}
  BY <1>1 DEF ToSet
<1> QED BY <1>5, <1>6 DEF Collected
=============================================================================
