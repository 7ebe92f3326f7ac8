----------------------------- MODULE Conditions -----------------------------
(***************************************************************************)
(* Conditions of requirements (src/src/conditional_requirement.rs) and     *)
(* their disjunctive normal form (src/src/solver/conditions.rs).           *)
(*                                                                         *)
(* A condition is interned after the conditions it is made of, so its id   *)
(* is larger than theirs: Conditions[c] is the expression with id c.       *)
(***************************************************************************)
EXTENDS Integers, Sequences, SequencesExt

CONSTANTS VersionSet, Conditions

ConditionId == 1 .. Len(Conditions)
NoCondition == 0          \* Option::<ConditionId>::None

\* enum Condition
Atom(vs) == [op |-> "Requirement", version_set |-> vs]
Binary(op, lhs, rhs) == [op |-> op, lhs |-> lhs, rhs |-> rhs]

ASSUME ConditionsAssumption ==
  /\ Len(Conditions) \in Nat
  /\ Conditions = [c \in 1 .. Len(Conditions) |-> Conditions[c]]
  /\ \A c \in 1 .. Len(Conditions) :
       \/ \E vs \in VersionSet : Conditions[c] = Atom(vs)
       \/ \E op \in {"And", "Or"}, lhs, rhs \in 1 .. c - 1 : Conditions[c] = Binary(op, lhs, rhs)

\* Whether a condition is true, when met is the set of version sets that are.
Truth(holds, e, met) ==
  CASE e.op = "Requirement" -> e.version_set \in met
    [] e.op = "Or"  -> holds[e.lhs] \/ holds[e.rhs]
    [] e.op = "And" -> holds[e.lhs] /\ holds[e.rhs]
ConditionHolds(condition, met) ==
  LET holds[c \in ConditionId] == Truth(holds, Conditions[c], met) IN holds[condition]

\* Mutant of Distributed: each disjunct of the left is paired with the first one
\* of the right only.
PairsWithFirst(left, right) == [i \in DOMAIN left |-> left[i] \o right[1]]

\* convert_conditions_to_dnf: a sequence of conjunctions of version sets.
Distributed(left, right) ==
  FlattenSeq([i \in DOMAIN left |-> [j \in DOMAIN right |-> left[i] \o right[j]]])
Converted(dnf, e) ==
  CASE e.op = "Requirement" -> << <<e.version_set>> >>
    [] e.op = "Or"  -> dnf[e.lhs] \o dnf[e.rhs]
    [] e.op = "And" -> Distributed(dnf[e.lhs], dnf[e.rhs])
ConvertConditionsToDnf(condition) ==
  LET dnf[c \in ConditionId] == Converted(dnf, Conditions[c]) IN dnf[condition]

\* condition_disjunct_holds
DisjunctHolds(disjunct, met) == ToSet(disjunct) \subseteq met
=============================================================================
