------------------------------ MODULE Provider ------------------------------
(***************************************************************************)
(* What the solver is asked and what the dependency provider answers       *)
(* (trait DependencyProvider and struct Candidates in src/src/lib.rs,      *)
(* struct Problem in src/src/solver/mod.rs), and the reference definition  *)
(* of a solution that the solver's answers are compared with.              *)
(*                                                                         *)
(* Names, solvables, version sets and requirements are opaque identifiers. *)
(* The candidates of a package are listed in the order the provider sorts  *)
(* them (sort_candidates, a favored candidate first), which is also the    *)
(* order it lists them in.                                                 *)
(***************************************************************************)
EXTENDS FiniteSets, Conditions

CONSTANTS Name,           \* package names
          Solvable,       \* all solvables of all packages
          Candidates,     \* Name -> sequence of its solvables
          VsName,         \* VersionSet -> the package it selects from
          VsMatch,        \* VersionSet -> the solvables it matches
          Requirement,    \* requirement ids: a version set or a union
          ReqVs           \* Requirement -> sequence of its version sets

Root == "root"            \* SolvableIdOrRoot::root
None == "none"

ASSUME ProviderAssumption ==
  /\ Root \notin Solvable /\ None \notin Solvable
  /\ Candidates \in [Name -> Seq(Solvable)]
  /\ \A s \in Solvable : \E n \in Name : s \in ToSet(Candidates[n])
  /\ \A m, n \in Name : m # n => ToSet(Candidates[m]) \cap ToSet(Candidates[n]) = {}
  /\ VsName \in [VersionSet -> Name]
  /\ \A v \in VersionSet : VsMatch[v] \subseteq ToSet(Candidates[VsName[v]])
  /\ ReqVs \in [Requirement -> Seq(VersionSet)]

NameOf(s) == CHOOSE n \in Name : s \in ToSet(Candidates[n])

\* Iterator::filter: the elements of q that are in S, in order.
Keep(q, S) ==
  LET kept[i \in 0 .. Len(q)] ==
        IF i = 0 THEN << >>
        ELSE IF q[i] \in S THEN Append(kept[i - 1], q[i]) ELSE kept[i - 1]
  IN kept[Len(q)]

\* filter_candidates with inverse = false and true, in provider order.
Matching(vs) == Keep(Candidates[VsName[vs]], VsMatch[vs])
NonMatching(vs) == Keep(Candidates[VsName[vs]], Solvable \ VsMatch[vs])

\* The sorted candidates of a requirement, one version set after the other.
RequirementCandidates(req) ==
  FlattenSeq([i \in DOMAIN ReqVs[req] |-> Matching(ReqVs[req][i])])

(***************************************************************************)
(* A problem: the dependencies of the root (requirements and constraints   *)
(* of the Problem) and of every solvable, what get_candidates answers      *)
(* besides the candidates, and how the provider goes about it.             *)
(*   deps      known, requirements, constrains                             *)
(*   locked    the locked solvable or None                                 *)
(*   excluded  the excluded candidates                                     *)
(*   multiple  the names with allow_multiple                               *)
(*   hint      the solvables of hint_dependencies_available                *)
(*   soft      the soft requirements                                       *)
(*   async     futures may be pending and complete out of order            *)
(*   cancels   should_cancel_with_value may answer Some                    *)
(***************************************************************************)
ConditionalRequirement == [requirement : Requirement,
                           condition : ConditionId \cup {NoCondition}]
If(req, condition) == [requirement |-> req, condition |-> condition]
Always(req) == If(req, NoCondition)

Dependencies == [known : BOOLEAN, requirements : Seq(ConditionalRequirement),
                 constrains : Seq(VersionSet)]

Problem == [deps : {d \in [Solvable \cup {Root} -> Dependencies] : d[Root].known},
            locked : [Name -> Solvable \cup {None}],
            excluded : [Name -> Seq(Solvable)],
            multiple : SUBSET Name,
            hint : SUBSET Solvable,
            soft : Seq(Solvable),
            async : BOOLEAN,
            cancels : BOOLEAN]

----------------------------------------------------------------------------
(* The reference: which sets of solvables solve a problem.                  *)

Satisfies(S, req) == S \cap ToSet(RequirementCandidates(req)) # {}
Violates(S, vs)   == S \cap ToSet(NonMatching(vs)) # {}

\* The requirements of x whose condition, if any, S meets.
Enforced(p, x, S) ==
  LET met == {vs \in VersionSet : S \cap VsMatch[vs] # {}}
  IN {r.requirement : r \in {q \in ToSet(p.deps[x].requirements) :
        q.condition = NoCondition \/ ConditionHolds(q.condition, met)}}

\* The dependencies of x are met by S.
DependenciesMet(p, x, S) ==
  /\ p.deps[x].known
  /\ \A r \in Enforced(p, x, S) : Satisfies(S, r)
  /\ \A c \in ToSet(p.deps[x].constrains) : ~Violates(S, c)

\* The packages that a version set of the root or of a chosen solvable names.
\* The clauses of a package (locked, excluded) exist from that moment on.
RequestedNames(p, S) ==
  LET Named(x) == {VsName[vs] : vs \in UNION {ToSet(ReqVs[r]) : r \in Enforced(p, x, S)}
                                       \cup ToSet(p.deps[x].constrains)}
  IN UNION {Named(x) : x \in S \cup {Root}}

PackageRulesMet(p, S) ==
  \A n \in RequestedNames(p, S) :
    LET chosen == S \cap ToSet(Candidates[n]) IN
      /\ chosen \cap ToSet(p.excluded[n]) = {}
      /\ p.locked[n] # None => chosen \subseteq {p.locked[n]}
      /\ n \notin p.multiple => Cardinality(chosen) <= 1

IsSolution(p, S) ==
  /\ \A x \in S \cup {Root} : DependenciesMet(p, x, S)
  /\ PackageRulesMet(p, S)

HasSolution(p) == \E S \in SUBSET Solvable : IsSolution(p, S)
=============================================================================
