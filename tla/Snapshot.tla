------------------------------ MODULE Snapshot ------------------------------
(***************************************************************************)
(* DependencySnapshot, the record of what a provider answers, and          *)
(* SnapshotProvider, which plays it back (src/src/snapshot.rs).            *)
(*                                                                         *)
(* Taking a snapshot is one sequential walk, so it is an operator.  A      *)
(* Mapping is a function on the ids inserted in it; ids are numbers to it  *)
(* only.  All reasons of one kind are one string.                          *)
(***************************************************************************)
EXTENDS Provider

\* DenseIndex::to_index of the ids.  The provider has numbered all the names and
\* version sets it knows, and a snapshot records some of them.
CONSTANTS NameIndex,         \* Name -> its number
          VersionSetIndex    \* VersionSet -> its number

ASSUME SnapshotAssumption ==
  /\ NameIndex \in [Name -> Nat] /\ IsInjective(NameIndex)
  /\ VersionSetIndex \in [VersionSet -> Nat] /\ IsInjective(VersionSetIndex)

\* enum Element
Element(kind, id) == [kind |-> kind, id |-> id]
Elements(kind, ids) == [i \in DOMAIN ids |-> Element(kind, ids[i])]

\* Mapping::max, the highest index inserted.
HighestIndex(mapping, index) ==
  LET indices == {index[id] : id \in DOMAIN mapping}
  IN IF indices = {} THEN 0 ELSE CHOOSE i \in indices : \A j \in indices : j <= i

\* Mapping::iter goes by index and stops at the number of values, not at the
\* highest index: after a hole the last ids are left out.
Iterated(mapping, index) == {id \in DOMAIN mapping : index[id] < Cardinality(DOMAIN mapping)}

IsUnion(req) == req \notin VersionSet

\* A union is collected into a HashSet, which is then iterated in an order of its
\* own: every way of ordering the unions.
HashOrders ==
  LET Union == {req \in Requirement : IsUnion(req)}
      Orders(u) == SetToSeqs(ToSet(ReqVs[u]))
  IN {hashed \in [Union -> UNION {Orders(u) : u \in Union}] : \A u \in Union : hashed[u] \in Orders(u)}

----------------------------------------------------------------------------
(* DependencySnapshot::from_provider_async                                  *)

\* Mutant of ConditionMentions: the operands are taken to be known already.
AtomsOnly(e) ==
  IF e.op = "Requirement" THEN <<Element("VersionSet", e.version_set)>> ELSE << >>

ConditionMentions(e) ==
  IF e.op = "Requirement" THEN <<Element("VersionSet", e.version_set)>>
  ELSE Elements("Condition", <<e.lhs, e.rhs>>)

RequirementMentions(r, hashed) ==
  (IF r.condition = NoCondition THEN << >> ELSE <<Element("Condition", r.condition)>>)
    \o Elements("VersionSet", IF IsUnion(r.requirement) THEN hashed[r.requirement] ELSE <<r.requirement>>)

DependenciesMention(deps, hashed) ==
  IF ~deps.known THEN <<Element("String", "unknown")>>
  ELSE Elements("VersionSet", deps.constrains)
         \o FlattenSeq([i \in DOMAIN deps.requirements |-> RequirementMentions(deps.requirements[i], hashed)])

\* What an element mentions, in the order in which it is put in the queue.
Mentions(p, hashed, e) ==
  CASE e.kind = "Package" ->
         Elements("Solvable", Candidates[e.id])
           \o FlattenSeq([i \in DOMAIN p.excluded[e.id] |->
                <<Element("Solvable", p.excluded[e.id][i]), Element("String", "excluded")>>])
    [] e.kind = "Solvable" ->
         <<Element("Package", NameOf(e.id))>> \o DependenciesMention(p.deps[e.id], hashed)
    [] e.kind = "VersionSet" ->
         <<Element("Package", VsName[e.id])>> \o Elements("Solvable", Matching(e.id))
    [] e.kind = "Condition" -> ConditionMentions(Conditions[e.id])
    [] e.kind = "String" -> << >>

UnionsOf(deps) ==
  {r.requirement : r \in {q \in ToSet(deps.requirements) : deps.known /\ IsUnion(q.requirement)}}

\* The entry of an element.  The dependencies of a solvable have just been
\* fetched, so are_dependencies_available_for says yes of every one.
Recorded(p, hashed, snapshot, e) ==
  CASE e.kind = "Package" ->
         [snapshot EXCEPT !.packages =
            (e.id :> [solvables |-> Candidates[e.id], excluded |-> p.excluded[e.id]]) @@ @]
    [] e.kind = "Solvable" ->
         [snapshot EXCEPT !.solvables =
            (e.id :> [name |-> NameOf(e.id), order |-> 0, dependencies |-> p.deps[e.id],
                      hint_dependencies_available |-> TRUE]) @@ @,
           !.version_set_unions = Restrict(hashed, UnionsOf(p.deps[e.id])) @@ @]
    [] e.kind = "VersionSet" ->
         [snapshot EXCEPT !.version_sets =
            (e.id :> [name |-> VsName[e.id], matching_candidates |-> ToSet(Matching(e.id))]) @@ @]
    [] e.kind = "Condition" -> [snapshot EXCEPT !.conditions = (e.id :> Conditions[e.id]) @@ @]
    [] e.kind = "String" -> [snapshot EXCEPT !.strings = @ \cup {e.id}]

\* The order of the solvables of the packages iterated over, as sort_candidates puts them.
Ordered(snapshot) ==
  LET sorted == UNION {ToSet(snapshot.packages[n].solvables) : n \in Iterated(snapshot.packages, NameIndex)}
      Position(s) == CHOOSE i \in DOMAIN Candidates[NameOf(s)] : Candidates[NameOf(s)][i] = s
  IN [snapshot EXCEPT !.solvables =
        [s \in DOMAIN @ |-> IF s \in sorted THEN [@[s] EXCEPT !.order = Position(s) - 1] ELSE @[s]]]

FromProvider(p, hashed, start) ==
  LET Push(walk, e) ==
        IF e \in walk.seen THEN walk
        ELSE [walk EXCEPT !.seen = @ \cup {e}, !.queue = Append(@, e)]
      Pop(walk, i) ==
        IF walk.queue = << >> THEN walk
        ELSE LET e == Head(walk.queue)
             IN FoldLeft(Push, [walk EXCEPT !.queue = Tail(@), !.snapshot = Recorded(p, hashed, @, e)],
                         Mentions(p, hashed, e))
      empty == [packages |-> << >>, solvables |-> << >>, version_sets |-> << >>,
                version_set_unions |-> << >>, conditions |-> << >>, strings |-> {}]
      elements == Cardinality(Name) + Cardinality(Solvable) + Cardinality(VersionSet)
                    + Cardinality(ConditionId) + 2 + Len(start)
      walked == FoldLeft(Pop, [queue |-> start, seen |-> ToSet(start), snapshot |-> empty],
                         [i \in 1 .. elements |-> i])
  IN Ordered(walked.snapshot)

----------------------------------------------------------------------------
(* SnapshotProvider                                                         *)

NewProvider(snapshot) == [snapshot |-> snapshot, additional_version_sets |-> << >>]

MaxIndex(sp) == HighestIndex(sp.snapshot.version_sets, VersionSetIndex)

\* add_package_requirement: the id it returns and the provider after it.  The
\* matcher picks the solvables whose text contains it.
AddPackageRequirement(sp, name, picked) ==
  [id |-> MaxIndex(sp) + 1 + Len(sp.additional_version_sets),
   provider |-> [sp EXCEPT !.additional_version_sets =
     Append(@, [name |-> name,
                matching_candidates |-> ToSet(sp.snapshot.packages[name].solvables) \cap picked])]]

\* Mapping::get, by the index of a version set.
RecordedAt(sp, index) ==
  sp.snapshot.version_sets[CHOOSE vs \in DOMAIN sp.snapshot.version_sets : VersionSetIndex[vs] = index]

\* Mutant of VersionSetAt: the highest index of the snapshot counts as added.
ShadowsTheLast(sp, index) ==
  IF index >= MaxIndex(sp) /\ index - MaxIndex(sp) + 1 \in DOMAIN sp.additional_version_sets
  THEN sp.additional_version_sets[index - MaxIndex(sp) + 1]
  ELSE RecordedAt(sp, index)

VersionSetAt(sp, index) ==
  IF index > MaxIndex(sp)
  THEN sp.additional_version_sets[index - MaxIndex(sp)]
  ELSE RecordedAt(sp, index)

FilterCandidates(sp, candidates, index, inverse) ==
  SelectSeq(candidates, LAMBDA s : (s \in VersionSetAt(sp, index).matching_candidates) # inverse)

\* sort_by_key is stable.
SortCandidates(sp, solvables) ==
  LET Key(i) == sp.snapshot.solvables[solvables[i]].order
      Before(i, j) == Key(i) < Key(j) \/ (Key(i) = Key(j) /\ i < j)
      positions == SetToSortSeq(DOMAIN solvables, Before)
  IN [i \in DOMAIN solvables |-> solvables[positions[i]]]

GetCandidates(sp, name) ==
  LET package == sp.snapshot.packages[name]
  IN [candidates |-> package.solvables, excluded |-> package.excluded,
      hint |-> SelectSeq(package.solvables,
                         LAMBDA s : sp.snapshot.solvables[s].hint_dependencies_available)]

GetDependencies(sp, solvable) == sp.snapshot.solvables[solvable].dependencies

VersionSetsInUnion(sp, union) == sp.snapshot.version_set_unions[union]

ResolveCondition(sp, condition) == sp.snapshot.conditions[condition]

----------------------------------------------------------------------------
(* Properties, of the snapshot of a problem taken from the version sets or  *)
(* from the package names that its root asks for.                           *)

Starts(p) ==
  LET asked == FlattenSeq([i \in DOMAIN p.deps[Root].requirements |->
                             ReqVs[p.deps[Root].requirements[i].requirement]])
  IN {Elements("VersionSet", asked),
      Elements("Package", [i \in DOMAIN asked |-> VsName[asked[i]]])}

Holds(snapshot, e) ==
  CASE e.kind = "Package" -> e.id \in DOMAIN snapshot.packages
    [] e.kind = "Solvable" -> e.id \in DOMAIN snapshot.solvables
    [] e.kind = "VersionSet" -> e.id \in DOMAIN snapshot.version_sets
    [] e.kind = "Condition" -> e.id \in DOMAIN snapshot.conditions
    [] e.kind = "String" -> e.id \in snapshot.strings

\* Whatever an answer of the snapshot mentions is in the snapshot, down to the
\* operands of a condition and the version sets of a union.
ClosedSnapshot(p, snapshot) ==
  LET MentionedBy(deps) ==
        IF ~deps.known THEN {Element("String", "unknown")}
        ELSE {Element("VersionSet", vs) : vs \in ToSet(deps.constrains)
                \cup UNION {ToSet(ReqVs[r.requirement]) : r \in ToSet(deps.requirements)}}
             \cup {Element("Condition", r.condition) :
                     r \in {q \in ToSet(deps.requirements) : q.condition # NoCondition}}
      Operands(e) ==
        IF e.op = "Requirement" THEN {Element("VersionSet", e.version_set)}
        ELSE {Element("Condition", e.lhs), Element("Condition", e.rhs)}
  IN /\ \A n \in DOMAIN snapshot.packages :
          /\ \A s \in ToSet(Candidates[n]) \cup ToSet(p.excluded[n]) : Holds(snapshot, Element("Solvable", s))
          /\ p.excluded[n] # << >> => Holds(snapshot, Element("String", "excluded"))
     /\ \A s \in DOMAIN snapshot.solvables :
          /\ Holds(snapshot, Element("Package", NameOf(s)))
          /\ \A e \in MentionedBy(p.deps[s]) : Holds(snapshot, e)
          /\ UnionsOf(p.deps[s]) \subseteq DOMAIN snapshot.version_set_unions
     /\ \A vs \in DOMAIN snapshot.version_sets : Holds(snapshot, Element("Package", VsName[vs]))
     /\ \A c \in DOMAIN snapshot.conditions : \A e \in Operands(Conditions[c]) : Holds(snapshot, e)

\* The candidates of a package, given in any order, are put in the order in which the
\* provider puts them if the loop over the packages reached it.  Otherwise, whatever
\* the provider would do, they stay in the order given.
SortsAsOrdered(sp, n) ==
  \A given \in SetToSeqs(ToSet(Candidates[n])) :
    SortCandidates(sp, given) =
      IF n \in Iterated(sp.snapshot.packages, NameIndex) THEN Candidates[n] ELSE given

\* The provider of the snapshot gives the answers of the provider it was taken
\* from: candidates and exclusions, names, dependencies, what a condition and a
\* version set stand for.  Of the order of candidates it does so for some packages,
\* and the version sets of a union come in the order in which they were hashed.
AnswersAlike(p, hashed, sp) ==
  /\ \A n \in DOMAIN sp.snapshot.packages :
       /\ GetCandidates(sp, n).candidates = Candidates[n]
       /\ GetCandidates(sp, n).excluded = p.excluded[n]
       /\ SortsAsOrdered(sp, n)
  /\ \A s \in DOMAIN sp.snapshot.solvables :
       /\ sp.snapshot.solvables[s].name = NameOf(s)
       /\ GetDependencies(sp, s) = p.deps[s]
  /\ \A c \in DOMAIN sp.snapshot.conditions : ResolveCondition(sp, c) = Conditions[c]
  /\ \A u \in DOMAIN sp.snapshot.version_set_unions : VersionSetsInUnion(sp, u) = hashed[u]
  /\ \A vs \in DOMAIN sp.snapshot.version_sets :
       LET index == VersionSetIndex[vs]
       IN /\ VersionSetAt(sp, index).name = VsName[vs]
          /\ FilterCandidates(sp, Candidates[VsName[vs]], index, FALSE) = Matching(vs)
          /\ FilterCandidates(sp, Candidates[VsName[vs]], index, TRUE) = NonMatching(vs)

\* Of two requirements that are added, each is found under the id returned for it,
\* and the version sets of the snapshot are still found under theirs.
AddedApart(sp) ==
  \A n \in DOMAIN sp.snapshot.packages :
    LET first == AddPackageRequirement(sp, n, Solvable)
        second == AddPackageRequirement(first.provider, n, {Candidates[n][1]})
        Found(id) == VersionSetAt(second.provider, id)
    IN /\ Found(first.id) = [name |-> n, matching_candidates |-> ToSet(Candidates[n])]
       /\ Found(second.id) = [name |-> n, matching_candidates |-> {Candidates[n][1]}]
       /\ \A vs \in DOMAIN sp.snapshot.version_sets :
            Found(VersionSetIndex[vs]) = sp.snapshot.version_sets[vs]
=============================================================================
