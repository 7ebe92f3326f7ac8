# resolvo in TLA+

A model of resolvo, the lazy CDCL package solver of this repository: TLA+
modules translated from `src/src/`, TLC runs on small instances, and TLAPS proofs
for every value of the constants. `PROJECT.json` maps each definition to the
lines it models, lists the runs with the mutant each property detects, the
hazards the properties are aimed at, the findings and the theorems.

To check a run, `tlc -workers 2 -config MCSolver.cfg MCSolver`; to check proofs,
`tlapm SolverProofs.tla`, and likewise for the other seven modules listed under
Proofs. `SolverProofs` and `EncoderProofs` take ten to twenty minutes each from
nothing, the others less.

## Inventory

| Component | State | Operations | Model |
|---|---|---|---|
| Decision tracker (`decision_tracker.rs`, `decision_map.rs`, `decision.rs`) | value and level per variable, the trail, `propagate_index`, `sync_floor` | `try_add_decision`, `undo_last`, `undo_until`, `next_unpropagated`, `take_sync_floor` | `DecisionTracker` |
| Decide queue (`decide_queue.rs`) | registered requires clauses, queue and hot queue, hot names, cached walks, occurrence lists, a mirror of the trail | `register_clause`, `mark_name_hot`, `sync`, `next_decision` | `TrailSync`, `DecideQueue` |
| Solver (`mod.rs`) | `SolverState`, levels, the local state of `run_sat` and `analyze` | `solve`, `run_sat`, `propagate`, `decide`, `analyze`, `analyze_unsolvable`, `force_stuck_gates` | `SolverState`, `Solver` |
| Encoder (`encoding.rs`) | pending futures and results, conflicting clauses, pending forbid targets, gates and violation variables | one handler per kind of answer, `add_pending_forbid_clauses` | `Encoder`, actions in `Solver` |
| Clauses and literals (`clause.rs`) | literals, two watches per clause | construction, `next_unwatched_literal` | `SolverState`, `Encoder`, `Solver` |
| Watch map (`watch_map.rs`) | a linked list of clauses per literal, threaded through the clauses | insertion, cursor, `update` | `WatchMap` |
| At-most-one tracker (`binary_encoding.rs`) | tracked variables and helper variables | `add` | `Encoder` |
| Variable map (`variable_map.rs`) | origin of every variable | interning, allocation | `SolverState` |
| Solver cache (`cache.rs`) | candidates and dependencies by id, requests in flight | `get_or_cache_*` | `SolverCache`; pure parts in `Provider` |
| Provider and problem (`lib.rs`, `requirement.rs`, `conditional_requirement.rs`) | the answers of a dependency provider | `get_candidates`, `get_dependencies`, `filter_candidates`, `sort_candidates`, `should_cancel_with_value` | `Provider`, `Resolve` |
| Conditional requirements (`conditions.rs`, deferral in `mod.rs` and `encoding.rs`) | disjunctions, deferred requirements, at-least-one variables | normal form, deferral, firing | `Conditions`, `SolverState`, `Encoder`, `Solver` |
| Conflict report (`conflict.rs`) | a graph of the clauses of a conflict, the stack of the printer | build, simplify, print | `ConflictGraph`, `Report` |
| Snapshot (`snapshot.rs`) | the recorded answers of a provider, version sets added later | record, replay, `add_package_requirement` | `Snapshot` |
| C++ bindings (`cpp/`) | reference-counted vectors shared by both languages; marshalling | clone, drop, detach, push, iterate | `SharedVector`, `VectorValues`; marshalling not modelled |
| Runtimes, arenas, identifiers, diagnostics, tools | storage and I/O | | not modelled |

How they interact: `solve` calls `run_sat` for the root and then once for every
soft requirement that is still undecided, each time on the trail the runs before
left. `run_sat` alternates between encoding (a future per request, driven by
`block_on`), propagation, and `resolve_dependencies`, which asks the decide queue
for the next candidate and learns from conflicts. Encoder and loop share
`SolverState`: the encoder reads the current assignment and *writes* to it, at the
level the loop happens to be at. The cache is the only state that outlives a call
of `solve`. An unsolvable answer is a list of clauses, which `Conflict::graph` turns
into a graph and `DisplayUnsat` into text. A snapshot is taken of a provider before
or instead of solving and is a provider itself. The vectors of the bindings carry
every list that crosses the language border.

What is hard about it, and what correctness means for each part:

* *Lazy encoding.* Clauses are added while variables are already assigned. A
  clause may be born unit or falsified; an assignment the encoder makes has to be
  explained by its reason clause like one made by propagation. Correct: no
  falsified clause survives propagation, every trail entry follows from its
  reason, `analyze` and `analyze_unsolvable` never hit one of their assertions.
* *Backtracking.* `undo_last` marks all that remains as propagated; a shared gate
  can be undone while its requirer stays. Correct: nothing unpropagated survives,
  and no requirement is dropped from the answer.
* *Restarts.* A conflict found by the encoder throws the partial solution away.
  Correct: `solve` still ends.
* *Answers.* A solution satisfies the problem, "unsolvable" is only said of an
  unsolvable problem, and the reported conflict is unsatisfiable.
* *Asynchrony.* Answers arrive in any order and a request may be cancelled while
  others are in flight. Correct: the answer does not depend on the order, one
  fetch per package, every waiter is woken with the result in place.
* *Incremental decisions.* The queue only looks at what changed. Correct: it sees
  every change, and decides as a scan of all clauses would.
* *Conditions.* A conditional requirement is encoded only once its condition fires,
  possibly after restarts. Correct: no disjunct is lost or encoded twice, and a
  solution in which the condition holds satisfies the requirement.
* *Reports.* Correct: a report of an unsolvable problem is made, ends, and names a
  cause.
* *Sharing.* Two threads clone, write and drop vectors that share a buffer. Correct:
  counts are exact, nothing is used after it is freed, and no write shows elsewhere.

## Modules

**`DecisionTracker`** holds the tracker's operations as operators on a record;
`CutTo` is the effect of a run of `undo_last`, `KeptLength` the place where the
loop of `undo_until` stops. Panics (`unwrap` on an emptied trail) are predicates.

**`TrailSync`** puts a tracker beside the queue's mirror: `Assign`, `PopLast`,
`Backtrack`, `Propagate` in any order `run_sat` could make, and `Sync`, which is
`take_sync_floor` plus `DecideQueue::sync`. `synced` is a history variable, the
trail at the last sync; `touched` is what was routed.

**`DecideQueue`** is the queue proper. Its record has the fields of the struct,
less the occurrence lists, which are read off the clauses. `RouteTouched` treats
all routed variables at once, because what each wakes depends only on the map and
the states before; `NextDecision` is the first eligible clause in position order
followed by `Consider`, the pass over later (hot) clauses with its early stops.
The trail side is `TrailSync`'s, instantiated without history. `Propagated` guards
`Decide`: the solver only decides after a conflict-free propagation, which is what
`NoFalsifiedClause` shows of `Solver`. Activities are integers whose decay halves
and rounds down; like the product with 0.95 in `f32` it is monotone, can reach
zero, and is applied to every score and to the maximum alike.

**`Provider`** holds the constants of a package universe, candidates and matching
as the cache computes them, and the reference definition of a solution:
`IsSolution`. A package's lock and exclusions bind from the moment a version set of
the root or of a chosen solvable names the package, which is the documented rule
(`mod.rs`, on `solve`). **`Resolve`** is the abstract specification: one answer, and
a right one.

**`SolverState`** is the record shared by encoder and loop, with the table of
deferred requirements. A variable *is* its origin, a clause its kind, literals,
watches, links and causes. **`WatchMap`** holds the watch lists as the code does: a
head per literal, one next link per watch of a clause, a cursor that remembers its
predecessor; a chain may pass through either watch of a clause. **`Conditions`** is
the arena of conditions and their normal form, a recursive function over the arena.
**`Encoder`** maps the state before a handler to the state after it, one operator per
handler. **`Solver`** is the loop, with `pc` naming the place in the code; a task
answered, a clause visited, a trail entry popped by `analyze` are steps of their own.
The order of decisions is open there: any eligible requires clause may decide, which
includes the queue's choice, and the results hold for every heuristic.

**`ConflictGraph`** builds the graph from the clauses of a conflict, in their order,
with gates, violation and at-least-one variables collapsed into the solvables that
own them; petgraph's edge order and post-order walk and itertools' chunking are
modelled as external operators, because the report depends on them. **`Report`**
extends `Solver` by the printer: one action per kind of stack entry, and what is
printed is the set of causes named. Solve and display are one specification,
`FairReportSpec`.

**`Snapshot`** is the worklist of `from_provider_async` as a fold over the queue and the
set of what was seen, the provider of the recorded data, and
`add_package_requirement` with its arithmetic on ids. A `Mapping` is a function on the
ids inserted in it; where the code looks at their numbers (`Mapping::max`, and
`Mapping::iter`, which stops at the number of values), so does the module, by way of
`NameIndex` and `VersionSetIndex`. The iteration order of the `HashSet` a union is
collected into is any order of its version sets.

**`SharedVector`** has a step for every access to a reference count and every element
that is copied, on any number of handles; a handle is used by one thread at a time.
`detach` reads the count once and goes on from what it read. **`VectorValues`** is its
abstract specification: vectors as independent values.

**`SolverCache`** models `get_or_cache_candidates` as futures that run to their
next suspension point: cache hit, cancelled, listening on an `Event`, or fetching.
A future that fails ends the encoder, which drops all the others; the maps stay.

The `MC*` modules hold the instances, the `*Proofs` modules and `Recursion` the theorems.
Recursion over data is written as recursive functions or folds: `Keep` (a filter, in
`Provider`), the normal form, the folds over tasks, candidates and literals; none of the
modules declares a RECURSIVE operator.

## Runs

| Run | What it asks | Size |
|---|---|---|
| `trail_sync` | tracker and mirror agree; sync misses no change | 3 variables, 3 levels |
| `decide_queue` | the queue never loses an eligible clause and decides as a scan would | 4 variables, trail of 3, 3 encodings, 2 activity settings; 470,000 states |
| `solver` | the loop is correct, does not panic and ends; its conflicts are reported | 1,166 problems, 5 packages; 205,000 states |
| `packages` | locks, exclusions, several versions, three-candidate at-most-one, any order of answers, cancellation at any request, runs of the loop on top of each other | 3 packages, 6 solvables, up to 2 soft requirements; 293,000 states |
| `conditions` | conditional requirements are deferred, fired and enforced; snapshots of the problems | 6 packages, 8 conditions; 197,000 states |
| `cache` | one fetch, no lost wake-up, over two solves | 3 futures, 2 packages |
| `vector` | exact counts, no use after free, copies are independent | 3 handles, 3 buffers, length 2; 318,000 states |
| `soft_two_versions`, `conditions_stranded`, `report_unrooted`, `report_endless`, `cache_reuse` | violations, see Findings | one problem each |

*Bounds.* The universe of a run is small, the problems on it are many. `MCSolver`
has four families: `MixedProblems` varies the dependencies of three packages so
that every kind of clause meets every other; `DeepProblems` has conflicts that show
several decisions after their cause, so that learning backjumps over unrelated
levels; `GateProblems` strands shared gates; in `SelfProblems` a solvable
requires or rules out its own package. The constants
`CONSTRAINS_AUX_ENCODING_THRESHOLD` and `REQUIRES_AUX_ENCODING_THRESHOLD` are 4 in
the code and 2 in the passing runs, which makes both encodings happen with two
candidates; in the runs that show a violation they are 4, as in the code. Three
candidates need two helper variables in the at-most-one encoding, the first
roll-over after the trivial one. In `decide_queue` a trail of the root and two more
entries is what it takes to satisfy a requirement, break it and change a condition;
`MaxBumps` bounds the literals of a learnt clause that bump a package. Levels do not
matter to the queue and are all 1. `MCConditions` has conditions met at once
(`FiringProblems`), several requirements waiting for the same or for nested
conditions (`WaitingProblems`), and a condition whose other disjunct is met after a
conflict (`ChangingProblems`). Its numbering of names and version sets has holes: some of
the problems reach every name below the highest one they reach, so that a snapshot orders
all of their packages, and others do not. Snapshots are taken with every hash order of
the unions. The notes on snapshots below say what becomes of the two orders. The passing
families leave out the two situations that the findings and the notes below describe. In
`vector` three handles are the fewest with which one can be dropped while another
detaches and a third still shares the buffer, and a capacity that starts at 1 makes the
second push grow it. Counters are bounded by the instances themselves: no state
constraint is used.

*Deadlock* is checked in every passing run; `Finished` is the only step of a solve
that has returned and whose report is displayed. `cache_reuse` switches it off, since
waiting for ever is what it shows.

*Fairness.* `Report!FairReportSpec`: `solve` and the display after it run on one
thread and a step is possible until they have returned or panicked (the deadlock check
shows it), so either they end or they step for ever; nothing is assumed about which
step. `SolverCache!FairSpec`: the provider answers a request that is being polled, and
the runtime polls a woken future; both are what `block_on` promises and no more (a
future that was dropped is not polled). `SharedVector` needs none.

*Refinement.* `Implements` in `solver`, `packages` and `conditions` says that `Solver`
implements `Resolve` with `kind` and `solution` read off the result. With soft
requirements `Resolve` only asks that dependencies are met and leaves the rules of a
package open. `ImplementsValues` says that `SharedVector` implements `VectorValues`,
a handle's value being the content of its buffer or what is still to be copied into it.

## Findings

1. `soft_two_versions`: a solvable installed as a soft requirement is not part of
   the at-most-one encoding of its package, so a later soft requirement whose
   dependencies name that package can bring in a second version.
2. `conditions_stranded`: the encoder assigns an at-least-one variable at the current
   level, above the candidate that implies it. After a backjump between the two
   nothing assigns it again, and the solution leaves a conditional requirement unmet.
   `force_stuck_gates` repairs the same situation for shared gates only.
3. `report_unrooted`: a candidate that is in a conflict only because it stands for the
   complement of a condition is a node without a way from the root, and the assertion
   at the end of `Conflict::graph` panics.
4. `report_endless`: two uninstallable candidates that require each other are displayed
   below each other without end, because `reported` only records merged candidates.
5. `cache_reuse`: a cancelled solve leaves the `Event` of a pending request in the
   cache; the next solve on the same solver waits for it for ever.

Met while modelling, and without a run of their own:

* A snapshot loses the order of candidates. `Mapping::iter` (`mapping.rs:216`) stops at an
  index equal to the number of values, although it is documented to return "all the
  existing key value pairs". When the names a snapshot records leave out a number, the
  loop at `snapshot.rs:338` does not reach the packages with the highest numbers; their
  solvables keep `order: 0`, and `sort_candidates` leaves them as they were given.
  `SnapshotReplays` states what does happen: a package the loop reaches is sorted as by
  the provider, any other is not sorted.
* A snapshot loses the order of a union. Its version sets are collected into a `HashSet`
  (`snapshot.rs:253`) and come back in the iteration order of that set, whose hasher is
  seeded anew every time, although `lib.rs:109` asks that `version_sets_in_union` return
  them in a deterministic order. In `SnapshotReplays` they come in the order in which they
  happened to be hashed, which is any.
* With soft requirements, a lock clause that arrives after another version was
  installed neither reports a conflict nor propagates, and a backjump below the level
  `run_sat` started from undoes the soft requirement although `Ok(true)` is returned.
  The answer is a solution as `Resolve` defines it.
* The `debug_assert` on excluded candidates in `on_candidates_available` fails in debug
  builds for a soft requirement on an excluded candidate, and the `debug_assert_ne` on
  the at-least-one variable in `Conflict::graph` for a conflict that refutes it. The
  model follows release builds.
* The literals of a condition are the candidates outside its version set, or "no
  candidate at all". When every candidate outside is excluded or cannot be installed, the
  only solutions left may be those without the package, which satisfy the clause of no
  literal, and "unsolvable" is answered; the passing families of `MCConditions` do not
  rule out those candidates.
* A package with several versions allowed gets no at-least-one clauses, since these come
  with the at-most-one encoding.
* A snapshot keeps neither locks, favoured candidates nor permission for several
  versions, and records that the dependencies of every solvable are available.
* `BacktrackForgetsNothing` and `NoFalsifiedClause` are not claimed with soft requirements:
  the refusal of one is pushed without being propagated and later counted as propagated.
  `packages` checks what depends on it, the answer, as far as `Resolve` says anything of
  it with soft requirements: that dependencies are met.

## Proofs

| Module | What it proves |
|---|---|
| `DecisionTrackerProofs` | lemmas on the tracker: what an assignment, a pop and a cut do to a consistent trail |
| `TrailSyncProofs` | `TypeOK`, `TrailConsistent`, `FloorPromise`, `MirrorIsSnapshot`, `SyncMissesNothing` |
| `DecideQueueProofs` | `EligibleIsQueued`, `CachesAreFresh`, `HotInLockstep`, `DecidesAsTheScan` |
| `SolverCacheProofs` | `FetchedAtMostOnce`, `FlightEndsInCache`, `WokenFindsResult`, `ListenerHasFetcher` |
| `SharedVectorProofs` | `RefcountIsExact`, `AllocatedIfUsed`, the refinement `ImplementsValues` |
| `Recursion` | recursive functions exist, and induction over them |
| `EncoderProofs` | lemmas: every handler of the encoder keeps the state good; what the causes of a clause and the clauses of a conflict are |
| `SolverProofs` | `SolverIsSound`, and from it `TypeOK`, `ReasonsExplainTrail`, `LearntClausesFollow`, `WatchListsExact`, `ConflictIsACore`; `DnfMeansCondition` |

What is assumed of the constants is named in the module that declares them and holds of
every instance: a provider answers with its own solvables and each solvable belongs to
one package (`ProviderAssumption`), a condition refers to conditions interned before it
(`ConditionsAssumption`), thresholds are positive (`ThresholdAssumption`), the problems
are problems (`SolverAssumption`), candidates of the queue are variables
(`DecideQueueAssumption`), finitely many handles (`SharedVectorAssumption`), and natural
numbers where numbers are meant (`MaxLevelAssumption`, `CacheAssumption`). Packages,
versions, clauses, levels and the length of a run are not bounded by anything.

**Trail and mirror.** The inductive invariant is `TypeOK /\ TrailConsistent /\
FloorPromise /\ MirrorIsSnapshot`: `SyncMissesNothing` needs the promise (below the floor
nothing changed) together with the mirror being the old trail (above it everything old is
routed). Consistency of map and trail is an argument of its own: a push keeps it because
the variable was undecided and its level is not below the last one, a cut because no
variable is on the trail twice, so that what is reset is exactly what was popped. That the
loop of `undo_until` stops somewhere, and the CHOOSE in `KeptLength` has a witness, is
`KeptLengthExists`, from the well-foundedness of `<` on the naturals.

**Decide queue.** That an eligible clause is queued is not inductive: between two syncs
clauses become eligible while the queue sleeps. The invariant says that there is an
assignment, that of the last sync, for which every registered clause is in the state the
queue has it in (queued or not, its cached walk satisfied or at a frontier, unless it is
marked dirty), and that a variable whose value differs from it lies above the floor. A
sync routes those variables and so makes the current assignment the remembered one; a
clause registered late is queued at once, or its parent has just been popped and will be
routed. The hot queue needs that hot names only grow and
that promotion looks at every registered clause of the name.

`DecidesAsTheScan` needs that invariant and one about scores (`Scores`): with positive bumps
no score is above the maximum, and only hot packages have one. At a `decide` the eligible
clauses are then exactly those that are queued and found eligible, their cached walks are
those a scan would make, and the loop of `next_decision` and the scan are compared by
induction over the clauses both have come by, in position order: they hold the same best
clause, and the loop only stopped early at one that nothing can replace. What the loop
skips is not eligible, cannot replace a requirement of the root, or is cold, and a cold
clause has score 0 and replaces none. Bumps that are not positive, for which the code takes
no shortcut by scores, are covered.

**Cache.** The invariant adds that `fetches` counts exactly the packages in flight or
cached (`FetchesCounted`) and that whoever was woken was woken after the result was stored
(`WokenAfterStore`). `ListenersAreServed` assumes `OnlyLastCancels`, that the cache is not
used again after a cancellation, and needs that every event has a running owner;
`cache_reuse` shows that the assumption is needed.

**Vectors.** Per buffer, the invariant counts the handles that hold it and the operations
that have taken a reference but not yet handed it on, or are about to release one; each
step moves an element of the counted set or changes count and set together. No buffer is
freed early since a count above zero has an owner. The refinement needs data: a handle's
buffer has the handle's value unless an operation on it is copying, what has been copied
is a prefix of the value, and a buffer that is written has one owner (`DataInv`); it maps
every step to a step of `VectorValues` or to a stutter, the initial state to its initial
state.

**Recursion.** The library's induction theorems take an operator as a parameter, which the
provers cannot instantiate. `Recursion` takes it as CONSTANTs: `Def`, the value at a place,
and `P`, what is to be shown of it. A module instantiates it once for every recursive
function or fold it reasons about. That the function exists is proved there too (from `<`
being well-founded, a lemma of the citing module), so nothing is assumed of CHOOSE.
`DnfIsTheCondition` is an induction over the arena of conditions with two nested ones over
the loops that multiply out an `And` and concatenate an `Or`; the handlers of the encoder
are chains of such loops, each with `Good` as its invariant.

**Solver.** `SolverInv` holds in every reachable state of the whole loop, for all problems,
any order of answers, any choice of decisions, with restarts, backjumps, learning, locks,
exclusions, gates, violation, forbid and at-least-one variables. Its parts:

* `TrailOK` and `Follows`: map and trail agree, levels do not decrease, and each entry
  that did not open its level is the one literal of its reason that is not falsified
  before it. It has to hold at every assignment the encoder makes, which is why each of
  the handlers is followed through with the guards under which it assigns.
* `ClausesOK` and `LinksOK`: literals are of the universe, watched literals are two
  different ones of the clause, a learnt clause follows from its causes, which are older;
  heads and next pointers are, per literal, a list with a rank that decreases along it, no
  two nodes point at one node, and every watching clause is reached.
* `Queues`: what waits in the encoder is typed and about the packages it says.
* `Levels`, `Propagated`, `UpToDate`: the level of the loop is that of the trail; unit
  clauses asserted so far hold; a conflict clause is falsified and touches the current
  level if a decision was made, because what had not been propagated is of that level.
* `Analyzed`: `analyze` is resolution. The literals blamed so far, those already learnt and
  the one just popped follow from the clauses visited; there is always an open variable on
  the trail, so that popping finds one; levels of the learnt literals are below the current
  one, which is what makes the learnt clause assert its literal after the backjump.

`Sound`, the part on trail and clauses, holds after a panic as well; the other parts are
claimed until one occurs. `ReasonsExplain` and `LearntFollows` are read off it.
`WatchListsAreExact` needs one more argument: the walk of the property takes as many steps
as there are clauses, visits no clause twice because ranks decrease, and so ends
(pigeonhole); and a clause it missed would have a highest-ranked missed predecessor.
`CoreIsUnsatisfiable` is about the walk of `analyze_unsolvable`. `RootFirst` puts the root
on the trail before anything else, through a first encoding that can assign a lot, so that
level 1 holds one assignment without a premise, the root's; `Refuted` says that whatever
leads to "unsolvable" has a falsified clause at that level. Suppose an assignment with the
root satisfies every clause collected, learnt ones replaced by their causes down to clauses
that were not learnt (induction over clause ids). Walking the trail backwards, the reasons
of the entries that are involved are among those clauses, so by induction from the front
each of these entries agrees with the assignment, and the falsified clause cannot be
satisfied by it.

**Only model-checked.**

* Liveness (`Termination`, `DisplayEnds`, `EveryWaitEnds`), which needs fairness and is
  outside what the prover does.
* `Implements` (`Solver` implements `Resolve`) and `NoFalsifiedClause`: that a solution
  satisfies every clause needs the two-watched-literals invariant through lazily added
  clauses, and then that the encoder has asked for everything the solution names.
* `NoPanic` and `BacktrackForgetsNothing`: several of the assertions depend on
  `NoFalsifiedClause` (an eligible clause has an open candidate only if it is not
  falsified).
* `ConditionalEncodedOnce`, which counts the places of a disjunct over tasks, deferred
  entries and clauses.
* `GraphIsRooted`, `ReportNamesACause`, `SnapshotIsClosed`, `SnapshotReplays`: walks over
  graphs and worklists.

## Not modelled

* `get_or_cache_dependencies` has no event: it is memoisation only.
* The wording, merging of version strings and indentation of a report, and the Graphviz
  output of the conflict graph.
* Display and serialisation of a snapshot, and the delays it can simulate.
* `cpp/src/lib.rs`, `string.rs`, `slice.rs`: they pass calls and values between the
  languages and keep no state of their own. Move assignment of a C++ vector swaps two
  handles that one thread holds.
* Storage (arenas, pools, mappings, identifiers), runtimes, diagnostics and tools: no
  decision of the solver is made there. Identifiers are values and mappings functions.
* Memory orderings weaker than the interleavings of `SharedVector`.

## Plan

What is left, in the order of what it would say:

1. `NoFalsifiedClause` for the run of the root: the watched literals of a clause are
   undecided, true, or false and still to be propagated, with the exceptions for clauses
   born unit or falsified, which the encoder assigns or reports.
2. `NoPanic` from it, and the safety part of `Implements`: a solution satisfies every
   clause, and every requirement of a chosen solvable is a clause.
3. The refinement of `Resolve` with soft requirements.
4. `ConditionalEncodedOnce`, for which deferred entries, tasks and clauses partition the
   disjuncts of a requirement.
