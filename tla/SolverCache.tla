---------------------------- MODULE SolverCache ----------------------------
(***************************************************************************)
(* The cache between the encoder's futures and the dependency provider     *)
(* (src/src/solver/cache.rs): get_or_cache_candidates asks the provider    *)
(* once per package and lets every other future that wants the package     *)
(* wait on the Event of the request in flight.                             *)
(*                                                                         *)
(* The cache belongs to the Solver and outlives a call of solve; the       *)
(* futures belong to the encoder and are dropped with it, which happens    *)
(* when one of them answers Err because the provider asked to cancel.      *)
(***************************************************************************)
EXTENDS Naturals, FiniteSets

CONSTANTS Name,                \* package names
          Future,              \* the futures an encoder can have queued
          MaxSolves,           \* how often solve is called
          CancellableSolves    \* in which of the calls the provider may cancel

ASSUME CacheAssumption == Name # {} /\ MaxSolves \in Nat

VARIABLES cached,       \* package_name_to_candidates
          in_flight,    \* package_name_to_candidates_in_flight: names with an Event
          future,       \* future -> where it is suspended, and its package
          solves,       \* calls of solve so far
          solving,      \* a call of solve is running
          fetches       \* history: calls of DependencyProvider::get_candidates

vars == <<cached, in_flight, future, solves, solving, fetches>>

State == {"idle", "fetching", "listening", "woken", "ready", "failed", "panicked"}
Idle == [f \in Future |-> [at |-> "idle", name |-> CHOOSE n \in Name : TRUE]]

\* The maps hold packages, and every future is suspended at a known place.
TypeOK == /\ cached \subseteq Name
          /\ in_flight \subseteq Name
          /\ future \in [Future -> [at : State, name : Name]]
          /\ solves \in Nat /\ solving \in BOOLEAN
          /\ fetches \in [Name -> Nat]

Init == /\ cached = {}
        /\ in_flight = {}
        /\ future = Idle
        /\ solves = 0
        /\ solving = FALSE
        /\ fetches = [n \in Name |-> 0]

\* The future stops at `where`, working on package n.
Suspend(f, where, n) == future' = [future EXCEPT ![f] = [at |-> where, name |-> n]]

BeginSolve ==
  /\ ~solving /\ solves < MaxSolves
  /\ solving' = TRUE
  /\ solves' = solves + 1
  /\ UNCHANGED <<cached, in_flight, future, fetches>>

----------------------------------------------------------------------------
(* get_or_cache_candidates, up to its first suspension                      *)

CacheHit(f, n) ==
  /\ n \in cached
  /\ Suspend(f, "ready", n)
  /\ UNCHANGED <<cached, in_flight, fetches>>

\* should_cancel_with_value answered Some.
CancelRequest(f, n) ==
  /\ n \notin cached
  /\ solves \in CancellableSolves
  /\ Suspend(f, "failed", n)
  /\ UNCHANGED <<cached, in_flight, fetches>>

Listen(f, n) ==
  /\ n \notin cached /\ n \in in_flight
  /\ Suspend(f, "listening", n)
  /\ UNCHANGED <<cached, in_flight, fetches>>

\* Mutant of Fetch: the request in flight is not looked up.
FetchAgain(f, n) ==
  /\ n \notin cached
  /\ Suspend(f, "fetching", n)
  /\ in_flight' = in_flight \cup {n}
  /\ fetches' = [fetches EXCEPT ![n] = @ + 1]
  /\ UNCHANGED cached

Fetch(f, n) ==
  /\ n \notin cached /\ n \notin in_flight
  /\ Suspend(f, "fetching", n)
  /\ in_flight' = in_flight \cup {n}
  /\ fetches' = [fetches EXCEPT ![n] = @ + 1]
  /\ UNCHANGED cached

\* queue_future polls a new future at once.
Request(f, n) ==
  /\ solving /\ future[f].at = "idle"
  /\ CacheHit(f, n) \/ CancelRequest(f, n) \/ Listen(f, n) \/ Fetch(f, n)
  /\ UNCHANGED <<solves, solving>>

----------------------------------------------------------------------------
(* ... and from there on                                                    *)

\* Mutant of Notified: the event wakes one listener only.
NotifiesOne(f, n) ==
  LET waiting == {g \in Future : future[g].at = "listening" /\ future[g].name = n}
  IN [g \in Future |->
        IF g = f THEN [at |-> "ready", name |-> n]
        ELSE IF waiting # {} /\ g = CHOOSE h \in waiting : TRUE
        THEN [future[g] EXCEPT !.at = "woken"]
        ELSE future[g]]

\* notify(usize::MAX): everybody who listens on the event of n.
Notified(f, n) ==
  [g \in Future |->
     IF g = f THEN [at |-> "ready", name |-> n]
     ELSE IF future[g].at = "listening" /\ future[g].name = n
     THEN [future[g] EXCEPT !.at = "woken"]
     ELSE future[g]]

\* Mutants of Answer: the Event stays in the map; the result is not stored.
AnswerKeepsEvent(f) ==
  /\ future[f].at = "fetching"
  /\ cached' = cached \cup {future[f].name}
  /\ future' = Notified(f, future[f].name)
  /\ UNCHANGED <<in_flight, solves, solving, fetches>>
AnswerNotStored(f) ==
  /\ future[f].at = "fetching"
  /\ in_flight' = in_flight \ {future[f].name}
  /\ future' = Notified(f, future[f].name)
  /\ UNCHANGED <<cached, solves, solving, fetches>>

\* The provider answers: store the candidates, remove the Event and notify.
Answer(f) ==
  /\ future[f].at = "fetching"
  /\ cached' = cached \cup {future[f].name}
  /\ in_flight' = in_flight \ {future[f].name}
  /\ future' = Notified(f, future[f].name)
  /\ UNCHANGED <<solves, solving, fetches>>

\* expect("after waiting for a request the result should be available")
Resume(f) ==
  /\ future[f].at = "woken"
  /\ Suspend(f, IF future[f].name \in cached THEN "ready" ELSE "panicked", future[f].name)
  /\ UNCHANGED <<cached, in_flight, solves, solving, fetches>>

----------------------------------------------------------------------------
(* The encoder                                                              *)

\* A future that failed ends encode and solve; all futures are dropped.
Abort ==
  /\ solving
  /\ \E f \in Future : future[f].at = "failed"
  /\ future' = Idle
  /\ solving' = FALSE
  /\ UNCHANGED <<cached, in_flight, solves, fetches>>

\* Every queued future is ready: encode returns, and solve in the end.
EndSolve ==
  /\ solving
  /\ \A f \in Future : future[f].at \in {"idle", "ready"}
  /\ future' = Idle
  /\ solving' = FALSE
  /\ UNCHANGED <<cached, in_flight, solves, fetches>>

AllSolved == ~solving /\ solves = MaxSolves /\ UNCHANGED vars

Next == \/ BeginSolve
        \/ \E f \in Future, n \in Name : Request(f, n)
        \/ \E f \in Future : Answer(f) \/ Resume(f)
        \/ Abort \/ EndSolve
        \/ AllSolved

Spec == Init /\ [][Next]_vars

\* The provider answers every request whose future is still polled, and the
\* runtime polls every future that was woken (block_on with FuturesUnordered).
FairSpec == /\ Spec
            /\ \A f \in Future : WF_vars(Answer(f)) /\ WF_vars(Resume(f))

----------------------------------------------------------------------------
(* Properties                                                               *)

\* The provider is asked at most once for a package, however many futures want
\* it and in however many calls of solve, and never while it is cached.
FetchedAtMostOnce == \A n \in Name : fetches[n] <= 1

\* A package is in flight or cached, never both, and has one fetcher at most:
\* the Event that a listener found is removed by the future that stores the
\* result.
FlightEndsInCache ==
  /\ in_flight \cap cached = {}
  /\ \A f, g \in Future :
       /\ future[f].at = "fetching" => future[f].name \in in_flight
       /\ (/\ future[f].at = "fetching" /\ future[g].at = "fetching"
           /\ future[f].name = future[g].name) => f = g

\* The expect on the result after an Event fired never panics.
WokenFindsResult == \A f \in Future : future[f].at # "panicked"

\* No future listens on the Event of a request that nobody is running any more:
\* whoever waits for a package waits for a future that will notify it.
ListenerHasFetcher ==
  \A f \in Future :
    future[f].at = "listening" =>
      \E g \in Future : future[g].at = "fetching" /\ future[g].name = future[f].name

\* "wait for that request to finish and return the computed result": a future
\* that waits, for the provider or for another future, does not wait forever.
EveryWaitEnds ==
  \A f \in Future :
    (future[f].at \in {"fetching", "listening", "woken"})
      ~> (future[f].at \in {"ready", "idle"})
============================================================================
