------------------------- MODULE SolverCacheProofs -------------------------
(***************************************************************************)
(* Proofs about the in-flight protocol of the cache, for any packages, any *)
(* futures, any number of calls of solve and any cancellations.            *)
(***************************************************************************)
EXTENDS SolverCache, TLAPS

\* The package was asked for exactly when it is in flight or cached.
FetchesCounted ==
  \A n \in Name : fetches[n] = IF n \in cached \cup in_flight THEN 1 ELSE 0

\* A future is woken only after the result was stored.
WokenAfterStore == \A f \in Future : future[f].at = "woken" => future[f].name \in cached

\* The inductive invariant of the protocol.
Inv == TypeOK /\ FlightEndsInCache /\ WokenFindsResult /\ FetchesCounted /\ WokenAfterStore

\* The futures of an encoder that does not run are idle.
LEMMA IdleType == /\ Idle \in [Future -> [at : State, name : Name]]
                  /\ \A f \in Future : Idle[f].at = "idle"
<1>1. (CHOOSE n \in Name : TRUE) \in Name
  BY CacheAssumption
<1> QED BY <1>1 DEF Idle, State

\* Suspending a future changes that future only.
LEMMA SuspendProperties ==
  ASSUME TypeOK, NEW f \in Future, NEW w \in State, NEW n \in Name, Suspend(f, w, n)
  PROVE  /\ future' \in [Future -> [at : State, name : Name]]
         /\ future'[f].at = w /\ future'[f].name = n
         /\ \A g \in Future : g # f => future'[g] = future[g]
  BY DEF TypeOK, Suspend

\* A future that stops without touching the maps keeps the invariant.
LEMMA SuspendStep ==
  ASSUME Inv, NEW f \in Future, NEW w \in {"ready", "failed", "listening"},
         NEW n \in Name, Suspend(f, w, n),
         UNCHANGED <<cached, in_flight, solves, solving, fetches>>
  PROVE  Inv'
<1>1. TypeOK /\ w \in State
  BY DEF Inv, State
<1>2. /\ future' \in [Future -> [at : State, name : Name]]
      /\ future'[f].at = w /\ future'[f].name = n
      /\ \A g \in Future : g # f => future'[g] = future[g]
  BY <1>1, SuspendProperties
<1>3. TypeOK'
  BY <1>1, <1>2 DEF TypeOK
<1>4. FlightEndsInCache'
  <2>1. \A g \in Future : future'[g].at = "fetching" => future'[g] = future[g]
    BY <1>2
  <2> QED BY <2>1 DEF Inv, FlightEndsInCache
<1>5. FetchesCounted'
  BY DEF Inv, FetchesCounted
<1>6. WokenFindsResult' /\ WokenAfterStore'
  BY <1>2 DEF Inv, WokenFindsResult, WokenAfterStore
<1> QED BY <1>3, <1>4, <1>5, <1>6 DEF Inv

\* The first poll of a future keeps the invariant.
LEMMA RequestStep ==
  ASSUME Inv, NEW f \in Future, NEW n \in Name, Request(f, n)
  PROVE  Inv'
<1>1. TypeOK /\ UNCHANGED <<solves, solving>> /\ future[f].at = "idle"
  BY DEF Inv, Request
<1>2. CASE CacheHit(f, n)
  BY <1>1, <1>2, SuspendStep DEF CacheHit
<1>3. CASE CancelRequest(f, n)
  BY <1>1, <1>3, SuspendStep DEF CancelRequest
<1>4. CASE Listen(f, n)
  BY <1>1, <1>4, SuspendStep DEF Listen
<1>5. CASE Fetch(f, n)
  <2>1. "fetching" \in State /\ Suspend(f, "fetching", n)
    BY <1>5 DEF Fetch, State
  <2>2. /\ future' \in [Future -> [at : State, name : Name]]
        /\ future'[f].at = "fetching" /\ future'[f].name = n
        /\ \A g \in Future : g # f => future'[g] = future[g]
    BY <1>1, <2>1, SuspendProperties
  <2>3. /\ n \notin cached /\ n \notin in_flight /\ in_flight' = in_flight \cup {n}
        /\ cached' = cached /\ fetches' = [fetches EXCEPT ![n] = @ + 1]
    BY <1>5 DEF Fetch
  <2>4. TypeOK'
    BY <1>1, <2>2, <2>3 DEF TypeOK
  <2>5. FlightEndsInCache'
    BY <2>2, <2>3 DEF Inv, FlightEndsInCache
  <2>6. FetchesCounted'
    BY <1>1, <2>3 DEF Inv, FetchesCounted, TypeOK
  <2>7. WokenFindsResult' /\ WokenAfterStore'
    BY <2>2, <2>3 DEF Inv, WokenFindsResult, WokenAfterStore
  <2> QED BY <2>4, <2>5, <2>6, <2>7 DEF Inv
<1> QED BY <1>2, <1>3, <1>4, <1>5 DEF Request

\* What an answer does to the futures: the fetcher is ready, the listeners on
\* its package are woken, the others are as before.
LEMMA NotifiedProperties ==
  ASSUME TypeOK, NEW f \in Future, NEW n \in Name
  PROVE  /\ Notified(f, n) \in [Future -> [at : State, name : Name]]
         /\ Notified(f, n)[f].at = "ready"
         /\ \A g \in Future : g # f =>
              /\ Notified(f, n)[g].name = future[g].name
              /\ IF future[g].at = "listening" /\ future[g].name = n
                 THEN Notified(f, n)[g].at = "woken"
                 ELSE Notified(f, n)[g].at = future[g].at
  BY DEF TypeOK, Notified, State

\* The provider's answer keeps the invariant.
LEMMA AnswerStep ==
  ASSUME Inv, NEW f \in Future, Answer(f)
  PROVE  Inv'
<1> DEFINE n == future[f].name
<1>1. TypeOK /\ n \in Name
  BY DEF Inv, TypeOK
<1>2. /\ future[f].at = "fetching" /\ cached' = cached \cup {n}
      /\ in_flight' = in_flight \ {n} /\ future' = Notified(f, n)
      /\ UNCHANGED <<solves, solving, fetches>>
  BY DEF Answer
<1>3. n \in in_flight
  BY <1>2 DEF Inv, FlightEndsInCache
<1> HIDE DEF n
<1>4. /\ future' \in [Future -> [at : State, name : Name]]
      /\ future'[f].at = "ready"
      /\ \A g \in Future : g # f =>
           /\ future'[g].name = future[g].name
           /\ IF future[g].at = "listening" /\ future[g].name = n
              THEN future'[g].at = "woken" ELSE future'[g].at = future[g].at
  BY <1>1, <1>2, NotifiedProperties
<1>5. TypeOK'
  BY <1>1, <1>2, <1>4 DEF TypeOK
<1>6. FlightEndsInCache'
  <2>1. (in_flight \cap cached)' = {}
    BY <1>2 DEF Inv, FlightEndsInCache
  <2>2. ASSUME NEW g \in Future, future'[g].at = "fetching"
        PROVE  g # f /\ future[g].at = "fetching" /\ future'[g].name = future[g].name
    BY <1>4, <2>2
  <2>3. ASSUME NEW g \in Future, future'[g].at = "fetching"
        PROVE  future'[g].name \in in_flight'
    BY <1>2, <2>2, <2>3 DEF Inv, FlightEndsInCache, n
  <2>4. ASSUME NEW g \in Future, NEW h \in Future, future'[g].at = "fetching",
               future'[h].at = "fetching", future'[g].name = future'[h].name
        PROVE  g = h
    BY <2>2, <2>4 DEF Inv, FlightEndsInCache
  <2> QED BY <2>1, <2>3, <2>4 DEF FlightEndsInCache
<1>7. FetchesCounted'
  BY <1>2, <1>3 DEF Inv, FetchesCounted
<1>8. WokenFindsResult' /\ WokenAfterStore'
  BY <1>2, <1>4 DEF Inv, WokenFindsResult, WokenAfterStore
<1> QED BY <1>5, <1>6, <1>7, <1>8 DEF Inv

\* A woken future finds its result and keeps the invariant.
LEMMA ResumeStep ==
  ASSUME Inv, NEW f \in Future, Resume(f)
  PROVE  Inv'
<1>1. TypeOK /\ future[f].name \in Name /\ future[f].name \in cached
  BY DEF Inv, TypeOK, Resume, WokenAfterStore
<1>2. /\ Suspend(f, "ready", future[f].name)
      /\ UNCHANGED <<cached, in_flight, solves, solving, fetches>>
  BY <1>1 DEF Resume
<1> QED BY <1>1, <1>2, SuspendStep

\* The invariant holds initially.
LEMMA InitInv == Init => Inv
<1> SUFFICES ASSUME Init PROVE Inv
  OBVIOUS
<1>1. /\ future \in [Future -> [at : State, name : Name]]
      /\ \A f \in Future : future[f].at = "idle"
  BY IdleType DEF Init
<1> QED BY <1>1 DEF Init, Inv, TypeOK, FlightEndsInCache, WokenFindsResult,
           FetchesCounted, WokenAfterStore

\* Every step keeps the invariant.
LEMMA NextInv == Inv /\ [Next]_vars => Inv'
<1> SUFFICES ASSUME Inv, [Next]_vars PROVE Inv'
  OBVIOUS
<1>1. CASE BeginSolve
  BY <1>1 DEF BeginSolve, Inv, TypeOK, FlightEndsInCache, WokenFindsResult,
              FetchesCounted, WokenAfterStore
<1>2. CASE \E f \in Future, n \in Name : Request(f, n)
  BY <1>2, RequestStep
<1>3. CASE \E f \in Future : Answer(f) \/ Resume(f)
  BY <1>3, AnswerStep, ResumeStep
<1>4. CASE Abort \/ EndSolve
  <2>1. /\ future' = Idle /\ solving' = FALSE
        /\ UNCHANGED <<cached, in_flight, solves, fetches>>
    BY <1>4 DEF Abort, EndSolve
  <2>2. /\ future' \in [Future -> [at : State, name : Name]]
        /\ \A f \in Future : future'[f].at = "idle"
    BY <2>1, IdleType
  <2> QED BY <2>1, <2>2 DEF Inv, TypeOK, FlightEndsInCache, WokenFindsResult,
             FetchesCounted, WokenAfterStore
<1>5. CASE AllSolved \/ UNCHANGED vars
  BY <1>5 DEF AllSolved, vars, Inv, TypeOK, FlightEndsInCache, WokenFindsResult,
              FetchesCounted, WokenAfterStore
<1> QED BY <1>1, <1>2, <1>3, <1>4, <1>5 DEF Next

\* The invariant, as a theorem of the specification.
THEOREM CacheInvariant == Spec => []Inv
  BY InitInv, NextInv, PTL DEF Spec

\* The provider is asked at most once for a package, whatever the interleaving.
THEOREM AskedAtMostOnce == Spec => []FetchedAtMostOnce
<1>1. Inv => FetchedAtMostOnce
  BY DEF Inv, FetchesCounted, FetchedAtMostOnce
<1> QED BY <1>1, CacheInvariant, PTL

\* Every fetch in progress owns the one Event of its package, so the expect on
\* removing the notifier holds.
THEOREM OneFlightPerPackage == Spec => []FlightEndsInCache
<1>1. Inv => FlightEndsInCache
  BY DEF Inv
<1> QED BY <1>1, CacheInvariant, PTL

\* The expect on the cached result after waiting never panics.
THEOREM WakeUpIsSafe == Spec => []WokenFindsResult
<1>1. Inv => WokenFindsResult
  BY DEF Inv
<1> QED BY <1>1, CacheInvariant, PTL

----------------------------------------------------------------------------
(* Nobody waits for a request that was dropped                              *)

\* Only the last call of solve is cancelled: the cache is not used again after
\* a cancellation.
OnlyLastCancels == \A s \in CancellableSolves : s \in Nat /\ s >= MaxSolves

\* Every Event in the map belongs to a running fetch, until the last solve ended.
EventsAreOwned ==
  \/ \A n \in in_flight :
       \E g \in Future : future[g].at = "fetching" /\ future[g].name = n
  \/ ~solving /\ solves >= MaxSolves

\* Between two calls of solve there are no futures.
IdleBetweenSolves == ~solving => \A f \in Future : future[f].at = "idle"

\* A failed future was cancelled in this solve.
FailureIsCancel == \A f \in Future : future[f].at = "failed" => solves \in CancellableSolves

\* Whoever listens does so on an Event that is still in the map.
ListensOnEvent == \A f \in Future : future[f].at = "listening" => future[f].name \in in_flight

\* The inductive invariant behind ListenerHasFetcher.
OwnerInv == Inv /\ EventsAreOwned /\ IdleBetweenSolves /\ FailureIsCancel /\ ListensOnEvent

\* Owned Events stay owned under the first poll of a future.
LEMMA RequestOwned ==
  ASSUME OwnerInv, NEW f \in Future, NEW n \in Name, Request(f, n)
  PROVE  EventsAreOwned' /\ IdleBetweenSolves' /\ FailureIsCancel' /\ ListensOnEvent'
<1>1. /\ TypeOK /\ UNCHANGED <<solves, solving>> /\ future[f].at = "idle" /\ solving
      /\ \A m \in in_flight :
           \E g \in Future : future[g].at = "fetching" /\ future[g].name = m
  BY DEF OwnerInv, Inv, Request, EventsAreOwned
<1>2. PICK w \in {"ready", "failed", "listening", "fetching"} :
        /\ Suspend(f, w, n)
        /\ w = "failed" => solves \in CancellableSolves
        /\ w = "listening" => n \in in_flight
        /\ IF w = "fetching" THEN in_flight' = in_flight \cup {n}
                             ELSE in_flight' = in_flight
  BY DEF Request, CacheHit, CancelRequest, Listen, Fetch
<1>3. w \in State
  BY DEF State
<1>4. /\ future'[f].at = w /\ future'[f].name = n
      /\ \A g \in Future : g # f => future'[g] = future[g]
  BY <1>1, <1>2, <1>3, SuspendProperties
<1>5. \A g \in Future : future[g].at = "fetching" => future'[g] = future[g]
  BY <1>1, <1>4
<1>6. EventsAreOwned'
  <2> SUFFICES ASSUME NEW m \in in_flight'
               PROVE  \E g \in Future : future'[g].at = "fetching" /\ future'[g].name = m
    BY DEF EventsAreOwned
  <2>1. CASE m \in in_flight
    BY <1>1, <1>5, <2>1
  <2>2. CASE m \notin in_flight
    BY <1>2, <1>4, <2>2
  <2> QED BY <2>1, <2>2
<1>7. IdleBetweenSolves'
  BY <1>1 DEF IdleBetweenSolves
<1>8. FailureIsCancel' /\ ListensOnEvent'
  BY <1>1, <1>2, <1>4 DEF OwnerInv, FailureIsCancel, ListensOnEvent
<1> QED BY <1>6, <1>7, <1>8

\* Owned Events stay owned when one is answered and removed.
LEMMA AnswerOwned ==
  ASSUME OwnerInv, NEW f \in Future, Answer(f)
  PROVE  EventsAreOwned' /\ IdleBetweenSolves' /\ FailureIsCancel' /\ ListensOnEvent'
<1> DEFINE n == future[f].name
<1>1. /\ future[f].at = "fetching" /\ in_flight' = in_flight \ {n}
      /\ future' = Notified(f, n) /\ UNCHANGED <<solves, solving>>
      /\ TypeOK /\ n \in Name
  BY DEF Answer, OwnerInv, Inv, TypeOK
<1>2. solving
  BY <1>1 DEF OwnerInv, IdleBetweenSolves
<1>3. \A m \in in_flight :
        \E g \in Future : future[g].at = "fetching" /\ future[g].name = m
  BY <1>2 DEF OwnerInv, EventsAreOwned
<1> HIDE DEF n
<1>4. /\ future'[f].at = "ready"
      /\ \A g \in Future : g # f =>
           /\ future'[g].name = future[g].name
           /\ IF future[g].at = "listening" /\ future[g].name = n
              THEN future'[g].at = "woken" ELSE future'[g].at = future[g].at
  BY <1>1, NotifiedProperties
<1>5. EventsAreOwned'
  <2> SUFFICES ASSUME NEW m \in in_flight'
               PROVE  \E g \in Future : future'[g].at = "fetching" /\ future'[g].name = m
    BY DEF EventsAreOwned
  <2>1. m \in in_flight /\ m # n
    BY <1>1
  <2>2. PICK g \in Future : future[g].at = "fetching" /\ future[g].name = m
    BY <1>3, <2>1
  <2>3. g # f
    BY <2>1, <2>2 DEF n
  <2> QED BY <1>4, <2>2, <2>3
<1>6. IdleBetweenSolves'
  BY <1>1, <1>2 DEF IdleBetweenSolves
<1>7. FailureIsCancel'
  BY <1>1, <1>4 DEF OwnerInv, FailureIsCancel
<1>8. ListensOnEvent'
  <2> SUFFICES ASSUME NEW g \in Future, future'[g].at = "listening"
               PROVE  future'[g].name \in in_flight'
    BY DEF ListensOnEvent
  <2>1. g # f /\ future[g].at = "listening" /\ future[g].name # n
    BY <1>4
  <2> QED BY <1>1, <1>4, <2>1 DEF OwnerInv, ListensOnEvent
<1> QED BY <1>5, <1>6, <1>7, <1>8

\* Owned Events stay owned when a woken future goes on.
LEMMA ResumeOwned ==
  ASSUME OwnerInv, NEW f \in Future, Resume(f)
  PROVE  EventsAreOwned' /\ IdleBetweenSolves' /\ FailureIsCancel' /\ ListensOnEvent'
<1>1. /\ TypeOK /\ future[f].at = "woken" /\ future[f].name \in Name
      /\ future[f].name \in cached
      /\ UNCHANGED <<in_flight, solves, solving>>
  BY DEF OwnerInv, Inv, TypeOK, Resume, WokenAfterStore
<1>2. Suspend(f, "ready", future[f].name) /\ "ready" \in State
  BY <1>1 DEF Resume, State
<1>3. /\ future'[f].at = "ready"
      /\ \A g \in Future : g # f => future'[g] = future[g]
  BY <1>1, <1>2, SuspendProperties
<1>4. \A g \in Future : future[g].at = "fetching" => future'[g] = future[g]
  BY <1>1, <1>3
<1>5. EventsAreOwned'
  BY <1>1, <1>4 DEF OwnerInv, EventsAreOwned
<1>6. solving
  BY <1>1 DEF OwnerInv, IdleBetweenSolves
<1> QED BY <1>1, <1>3, <1>5, <1>6 DEF OwnerInv, IdleBetweenSolves, FailureIsCancel,
           ListensOnEvent

\* The owner invariant is inductive when only the last solve is cancelled.
LEMMA NextOwnerInv ==
  ASSUME OnlyLastCancels, OwnerInv, [Next]_vars
  PROVE  OwnerInv'
<1>1. Inv'
  BY NextInv DEF OwnerInv
<1>2. solves \in Nat /\ solving \in BOOLEAN
  BY DEF OwnerInv, Inv, TypeOK
<1>3. CASE BeginSolve
  BY <1>1, <1>2, <1>3, CacheAssumption
     DEF BeginSolve, OwnerInv, EventsAreOwned, IdleBetweenSolves, FailureIsCancel,
         ListensOnEvent
<1>4. CASE \E f \in Future, n \in Name : Request(f, n)
  BY <1>1, <1>4, RequestOwned DEF OwnerInv
<1>5. CASE \E f \in Future : Answer(f) \/ Resume(f)
  BY <1>1, <1>5, AnswerOwned, ResumeOwned DEF OwnerInv
<1>6. CASE Abort
  <2>1. solves >= MaxSolves /\ solves' = solves /\ solving' = FALSE
    BY <1>6 DEF Abort, OwnerInv, FailureIsCancel, OnlyLastCancels
  <2>2. \A f \in Future : future'[f].at = "idle"
    BY <1>6, IdleType DEF Abort
  <2> QED BY <1>1, <2>1, <2>2 DEF OwnerInv, EventsAreOwned, IdleBetweenSolves,
             FailureIsCancel, ListensOnEvent
<1>7. CASE EndSolve
  <2>1. in_flight = {} /\ in_flight' = {}
    BY <1>7 DEF EndSolve, OwnerInv, EventsAreOwned
  <2>2. \A f \in Future : future'[f].at = "idle"
    BY <1>7, IdleType DEF EndSolve
  <2> QED BY <1>1, <2>1, <2>2 DEF OwnerInv, EventsAreOwned, IdleBetweenSolves,
             FailureIsCancel, ListensOnEvent
<1>8. CASE AllSolved \/ UNCHANGED vars
  BY <1>1, <1>8 DEF AllSolved, vars, OwnerInv, EventsAreOwned, IdleBetweenSolves,
                    FailureIsCancel, ListensOnEvent
<1> QED BY <1>3, <1>4, <1>5, <1>6, <1>7, <1>8 DEF Next

\* As long as only the last solve is cancelled, every listener waits for a fetch
\* that is still running. Without the assumption it fails: the Event of a
\* request that a cancelled solve dropped stays in the map.
THEOREM ListenersAreServed == OnlyLastCancels => (Spec => []ListenerHasFetcher)
<1> SUFFICES ASSUME OnlyLastCancels PROVE Spec => []ListenerHasFetcher
  OBVIOUS
<1>1. Init => OwnerInv
  BY InitInv, IdleType DEF Init, OwnerInv, EventsAreOwned, IdleBetweenSolves,
     FailureIsCancel, ListensOnEvent
<1>2. OwnerInv /\ [Next]_vars => OwnerInv'
  BY NextOwnerInv
<1>3. OwnerInv => ListenerHasFetcher
  BY DEF OwnerInv, EventsAreOwned, IdleBetweenSolves, ListensOnEvent, ListenerHasFetcher
<1> QED BY <1>1, <1>2, <1>3, PTL DEF Spec
============================================================================
