CONSTANTS
  Name = {p, q}
  Future = {f1, f2, f3}
  MaxSolves = 2
  CancellableSolves <- LastSolve
SPECIFICATION FairSpec
INVARIANTS FetchedAtMostOnce FlightEndsInCache WokenFindsResult ListenerHasFetcher
PROPERTY EveryWaitEnds
