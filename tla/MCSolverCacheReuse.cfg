CONSTANTS
  Name = {p, q}
  Future = {f1, f2}
  MaxSolves = 2
  CancellableSolves <- FirstSolve
SPECIFICATION FairSpec
PROPERTY EveryWaitEnds
CHECK_DEADLOCK FALSE
