CONSTANTS
  Variable <- MCVariable
  Reason <- MCReason
  RootVariable = "root"
  Name <- MCName
  Requirement <- MCRequirement
  Sorted <- MCSorted
  Encodings <- MCEncodings
  ActivityAdds <- MCActivityAdds
  MaxBumps = 1
  MaxTrail = 3
SPECIFICATION Spec
INVARIANTS EligibleIsQueued HotInLockstep CachesAreFresh DecidesAsTheScan
