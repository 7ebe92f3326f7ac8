CONSTANTS
  Name <- MCName
  Solvable <- MCSolvable
  Candidates <- MCCandidates
  VersionSet <- MCVersionSet
  VsName <- MCVsName
  VsMatch <- MCVsMatch
  Requirement <- MCRequirement
  ReqVs <- MCReqVs
  Conditions <- MCConditions
  NameIndex <- MCNameIndex
  VersionSetIndex <- MCVersionSetIndex
  ConstrainsAuxThreshold = 2
  RequiresAuxThreshold = 2
  Problems <- MCProblems
SPECIFICATION FairReportSpec
INVARIANTS NoPanic DnfMeansCondition ConditionalEncodedOnce SnapshotIsClosed SnapshotReplays
PROPERTIES Implements Termination
