CONSTANTS
  Name <- MCName
  Solvable <- MCSolvable
  Candidates <- MCCandidates
  VersionSet <- MCVersionSet
  VsName <- MCVsName
  VsMatch <- MCVsMatch
  Requirement <- MCRequirement
  ReqVs <- MCReqVs
  Conditions <- NoConditions
  ConstrainsAuxThreshold = 2
  RequiresAuxThreshold = 2
  Problems <- MCProblems
SPECIFICATION FairReportSpec
INVARIANTS NoPanic
PROPERTIES Implements Termination
