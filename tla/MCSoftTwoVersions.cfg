CONSTANTS
  Name <- MCName
  Solvable <- MCSolvable
  Candidates <- MCCandidates
  VersionSet <- MCVersionSet
  VsName <- MCVsName
  VsMatch <- MCVsMatch
  Requirement <- MCRequirement
  ReqVs <- MCReqVs
  Conditions <- NoConditions
  ConstrainsAuxThreshold = 4
  RequiresAuxThreshold = 4
  Problems <- TwoVersionsProblem
SPECIFICATION ReportSpec
INVARIANT OneVersionPerPackage
