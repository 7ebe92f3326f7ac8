CONSTANTS
  Name <- MCName
  Solvable <- MCSolvable
  Candidates <- MCCandidates
  VersionSet <- MCVersionSet
  VsName <- MCVsName
  VsMatch <- MCVsMatch
  Requirement <- MCRequirement
  ReqVs <- MCReqVs
  Conditions <- MCConditions
  NameIndex <- MCNameIndex
  VersionSetIndex <- MCVersionSetIndex
  ConstrainsAuxThreshold = 4
  RequiresAuxThreshold = 4
  Problems <- UnrootedProblem
SPECIFICATION ReportSpec
INVARIANT GraphIsRooted
