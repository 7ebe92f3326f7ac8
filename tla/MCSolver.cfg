CONSTANTS
  Name <- MCName
  Solvable <- MCSolvable
  Candidates <- MCCandidates
  VersionSet <- MCVersionSet
  VsName <- MCVsName
  VsMatch <- MCVsMatch
  Requirement <- MCRequirement
  ReqVs <- MCReqVs
  Conditions <- NoConditions
  ConstrainsAuxThreshold = 2
  RequiresAuxThreshold = 2
  Problems <- MCProblems
SPECIFICATION FairReportSpec
INVARIANTS TypeOK NoPanic NoFalsifiedClause LearntClausesFollow ConflictIsACore
           ReasonsExplainTrail BacktrackForgetsNothing WatchListsExact
           GraphIsRooted ReportNamesACause
PROPERTIES Implements Termination DisplayEnds
