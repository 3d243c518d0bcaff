SPECIFICATION Spec
CONSTANTS
  j1 = j1
  j2 = j2
  t1 = t1
  NoJob = NoJob
  Jobs <- TwoJobs
  UrlJobs <- TwoJobs
  Topics <- OneTopic
  Judgements = {"REFUTED"}
  Readings = {"SUPPORTS"}
  Opinions = {"MIXTURE"}
  Pools <- OnePool
  MaxRuns = 2
  MaxFailed = 2
  MaxSources = 2
  MaxClaims = 2
  MaxClaimsModerate = 1
  MaxClaimsFast = 1
INVARIANTS
  TypeOK
  CompleteIsReadable
  FirstVerdictIsOwners
  UnjudgedIsUnverifiable
  ReusedVerdictStands
  SecondOverallFromClone
  CloneCopiesVerdicts
PROPERTY ImplementsJobResults
CHECK_DEADLOCK FALSE
SYMMETRY SymmetryOfTwo
