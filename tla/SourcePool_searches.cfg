SPECIFICATION Spec
CONSTANTS
  j1 = j1
  j2 = j2
  q1 = q1
  q2 = q2
  NoQuery = NoQuery
  Jobs <- TwoJobs
  Queries <- TwoQueries
  Budget <- FastAndStandard
  Results = {1}
  Thin = 2
  MaxSources = 1
  Configured = TRUE
  MaxOutages = 1
INVARIANTS TypeOK ResultsSurviveFailures
CHECK_DEADLOCK FALSE
SYMMETRY Symmetry
