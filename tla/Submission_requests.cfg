SPECIFICATION FairSpec
CONSTANTS
  r1 = r1
  r2 = r2
  r3 = r3
  r4 = r4
  Requests <- FourRequests
  Urls <- ThreeUrls
  Lookups <- TwoLookups
  MaxJobs = 2
  Threads = 2
INVARIANTS TypeOK ExcessWithinThreads LookupsAddNoDuplicate
PROPERTY LockoutEnds
CHECK_DEADLOCK FALSE
