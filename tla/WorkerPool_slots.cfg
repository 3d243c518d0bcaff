SPECIFICATION FairSpec
CONSTANTS
  Jobs = {j1, j2, j3, j4, j5}
  MaxConcurrent = 2
INVARIANTS
  TypeOK
  WaitsOnlyWhenFull
  LiveSlotsWithinCapacity
PROPERTIES
  FifoPromotion
  ImplementsBoundedExecution
  ServedWhileLeakFree
CHECK_DEADLOCK FALSE
