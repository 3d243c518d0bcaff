SPECIFICATION FairSpec
CONSTANTS
  Jobs = {j1}
  MaxFaults = 2
INVARIANTS
  TypeOK
  OneTicket
  RowFollowsTask
PROPERTIES
  ImplementsJobStatus
  EventuallySettled
  DeliveredCancelIsFinal
