SPECIFICATION FairSpec
CONSTANTS
  Jobs = {j1}
  MaxFaults = 0
PROPERTIES
  CancelledStaysFailed
