SPECIFICATION Spec
CONSTANTS
  p1 = p1
  Pages <- OnePage
  Cuts = {c1}
  MaxStreams = 1
  MaxDrops = 1
  MaxSweeps = 0
  MaxThreads = 1
INVARIANTS
  TypeOK
  ShownOutcomeHappened
  SoleStreamIsForgotten
CHECK_DEADLOCK FALSE
