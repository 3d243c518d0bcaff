SPECIFICATION FairSpec
CONSTANTS
  p1 = p1
  Pages <- OnePage
  Cuts = {}
  MaxStreams = 2
  MaxDrops = 0
  MaxSweeps = 1
  MaxThreads = 0
 
PROPERTIES
  CalmPageSeesVerdict
  EmitterIsReleased
CHECK_DEADLOCK FALSE
