SPECIFICATION FairSpec
CONSTANTS
  t1 = t1
  t2 = t2
  t3 = t3
  t4 = t4
  t5 = t5
  Tasks <- TwoTasks
  Watchdog = watchdog
  Size = 6
INVARIANTS
  TypeOK
  NoGridlock
PROPERTIES
  AskIsAnswered
