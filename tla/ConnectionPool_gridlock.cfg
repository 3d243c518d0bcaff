SPECIFICATION Spec
CONSTANTS
  t1 = t1
  t2 = t2
  t3 = t3
  t4 = t4
  t5 = t5
  Tasks <- FiveTasks
  Watchdog = watchdog
  Size = 10
INVARIANT WatchdogGoesOn
SYMMETRY Symmetry
