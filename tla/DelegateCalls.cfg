SPECIFICATION FairSpec
CONSTANTS
  Calls = {c1, c2}
  TaskLists <- MCTaskLists
  Limits <- MCLimits
  MaxTasks = 3
  MaxConcurrent = 2
  Verbose = {c1}
  MaxSecond = 1
CHECK_DEADLOCK FALSE
INVARIANTS OrderlyCall FreshContext
PROPERTY EveryCallEnds
