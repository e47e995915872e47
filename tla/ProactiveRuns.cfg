SPECIFICATION FairSpec
CONSTANTS
  Jobs = {p1, p2, h1}
  Gated = {p1, p2}
  Turns = {t1}
  Dispatched = {p1, h1}
  MaxCrashes = 1
CHECK_DEADLOCK FALSE
INVARIANTS SilenceIsNoticed DeniedRunsLeaveNothing
PROPERTY EveryRunEnds
