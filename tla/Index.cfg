SPECIFICATION FairSpec
CONSTANTS
  Files = {daily, notes}
  Dated = {daily}
  Texts = {t1, t2}
  Blank = Blank
  None = None
  Runs = {r1, r2}
  MaxPending = 2
  Scenarios <- Considered
INVARIANTS IndexFollowsDisk
PROPERTY DatedFound
