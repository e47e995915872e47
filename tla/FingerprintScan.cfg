SPECIFICATION Spec
CONSTANTS
  Prints = {p1, p2}
  Noise = Noise
  None = None
  Cooldown = 4
  ResolvedAfter = 2
  MaxEntries = 1
  TTL = 3
  MaxLog = 3
SYMMETRY Names
INVARIANTS
  CountsDistinct
  NoLineSkipped
PROPERTIES
  EarlyReportIsExcused
