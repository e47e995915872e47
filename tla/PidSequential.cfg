SPECIFICATION LockSpec
CONSTANTS
  Procs = {p1, p2, p3}
  Pids = {n1, n2, n3}
  Absent = Absent
  Empty = Empty
  Overlap = FALSE
INVARIANTS OneNamedServer
PROPERTY OnlyOwnerUnlinks
