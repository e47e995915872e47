SPECIFICATION Spec
CONSTANTS
  Jobs = {j1, j2}
  Runs = {r1}
  Gens = {0, 1}
  Specs <- UnitSpecs
  None = None
SYMMETRY Names
VIEW LiveView
INVARIANTS
  SchedulerMirrorsStore
PROPERTIES
  ImplementsJobSchedule
