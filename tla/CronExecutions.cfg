SPECIFICATION FairSpec
CONSTANTS
  Jobs = {j1}
  Runs = {r1, r2}
  Gens = {0, 1, 2}
  Specs <- GoodSpecs
  None = None
INVARIANTS
  SemaphoreAccounting
  RunningHasOwner
PROPERTIES
  OutcomeIsReflected
  ExecutionsDrain
