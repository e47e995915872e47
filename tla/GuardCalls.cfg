SPECIFICATION GuardSpec
CONSTANTS
  Inputs <- MCInputs
  Ids = {1, 2}
  Shared = 8
  ToolMax = 5
  ExtraMax = 4
  MaxRounds = 3
CHECK_DEADLOCK FALSE
INVARIANTS QuestionSurvivesGuard GuardDecidesRight SentIsPaired
