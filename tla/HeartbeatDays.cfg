SPECIFICATION FairSpec
CONSTANTS
  Day = 6
  Offset = 2
  ActiveFrom = 4
  ActiveTo = 2
  Beats = 2
  MediumEvery = 2
  Threshold = 3
INVARIANTS
  HeavyOncePerDate
PROPERTIES
  ReviewsComeBack
