SPECIFICATION Spec
CONSTANTS
  t1 = t1 t2 = t2 d1 = d1 d2 = d2
  name = name must = must rain = rain chore = chore fresh = fresh
  Turns = {t1, t2}
  Text <- TextMC
  LowValue = {}
  Attributed = {t1}
  MaxDay = 2
  MaxKills = 1
  Dreams = {d1, d2}
  Kinds <- KindsMC
  Lines = {name, must, rain, chore, fresh}
  LineOf <- LineOfMC
  Mentions <- MentionsMC
  Secret = {t2}
  Fleeting = {}
  Words = {"top", "bottom", "mine"}
  PromoteUnknown = TRUE
  Openings <- OpeningsMC
INVARIANT TalkOfOneDay
PROPERTIES SecretsStayOut DiscardedIsArchived DryRunsLeaveNoTrace KeptUnlessForgettable UserTextSurvives
CHECK_DEADLOCK FALSE
