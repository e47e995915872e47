SPECIFICATION FairSpec
CONSTANTS
  t1 = t1 t2 = t2 t3 = t3 t4 = t4 t5 = t5 s1 = s1 s2 = s2
  note = note secret = secret vague = vague wordy = wordy said = said brief = brief
  Turns = {t1, t2, t3, t4, t5}
  Sessions = {s1, s2}
  SessionOf <- SessionOfMC
  Ephemeral = {t2, t3}
  Hidden = {s2}
  Slim = {t3}
  Asker <- AskerMC
  Calls <- CallsMC
  KeepRecent = 2
  Threshold = 1
  SummaryRoom = 2
  MaxHistory = 4
  Nobody = Nobody
  Openings <- OpeningsMC
  Chunks = {note, secret, vague, wordy}
  ChunkOf <- ChunkOfMC
  Snippets = {said, brief}
  SecretTexts = {secret, "DAILY_TALK.md"}
  Short = {brief}
  Size <- SizeMC
  Start <- StartMC
INVARIANTS OwnMessages QuietEphemeral CancelIsOwn  RecallIsRight
PROPERTIES KeepsWhatItRead EveryTurnEnds
CHECK_DEADLOCK FALSE
