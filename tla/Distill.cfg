SPECIFICATION FairSpec
CONSTANTS
  s1 = s1 s2 = s2 r1 = r1 r2 = r2
  Sessions = {s1, s2}
  Runs = {r1, r2}
  Matches <- LongerName
  MaxChars = 1 MaxSessions = 1 MaxMessages = 2
  Scenarios <- WideOrOverlapping
INVARIANTS CountedOnce SearchFollowsNotes
PROPERTIES EveryMessageDone
