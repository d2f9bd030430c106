\* Two conversations, one of which can never be summarised.
SPECIFICATION FairSpec
CONSTANTS
  Threads = {t1, t2}
  MaxTurns = 2
  MaxCrashes = 1
  Broken = {t2}
PROPERTIES
  QuietClosedInFull
  ExpiredIsCovered
  MarkersDrain
\* Conversations end.
CHECK_DEADLOCK FALSE
