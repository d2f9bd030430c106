\* One conversation, no failure and no restart.
SPECIFICATION FairSpec
CONSTANTS
  Threads = {t1}
  MaxTurns = 2
  MaxCrashes = 0
  Broken = {}
PROPERTIES
  IdleIsSummarised
\* Conversations end.
CHECK_DEADLOCK FALSE
