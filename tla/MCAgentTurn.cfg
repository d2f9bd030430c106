\* One turn with the iteration limit of the code.
SPECIFICATION FairSpec
CONSTANTS
  Turns = {t1}
  tracking = tracking
  actions = actions
  status = status
  refund = refund
  Specialists = {tracking, actions}
  Tools = {status, refund}
  ToolsOf <- MCToolsOf
  MaxIterations = 3
INVARIANTS
  WithinRecursionLimit
PROPERTIES
  TurnsEnd
\* The thread ends with its turns.
CHECK_DEADLOCK FALSE
