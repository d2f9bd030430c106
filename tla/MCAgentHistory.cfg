\* Two turns of a thread, one after the other or at the same time.
SPECIFICATION Spec
CONSTANTS
  Turns = {t1, t2}
  tracking = tracking
  actions = actions
  status = status
  refund = refund
  Specialists = {tracking, actions}
  Tools = {status, refund}
  ToolsOf <- MCToolsOf
  MaxIterations = 2
INVARIANTS
  LimitIsSpent
  OnlyPickedTools
  OpenCallsAreOfCutTurns
  GapsOnlyWhereCutShort
  FinishedTurnsAreKept
SYMMETRY ThreadSymmetry
\* The thread ends with its turns.
CHECK_DEADLOCK FALSE
