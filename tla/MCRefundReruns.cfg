\* Refund runs of one delivered order above the threshold: two runs of the
\* workflow id, with two attempts for each activity.
SPECIFICATION FairSpec
CONSTANTS
  alice = alice
  bob = bob
  Orders = {201}
  Customers = {alice}
  Owner <- MCOwner
  Total <- MCTotal
  Writers <- MCWriters
  SeedStatuses = {"delivered"}
  Kinds = {"refund"}
  Threshold = 200
  MaxAttempts = 2
  MaxRuns = 2
  MaxExecs = 2
INVARIANTS
  LedgerConsistent
  ApprovedBeforeLarge
PROPERTIES
  OnlyRefundingPays
  RunsSettle
\* Every order can end up settled with all its runs used up.
CHECK_DEADLOCK FALSE
