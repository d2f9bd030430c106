\* A cancellation and a refund of one order at the threshold, asked for by
\* its owner and by somebody else.
SPECIFICATION Spec
CONSTANTS
  alice = alice
  bob = bob
  Orders = {200}
  Customers = {alice, bob}
  Owner <- MCOwner
  Total <- MCTotal
  Writers <- MCWriters
  SeedStatuses = {"absent", "shipped", "refunded"}
  Kinds = {"cancel", "refund"}
  Threshold = 200
  MaxAttempts = 2
  MaxRuns = 1
  MaxExecs = 2
INVARIANTS
  TypeOK
  OutcomeMatchesLedger
  PaidRunsNeverRefused
  CancelReportsStay
\* Every order can end up settled with all its runs used up.
CHECK_DEADLOCK FALSE
