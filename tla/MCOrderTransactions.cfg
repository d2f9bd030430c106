\* Three concurrent calls on one order, by its owner or somebody else.
SPECIFICATION Spec
CONSTANTS
  alice = alice
  bob = bob
  Orders = {1}
  Customers = {alice, bob}
  Owner <- MCOwner
  Total <- MCTotal
  Calls = {s1, s2, s3}
  Writers = {s1, s2, s3}
  SeedStatuses = {"absent", "delivered", "refunded"}
INVARIANTS
  InsertNeverConflicts
  AnswersHold
PROPERTIES
  StoreSpec
SYMMETRY CallSymmetry
