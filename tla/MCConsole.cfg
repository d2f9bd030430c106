SPECIFICATION FairSpec
CONSTANTS
  alice = alice
  sam = sam
  acme = acme
  other = other
  Users = {alice, sam}
  NoOne = NoOne
  MaxAttempts = 2
  Staff = {sam}
  Customers = {acme, other}
  CustomerOf <- MCCustomerOf
  Statuses = {"pending"}
  Limits = {1}
  InitialBook <- MCBook
  MaxOrders = 2
  MaxLoads = 2
  MaxPosts = 2
INVARIANTS
  RowsBelongToSession
  ListKeepsUp
PROPERTIES
  SessionIsOneUser
  Settles
CHECK_DEADLOCK FALSE
