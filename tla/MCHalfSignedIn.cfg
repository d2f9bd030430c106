SPECIFICATION SessionSpec
CONSTANTS
  Users = {alice, bob}
  NoOne = NoOne
  MaxAttempts = 2
INVARIANT NeverHalfSignedIn
