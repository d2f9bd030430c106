SPECIFICATION FairSpec
CONSTANTS
    Processes = {p1, p2}
    Requests = {r1, r2}
    Seeds = {1}
    MaxId = 7
    MaxStarts = 2
    MaxFaults = 1
INVARIANTS
    CollisionNeedsOverlap
PROPERTIES
    BookSpec
    OrdersGoThrough
CHECK_DEADLOCK FALSE
