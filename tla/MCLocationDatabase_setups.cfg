\* Three first requests of any kind, failures and restarts of MySQL
CONSTANTS
    Requests = {r1, r2, r3}
    Seed <- MCSeed
    Names <- MCNames
    IDs = {9}
SPECIFICATION Spec
INVARIANTS TypeOK AllSeeded RetrySeeded
SYMMETRY Symmetry
CHECK_DEADLOCK FALSE
