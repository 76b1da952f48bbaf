SPECIFICATION Spec
CONSTANTS
    Purchases = {p1, p2, p3}
    Requests = {r1, r2}
SYMMETRY Symmetry
INVARIANTS
    NoPayoutAfterFailure
    PayoutCovered
    PayoutOnRecord
CHECK_DEADLOCK FALSE
