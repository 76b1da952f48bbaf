\* Two viewers and three requests: two starts, or an end against a failure while
\* a viewer joins; the first quarter is one tick of the clock.
SPECIFICATION Spec
CONSTANTS
    Users = {u1, u2}
    Requests = {r1, r2, r3}
    NoUser = NoUser
    Duration = 4
    MaxTime = 2
INVARIANTS
    StreamMatchesEvent
    ViewersAreMembers
    SettlementFollowsOutcome
PROPERTIES
    NothingAfterTheEnd
CHECK_DEADLOCK FALSE
SYMMETRY Symmetry
