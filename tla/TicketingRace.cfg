CONSTANTS
    u1 = u1
    u2 = u2
    k1 = k1
    k2 = k2
    r1 = r1
    r2 = r2
    NoKey = NoKey
    Users = {u1, u2}
    Keys = {k1, k2}
    Requests = {r1, r2}
    OwnerOf <- RaceOwner
    KeyOf <- RaceKey
    Reachable = {u1}
    MaxTickets = 2
    SweepLimit = 2

SPECIFICATION FairSpec

INVARIANTS
    SlotsCovered
    ReleaseSucceeds

PROPERTIES
    OpenPurchaseEnds
    ImplementsAdmission

CHECK_DEADLOCK FALSE
