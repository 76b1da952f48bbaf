\* Three workers: one that outlived its TTL, one that holds the lock, one that wants
\* it; three faults; a TTL longer than a start waits.
SPECIFICATION FairLockSpec
CONSTANTS
    Processes = {w1, w2, w3}
    TTL = 4
    Wait = 2
    MaxFaults = 3
    NoOwner = NoOwner
    Gone = Gone
INVARIANTS
    StartupExclusive
PROPERTIES
    StartsGoOn
