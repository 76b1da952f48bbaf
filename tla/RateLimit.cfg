\* Three windows of two ticks and two requests at a time, one tick apart: a burst
\* across a window's edge, a late stamp, and keys that expire.
SPECIFICATION Spec
CONSTANTS
    Requests = {r1, r2}
    Burst = 1
    Refill = 1
    WindowLimit = 2
    Window = 2
    MaxDelay = 1
    MaxTime = 5
INVARIANTS
    BurstsAreSmoothed
PROPERTIES
    QuotaCountsThePast
SYMMETRY Symmetry
CHECK_DEADLOCK FALSE
