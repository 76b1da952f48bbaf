\* Two events and two requests of their hosts, pages of one event.
SPECIFICATION Spec
CONSTANTS
    Ids = {1, 2}
    Requests = {r1, r2}
    MaxTime = 2
    MaxDuration = 1
    MaxTickets = 2
    PageSize = 1
INVARIANTS
    ListingCovers
PROPERTIES
    HostsMindTheSold
SYMMETRY Symmetry
CHECK_DEADLOCK FALSE
