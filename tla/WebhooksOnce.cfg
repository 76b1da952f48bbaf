SPECIFICATION Spec
CONSTANTS
    e1 = e1
    e2 = e2
    Events = {e1, e2}
    Foreign = {e2}
    Requests = {r1, r2, r3}
    NoEvent = NoEvent
INVARIANTS
    ProcessedWasApplied
PROPERTIES
    ImplementsInbox
