SPECIFICATION FairQueueSpec
CONSTANTS
    Emails = {e1, e2}
    Workers = {w1, w2}
    NoEmail = NoEmail
    BatchSize = 2
    MaxCrashes = 1
INVARIANTS
    LeaseExclusive
    DeliveredWasSent
PROPERTIES
    DeliveredIsFinal
    QueuedEmailIsTried
