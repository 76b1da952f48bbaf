SPECIFICATION FairSpec
CONSTANTS
    Purchases = {p1, p2}
    Free = {p2}
    Handlers = {h1, h2}
    Workers = {w1, w2}
    NoPurchase = NoPurchase
    BatchSize = 2
    MaxFaults = 2
INVARIANTS
    RefundedEverywhere
    MovedIsOnRecord
    WorkersExclude
PROPERTIES
    OpenRefundCompletes
    ImplementsRepayment
