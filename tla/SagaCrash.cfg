\* One order of one or two SKUs, two crashes at any step, events in order, a TTL that outlasts the saga.
SPECIFICATION LiveSpec
CONSTANTS
    o1 = o1
    s1 = s1
    s2 = s2
    c1 = c1
    Order = {o1}
    Sku = {s1, s2}
    CancelRequest = {c1}
    Opening = 1
    MaxAttempts = 2
    RelayBatch = 2
    Skew = 0
    CancelEarly = FALSE
    ExpireEarly = FALSE
    MaxFaults = 0
    MaxCrashes = 2
INVARIANTS
    TypeOK
    StockFollowsOrder
PROPERTIES
    TtlEndsTheOrder
    UnitsComeBack
    RefundCompletes
CHECK_DEADLOCK FALSE
