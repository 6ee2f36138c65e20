\* One order, one crash, no other fault.
SPECIFICATION LiveSpec
CONSTANTS
    o1 = o1
    s1 = s1
    c1 = c1
    Order = {o1}
    Sku = {s1}
    CancelRequest = {c1}
    Opening = 1
    MaxAttempts = 2
    RelayBatch = 2
    Skew = 0
    CancelEarly = FALSE
    ExpireEarly = FALSE
    MaxFaults = 0
    MaxCrashes = 1
PROPERTIES
    RefundReachesPg
CHECK_DEADLOCK FALSE
