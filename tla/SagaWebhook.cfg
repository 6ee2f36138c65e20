\* One order, a webhook, no fault and no crash.
SPECIFICATION Spec
CONSTANTS
    o1 = o1
    s1 = s1
    c1 = c1
    Order = {o1}
    Sku = {s1}
    CancelRequest = {c1}
    Opening = 1
    MaxAttempts = 2
    RelayBatch = 2
    Skew = 0
    CancelEarly = FALSE
    ExpireEarly = FALSE
    MaxFaults = 0
    MaxCrashes = 0
PROPERTIES
    RefundIsFinal
CHECK_DEADLOCK FALSE
