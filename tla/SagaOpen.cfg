\* One order of one SKU, everything early, one fault, one crash, two cancel requests.
SPECIFICATION Spec
CONSTANTS
    o1 = o1
    s1 = s1
    c1 = c1
    c2 = c2
    Order = {o1}
    Sku = {s1}
    CancelRequest = {c1, c2}
    Opening = 1
    MaxAttempts = 2
    RelayBatch = 2
    Skew = 0
    CancelEarly = TRUE
    ExpireEarly = TRUE
    MaxFaults = 1
    MaxCrashes = 1
SYMMETRY SagaSymmetry
INVARIANTS
    GoodsFollowMoney
    PaidIsAuthorized
    RefundFollowsCancel
CHECK_DEADLOCK FALSE
