\* Three rows, healthy or poison, two rows per batch, two faults, three attempts.
SPECIFICATION LiveSpec
CONSTANTS
    paid = paid
    poison = poison
    Event = {paid, poison}
    Poison = {poison}
    MaxAttempts = 3
    RelayBatch = 2
    Skew = 1
    MaxRows = 3
    MaxFaults = 2
INVARIANTS
    TypeOK
    PublishedWasReceived
    GivenUpWhenExhausted
PROPERTIES
    NothingOvertakes
    HealthyRowsGetThrough
CHECK_DEADLOCK FALSE
