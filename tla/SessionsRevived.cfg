\* One browser, one other client that changes the password, no fault.
SPECIFICATION WebSpec
CONSTANTS
    m1 = m1
    r1 = r1
    d1 = d1
    NoFlight = NoFlight
    Address = {m1}
    Password = {10, 12}
    Call = {r1, d1}
    Request = {r1}
    RefreshTtl = 2
    AccessTtl = 1
    MaxClock = 1
    MaxCalls = 2
    MaxFaults = 0
PROPERTIES
    RevocationIsFinal
CHECK_DEADLOCK FALSE
