\* One browser with two requests at a time, two other clients, three requests in all, one fault.
SPECIFICATION WebLiveSpec
CONSTANTS
    m1 = m1
    r1 = r1
    r2 = r2
    d1 = d1
    d2 = d2
    NoFlight = NoFlight
    Address = {m1}
    Password = {9, 10, 12}
    Call = {r1, r2, d1, d2}
    Request = {r1, r2}
    RefreshTtl = 2
    AccessTtl = 1
    MaxClock = 2
    MaxCalls = 3
    MaxFaults = 1
INVARIANTS
    TypeOK
    OneAccountPerEmail
    SupersededStaysDead
    OnlyRacesOutliveAChange
    TokenSpentOnce
    SessionLostForACause
PROPERTIES
    RequestsEnd
CHECK_DEADLOCK FALSE
