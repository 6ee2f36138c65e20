\* Two request slots and the scheduler, one SKU, a batch of one, one fault.
SPECIFICATION LiveSpec
CONSTANTS
    s1 = s1
    c1 = c1
    c2 = c2
    scheduler = scheduler
    NoTxn = NoTxn
    Sku = {s1}
    Client = {c1, c2}
    Scanner = scheduler
    MaxReservations = 2
    MaxQuantity = 1
    MaxOnHand = 2
    BatchSize = 1
    MaxFaults = 1
INVARIANTS
    TypeOK
    StockBounds
    ReservedMatchesPending
    OnHandMatchesConfirmed
    NoStrandedUnits
    ExpiryAnnounced
PROPERTIES
    LedgerSpec
    SelfHealing
