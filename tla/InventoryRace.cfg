\* Two request slots and the scheduler, two units a time, no fault.
SPECIFICATION Spec
CONSTANTS
    s1 = s1
    c1 = c1
    c2 = c2
    scheduler = scheduler
    NoTxn = NoTxn
    Sku = {s1}
    Client = {c1, c2}
    Scanner = scheduler
    MaxReservations = 2
    MaxQuantity = 1
    MaxOnHand = 2
    BatchSize = 2
    MaxFaults = 0
SYMMETRY ClientSymmetry
PROPERTIES
    TransitionTableHolds
