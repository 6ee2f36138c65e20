\* One customer, one product of up to three SKUs, three requests, two at a time.
SPECIFICATION ShopSpec
CONSTANTS
    k1 = k1
    p1 = p1
    c1 = c1
    c2 = c2
    c3 = c3
    s1 = s1
    Customer = {k1}
    ProductId = {p1}
    Code = {c1, c2, c3}
    Quantity = {0, 1}
    NewPrices <- MCNewPrices
    NewSkus <- MCNewSkus
    Details <- MCDetails
    Slot = {1, 2}
    MaxLines = 2
    MaxRequests = 3
    Shopper = k1
    MaxPosts = 2
    MaxBreaks = 1
    StockSku = {s1}
    StockQuantity = {1}
    MaxUnits = 1
    MaxAttempts = 2
    MaxCalls = 4
INVARIANTS
    TypeOK
    OneDefault
    OnlyRacesClash
    OneOrderPerCart
    OrdersArePriced
    OrderIsTold
    ScreenIsCurrent
    OrderedOncePerStay
    ContentionIsEarned
PROPERTIES
    PromiseSpec
    LedgerSpec
    RequestsAnswered
CHECK_DEADLOCK FALSE
