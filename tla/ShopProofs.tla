----------------------------- MODULE ShopProofs -----------------------------
(***************************************************************************)
(* Theorems about the shop: for any customers, products and prices, any    *)
(* number of requests under way, and a tab that sends as many as it likes. *)
(***************************************************************************)
EXTENDS Shop, HttpProofs, FiniteSetTheorems, SequenceTheorems

-----------------------------------------------------------------------------
(* The stock desk.  What OptimisticProofs shows of the adapter holds of the *)
(* adapter of the shop.                                                     *)

Adapter == INSTANCE OptimisticProofs WITH
    Sku <- StockSku, Quantity <- StockQuantity, Caller <- Slot

\* What the desk begins is begun by the adapter.
LEMMA DeskAsks ==
    ASSUME NEW c \in Slot, Ask(c)
    PROVE  Adapter!Next
<1>1. ASSUME NEW s \in StockSku, NEW units \in 0..MaxUnits, Desk!Create(c, s, units)
      PROVE  Adapter!Create(c, s, units)
    BY <1>1 DEF Desk!Create, Adapter!Create, Desk!Called, Adapter!Called, Desk!Idle,
                Adapter!Idle, Desk!NewRow, Adapter!NewRow, Desk!Counters, Adapter!Counters
<1>2. ASSUME NEW s \in StockSku, NEW op \in Desk!StockOperations, NEW q \in StockQuantity,
             Desk!BeginMutate(c, s, op, q)
      PROVE  op \in Adapter!StockOperations /\ Adapter!BeginMutate(c, s, op, q)
    BY <1>2 DEF Desk!BeginMutate, Adapter!BeginMutate, Desk!Called, Adapter!Called, Desk!Idle,
                Adapter!Idle, Desk!Continue, Adapter!Continue, Desk!StockOperations,
                Adapter!StockOperations, Desk!Transitions, Adapter!Transitions
<1>3. Desk!Rollback(c) => Adapter!Rollback(c)
    BY DEF Desk!Rollback, Adapter!Rollback, Desk!Idle, Adapter!Idle, Desk!Continue,
           Adapter!Continue
<1> QED
    BY <1>1, <1>2, <1>3 DEF Ask, Adapter!Next

\* A step of one of its transactions is one of the adapter's.
LEMMA DeskWorks ==
    ASSUME NEW c \in Slot, Work(c)
    PROVE  Adapter!Next
<1>1. Desk!Read(c) => Adapter!Read(c)
    BY DEF Desk!Read, Adapter!Read, Desk!Idle, Adapter!Idle, Desk!Continue, Adapter!Continue,
           Desk!ChangeAccepted, Adapter!ChangeAccepted, Desk!Changed, Adapter!Changed,
           Desk!Rehydratable, Adapter!Rehydratable, Desk!CanReserve, Adapter!CanReserve,
           Desk!Available, Adapter!Available, Desk!ReservedCovers, Adapter!ReservedCovers,
           Desk!Counters, Adapter!Counters, Desk!AfterReserve, Adapter!AfterReserve,
           Desk!AfterConfirm, Adapter!AfterConfirm, Desk!AfterRelease, Adapter!AfterRelease,
           Desk!AfterRestock, Adapter!AfterRestock, Desk!AfterRestore, Adapter!AfterRestore
<1>2. Desk!Write(c) => Adapter!Write(c)
    BY DEF Desk!Write, Adapter!Write, Desk!Locked, Adapter!Locked, Desk!Continue,
           Adapter!Continue, Desk!StillCurrent, Adapter!StillCurrent, Desk!Again, Adapter!Again
<1>3. Desk!Commit(c) => Adapter!Commit(c)
    BY DEF Desk!Commit, Adapter!Commit, Desk!Continue, Adapter!Continue, Desk!Idle, Adapter!Idle
<1>4. Desk!ReportContention(c) => Adapter!ReportContention(c)
    BY DEF Desk!ReportContention, Adapter!ReportContention, Desk!Continue, Adapter!Continue,
           Desk!Idle, Adapter!Idle
<1> QED
    BY <1>1, <1>2, <1>3, <1>4 DEF Work, Desk!Advance, Adapter!Advance, Adapter!Next

\* Whatever else the shop does, its desk is the adapter.
LEMMA DeskIsAdapter ==
    /\ Adapter!OptimisticAssumption
    /\ ShopInit => Adapter!Init
    /\ [ShopNext]_allVars => [Adapter!Next]_Adapter!stockVars
<1>1. Adapter!OptimisticAssumption
    BY DeskAssumption DEF Desk!OptimisticAssumption, Adapter!OptimisticAssumption
<1>2. ShopInit => Adapter!Init
    BY DEF ShopInit, Desk!Init, Adapter!Init, Desk!NewRow, Adapter!NewRow, Desk!Counters,
           Adapter!Counters, Desk!Idle, Adapter!Idle
<1>3. ShopNext => (UNCHANGED deskVars) \/ \E c \in Slot : Ask(c) \/ Work(c)
    BY DEF ShopNext, Browse, Shopping, Turning, Serve, Hearing, Drawing
<1>4. UNCHANGED deskVars => UNCHANGED Adapter!stockVars
    BY DEF deskVars, Adapter!stockVars
<1> QED
    BY <1>1, <1>2, <1>3, <1>4, DeskAsks, DeskWorks DEF allVars, deskVars

\* STOCK_CONTENTION is answered only when as many others as there are attempts
\* have changed the row meanwhile (optimistic-stock.repository.ts 46-80).
THEOREM DeskContentionIsReal == ShopSpec => []ContentionIsEarned
<1>1. Adapter!Spec => []Adapter!ContentionIsEarned
    BY DeskIsAdapter, Adapter!ContentionIsReal
<1>2. Adapter!ContentionIsEarned => ContentionIsEarned
    BY DEF Adapter!ContentionIsEarned, ContentionIsEarned, Desk!ContentionIsEarned
<1> QED
    BY <1>1, <1>2, DeskIsAdapter, PTL DEF ShopSpec, Adapter!Spec

\* The desk keeps the promise of stock.repository.ts: the counters of a row
\* change one accepted operation at a time.
THEOREM DeskKeepsThePromise == ShopSpec => LedgerSpec
<1>1. Adapter!Spec => Adapter!LedgerSpec
    BY DeskIsAdapter, Adapter!OptimisticKeepsThePromise
<1>2. Adapter!Ledger!Init => Desk!Ledger!Init
    BY DEF Adapter!Ledger!Init, Desk!Ledger!Init, Adapter!Ledger!NewRow, Desk!Ledger!NewRow,
           Adapter!Ledger!Counters, Desk!Ledger!Counters
<1>3. [Adapter!Ledger!Next]_<<registered, stock>> => [Desk!Ledger!Next]_<<registered, stock>>
    <2>1. ASSUME NEW s \in StockSku, Adapter!Ledger!Register(s) PROVE Desk!Ledger!Register(s)
        BY <2>1 DEF Adapter!Ledger!Register, Desk!Ledger!Register, Adapter!Ledger!NewRow,
                    Desk!Ledger!NewRow, Adapter!Ledger!Counters, Desk!Ledger!Counters
    <2>2. ASSUME NEW s \in StockSku, Adapter!Ledger!Mutate(s) PROVE Desk!Ledger!Mutate(s)
        <3>1. PICK op \in Adapter!Ledger!StockOperations, q \in StockQuantity :
                /\ Adapter!Ledger!ChangeAccepted(op, stock[s], q)
                /\ stock' = [stock EXCEPT ![s] = Adapter!Ledger!Changed(op, stock[s], q)]
            BY <2>2 DEF Adapter!Ledger!Mutate
        <3>2. op \in Desk!Ledger!StockOperations
            BY DEF Adapter!Ledger!StockOperations, Desk!Ledger!StockOperations,
                   Adapter!Ledger!Transitions, Desk!Ledger!Transitions
        <3>3. Desk!Ledger!ChangeAccepted(op, stock[s], q)
            BY <3>1 DEF Adapter!Ledger!ChangeAccepted, Desk!Ledger!ChangeAccepted,
                   Adapter!Ledger!Rehydratable, Desk!Ledger!Rehydratable,
                   Adapter!Ledger!CanReserve, Desk!Ledger!CanReserve,
                   Adapter!Ledger!Available, Desk!Ledger!Available,
                   Adapter!Ledger!ReservedCovers, Desk!Ledger!ReservedCovers
        <3>4. Adapter!Ledger!Changed(op, stock[s], q) = Desk!Ledger!Changed(op, stock[s], q)
            BY DEF Adapter!Ledger!Changed, Desk!Ledger!Changed,
                   Adapter!Ledger!Counters, Desk!Ledger!Counters,
                   Adapter!Ledger!AfterReserve, Desk!Ledger!AfterReserve,
                   Adapter!Ledger!AfterConfirm, Desk!Ledger!AfterConfirm,
                   Adapter!Ledger!AfterRelease, Desk!Ledger!AfterRelease,
                   Adapter!Ledger!AfterRestock, Desk!Ledger!AfterRestock,
                   Adapter!Ledger!AfterRestore, Desk!Ledger!AfterRestore
        <3> QED
            BY <2>2, <3>1, <3>2, <3>3, <3>4 DEF Adapter!Ledger!Mutate, Desk!Ledger!Mutate
    <2> QED
        BY <2>1, <2>2 DEF Adapter!Ledger!Next, Desk!Ledger!Next
<1> QED
    BY <1>1, <1>2, <1>3, DeskIsAdapter, PTL
       DEF ShopSpec, Adapter!Spec, LedgerSpec, Adapter!LedgerSpec, Desk!LedgerSpec,
           Adapter!Ledger!Spec, Desk!Ledger!Spec

-----------------------------------------------------------------------------
(* The storefront, one request at a time.                                   *)

IsSequence(s) == \E S : s \in Seq(S)

\* A request is taken up; a tab asks for nothing that other clients could not.
Begins(r) ==
    \/ \E k \in Customer :
          \/ \E op \in CartOps : BeginCart(r, k, op)
          \/ \E address : BeginCheckout(r, k, address)
          \/ \E op \in AddressOps : BeginBook(r, k, op)
    \/ \E p \in ProductId :
          \/ \E skus \in NewSkus : RegisterProduct(r, p, skus)
          \/ \E c \in Code, price \in NewPrices : BeginUpdatePrice(r, p, c, price)

StoreNext == \E r \in Slot : Begins(r) \/ Proceed(r)

\* What the storefront does of a step of the shop.
LEMMA StoreSteps == [ShopNext]_allVars => [StoreNext]_shopVars
<1> SUFFICES ASSUME ShopNext PROVE [StoreNext]_shopVars
    BY DEF allVars
<1>1. ASSUME NEW r \in Slot, Begin(r) PROVE Begins(r)
    BY <1>1 DEF Begin, Begins, AskedOps
<1>2. ASSUME NEW r \in Slot, Touch(r) PROVE Begins(r)
    <2>1. 1 \in AddressId /\ Shopper \in Customer
        BY StorefrontAssumption, TabAssumption DEF AddressId
    <2>2. \A s \in Skus, q \in Quantity : CartOp("add", s, q) \in CartOps
        BY DEF CartOps
    <2>3. \A s \in Skus : CartOp("remove", s, 0) \in CartOps
        BY DEF CartOps
    <2>4. \A d \in Details : AddressOp("add", 1, d) \in AddressOps
        BY <2>1 DEF AddressOps
    <2> QED
        BY <1>2, <2>1, <2>2, <2>3, <2>4
           DEF Touch, PressOrder, PressRemove, PressAdd, SubmitAddress, Begins
<1> QED
    BY <1>1, <1>2
       DEF ShopNext, StoreNext, Browse, Shopping, Serve, Ask, Work, Turning, Hearing, Drawing

\* What the variables are, as far as it is needed.
StateInv ==
    /\ DOMAIN carts = Customer
    /\ DOMAIN books = Customer
    /\ DOMAIN req = Slot
    /\ IsSequence(orders)
    /\ IsSequence(lists)
    /\ lastId \in Nat
    /\ requests \in 0..MaxRequests
    /\ lastId <= requests + 2

\* A sequence and one element more.
LEMMA OneMore ==
    ASSUME NEW s, IsSequence(s), NEW e
    PROVE  /\ IsSequence(Append(s, e))
           /\ Len(s) \in Nat /\ DOMAIN s = 1..Len(s)
           /\ Len(Append(s, e)) = Len(s) + 1
           /\ DOMAIN Append(s, e) = 1..Len(s) + 1
           /\ Append(s, e)[Len(s) + 1] = e
           /\ \A i \in 1..Len(s) : Append(s, e)[i] = s[i]
<1>1. PICK S : s \in Seq(S)
    BY DEF IsSequence
<1>2. s \in Seq(S \cup {e})
    BY <1>1
<1> QED
    BY <1>2 DEF IsSequence

\* A list that is added to, or not, is still one.
LEMMA StillSequence ==
    ASSUME NEW s, IsSequence(s), NEW t, t = s \/ \E e : t = Append(s, e)
    PROVE  IsSequence(t)
<1>1. ASSUME NEW e, t = Append(s, e) PROVE IsSequence(t)
    <2>1. IsSequence(Append(s, e))
        BY OneMore
    <2> QED
        BY <1>1, <2>1
<1> QED
    BY <1>1

\* The state of the request becomes another one.
LEMMA Became ==
    ASSUME StateInv, NEW r \in Slot, NEW state, Become(r, state)
    PROVE  /\ DOMAIN req' = Slot
           /\ req'[r] = state
           /\ \A s \in Slot : s # r => req'[s] = req[s]
BY DEF Become, StateInv

\* A request takes its slot; answers that have been read leave theirs.
LEMMA Arrived ==
    ASSUME StateInv, NEW r \in Slot, NEW state, Arrives(r, state)
    PROVE  /\ DOMAIN req' = Slot
           /\ Free(r)
           /\ req'[r] = state
           /\ \A s \in Slot : s # r => req'[s] = req[s] \/ req'[s] = Idle
           /\ requests' \in 0..MaxRequests
           /\ requests' = requests + 1
BY StorefrontAssumption DEF Arrives, StateInv

-----------------------------------------------------------------------------
(* What a request carries along was right when it was read.                 *)

\* A save of a cart is one accepted change of the cart that was read.
CartSave(x) ==
    /\ x.customer \in Customer
    /\ x.op \in CartOps
    /\ CartVerdict(x.seen.lines, x.op, MaxLines) = "OK"
    /\ x.cart.lines = CartAfter(x.seen.lines, x.op)
    /\ x.seen = NoCart \/ x.cart.id = x.seen.id

\* All prices of an order were in force together.
PricedBy(o, list) == DOMAIN o.lines \subseteq DOMAIN list /\ o.unit = Restrict(list, DOMAIN o.lines)

\* An order is made of the whole cart that was read, at prices of its time.
Since(x) == x.since \in 1..Len(lists)
OrderSave(x) ==
    /\ x.order.customer \in Customer
    /\ x.address \in AddressId
    /\ x.order.cart = x.cart.id
    /\ x.order.lines = x.cart.lines
    /\ x.cart.lines # NoLines
    /\ Since(x)
    /\ \E l \in x.since..Len(lists) : PricedBy(x.order, lists[l])

\* A save of a book is one accepted change of the book that was read.
BookSave(x) ==
    /\ x.customer \in Customer
    /\ x.op \in AddressOps
    /\ BookVerdict(x.seen, x.op) = "OK"
    /\ x.book = BookAfter(x.seen, x.op)

\* A save of a product is one new price for the product that was read.
PriceSave(x) ==
    /\ x.id \in DOMAIN products
    /\ x.op.price \in NewPrices
    /\ x.op = NewSku(x.op.code, x.op.price)
    /\ x.op.code \in DOMAIN x.seen.prices
    /\ x.product = Repriced(x.seen, x.op.code, x.op.price)
    /\ DOMAIN products[x.id].prices = DOMAIN x.seen.prices

Carried(x) ==
    /\ x.pc = "cart" => CartSave(x)
    /\ x.pc \in {"address", "prices"} => /\ x.customer \in Customer
                                          /\ x.cart.lines # NoLines
                                          /\ Since(x)
    /\ x.pc = "prices" => x.address \in AddressId
    /\ x.pc = "place" => OrderSave(x)
    /\ x.pc \in {"prune", "write"} => BookSave(x)
    /\ x.pc = "price" => PriceSave(x)

CarryInv == \A r \in Slot : Carried(req[r])

\* The list of prices in force is the last one, and addresses have ids.
RowsInv ==
    /\ Len(lists) >= 1
    /\ lists[Len(lists)] = PriceList(products)
    /\ \A k \in Customer : DOMAIN books[k] \subseteq 1..lastId

\* What was true of a request stays true while others go on.
Forward ==
    /\ \A l \in 1..Len(lists) : l \in 1..Len(lists') /\ lists'[l] = lists[l]
    /\ Len(lists) <= Len(lists')
    /\ \A p \in DOMAIN products :
          p \in DOMAIN products' /\ DOMAIN products'[p].prices = DOMAIN products[p].prices

LEMMA CarriedOn ==
    ASSUME StateInv, StateInv', Forward, NEW x, Carried(x)
    PROVE  Carried(x)'
<1>0. Len(lists) \in Nat /\ Len(lists') \in Nat
    BY OneMore DEF StateInv
<1>1. Since(x) => Since(x)'
    BY <1>0 DEF Since, Forward
<1>2. OrderSave(x) => OrderSave(x)'
    <2> SUFFICES ASSUME OrderSave(x) PROVE \E l \in x.since..Len(lists') : PricedBy(x.order, lists'[l])
        BY <1>1 DEF OrderSave, PricedBy
    <2>1. PICK l \in x.since..Len(lists) : PricedBy(x.order, lists[l])
        BY DEF OrderSave
    <2>2. x.since \in 1..Len(lists)
        BY DEF OrderSave, Since
    <2>3. l \in 1..Len(lists) /\ l \in x.since..Len(lists')
        BY <1>0, <2>1, <2>2 DEF Forward
    <2> QED
        BY <2>1, <2>3 DEF Forward
<1>3. PriceSave(x) => PriceSave(x)'
    BY DEF PriceSave, Forward
<1> QED
    BY <1>1, <1>2, <1>3 DEF Carried, CartSave, BookSave

\* Idle requests and those that are done carry nothing.
LEMMA NothingCarried ==
    /\ Carried(Idle)
    /\ \A status, code : Carried(Done(status, code))
    /\ \A error : Carried(Refused(error))
    /\ Carried(Succeeded) /\ Carried(Failed)
BY DEF Carried, Idle, Done, Refused, Succeeded, Failed

\* What a request that is taken up changes: the beginnings of saves and of
\* checkouts change nothing that other requests see.
Opens(r, state) ==
    /\ Arrives(r, state)
    /\ lastId' \in {lastId, lastId + 1}
    /\ UNCHANGED <<carts, books, products, orders, last, raced, lists>>

\* The beginnings, by the state they lead to.
CartState(k, op) ==
    LET found == carts[k] # NoCart
        cart == IF found THEN carts[k] ELSE NewCart(lastId + 1)
    IN IF ~QuantityAccepted(op) THEN Refused("QUANTITY_BELOW_MINIMUM")
       ELSE IF ~found /\ op.kind # "add" THEN Refused("CART_NOT_FOUND")
       ELSE IF CartVerdict(cart.lines, op, MaxLines) # "OK"
       THEN Refused(CartVerdict(cart.lines, op, MaxLines))
       ELSE [pc |-> "cart", customer |-> k, op |-> op, seen |-> carts[k],
             cart |-> Cart(cart.id, CartAfter(cart.lines, op))]

CheckoutState(k, address) ==
    IF LinesOf(k) = NoLines THEN Refused("EMPTY_CART")
    ELSE [pc |-> "address", customer |-> k, cart |-> carts[k], address |-> address,
          since |-> Len(lists)]

\* The id of a new address is not up to the request.
Asked(op) == IF op.kind = "add" THEN AddressOp("add", lastId + 1, op.details) ELSE op

BookState(k, op) ==
    IF op.kind \in {"add", "update"} /\ ~DetailsAccepted(op.details) THEN Refused("INVALID_ADDRESS")
    ELSE IF BookVerdict(books[k], Asked(op)) # "OK" THEN Refused(BookVerdict(books[k], Asked(op)))
    ELSE [pc |-> "prune", customer |-> k, op |-> Asked(op), seen |-> books[k],
          book |-> BookAfter(books[k], Asked(op))]

PriceState(p, code, price) ==
    IF ~PriceAccepted(price) THEN Refused("INVALID_PRICE")
    ELSE IF p \notin DOMAIN products THEN Refused("PRODUCT_NOT_FOUND")
    ELSE IF PriceVerdict(products[p], code) # "OK" THEN Refused(PriceVerdict(products[p], code))
    ELSE [pc |-> "price", id |-> p, op |-> NewSku(code, price), seen |-> products[p],
          product |-> Repriced(products[p], code, price)]

LEMMA Beginnings ==
    ASSUME StateInv, NEW r \in Slot
    PROVE  /\ \A k, op : BeginCart(r, k, op) => Opens(r, CartState(k, op))
           /\ \A k, op : BeginCart(r, k, op) =>
                lastId' = IF carts[k] = NoCart /\ op.kind = "add" /\ QuantityAccepted(op)
                          THEN lastId + 1 ELSE lastId
           /\ \A k, address : BeginCheckout(r, k, address) => Opens(r, CheckoutState(k, address))
           /\ \A k, op : BeginBook(r, k, op) => Opens(r, BookState(k, op))
           /\ \A k, op : BeginBook(r, k, op) =>
                lastId' = IF op.kind = "add" /\ DetailsAccepted(op.details)
                          THEN lastId + 1 ELSE lastId
           /\ \A p, code, price :
                BeginUpdatePrice(r, p, code, price) => Opens(r, PriceState(p, code, price))
<1>1. ASSUME NEW k, NEW op, BeginCart(r, k, op)
      PROVE  /\ Opens(r, CartState(k, op))
             /\ lastId' = IF carts[k] = NoCart /\ op.kind = "add" /\ QuantityAccepted(op)
                          THEN lastId + 1 ELSE lastId
    BY <1>1 DEF BeginCart, Start, Opens, CartState, StateInv
<1>2. ASSUME NEW k, NEW address, BeginCheckout(r, k, address)
      PROVE  Opens(r, CheckoutState(k, address))
    BY <1>2 DEF BeginCheckout, Start, Opens, CheckoutState, StateInv
<1>3. ASSUME NEW k, NEW op, BeginBook(r, k, op)
      PROVE  /\ Opens(r, BookState(k, op))
             /\ lastId' = IF op.kind = "add" /\ DetailsAccepted(op.details)
                          THEN lastId + 1 ELSE lastId
    BY <1>3 DEF BeginBook, Start, Opens, BookState, Asked, StateInv
<1>4. ASSUME NEW p, NEW code, NEW price, BeginUpdatePrice(r, p, code, price)
      PROVE  Opens(r, PriceState(p, code, price))
    BY <1>4 DEF BeginUpdatePrice, Start, Opens, PriceState, StateInv
<1> QED
    BY <1>1, <1>2, <1>3, <1>4

\* A beginning is one of these.
OpensSave(r) ==
    \/ \E k \in Customer, op \in CartOps : BeginCart(r, k, op) /\ Opens(r, CartState(k, op))
    \/ \E k \in Customer : \E address :
          BeginCheckout(r, k, address) /\ Opens(r, CheckoutState(k, address))
    \/ \E k \in Customer, op \in AddressOps : BeginBook(r, k, op) /\ Opens(r, BookState(k, op))
    \/ \E p \in ProductId, c \in Code, price \in NewPrices :
          BeginUpdatePrice(r, p, c, price) /\ Opens(r, PriceState(p, c, price))

LEMMA Steps ==
    ASSUME StateInv, [StoreNext]_shopVars
    PROVE  \/ UNCHANGED shopVars
           \/ \E r \in Slot : \/ OpensSave(r)
                              \/ \E p \in ProductId, skus \in NewSkus : RegisterProduct(r, p, skus)
                              \/ Proceed(r)
BY Beginnings DEF StoreNext, Begins, OpensSave

\* What changes, by step.
LEMMA OpensWrites ==
    ASSUME StateInv, NEW r \in Slot, OpensSave(r)
    PROVE  \E state : Opens(r, state)
BY DEF OpensSave

\* The row that comes next is one of those that are left.
RowIsNext(y) ==
    LET rows == Upcoming(y.book, y.pruned, y.held) IN
    IF rows = {} THEN y.row = NoRow ELSE y.row \in rows

\* A save that goes on to its next row is the same save.
LEMMA Turned ==
    ASSUME NEW r \in Slot, NEW x, NEW pruned, NEW held, TurnsTo(r, x, pruned, held)
    PROVE  \E y : /\ Become(r, y) /\ y.pc = "write"
                  /\ y.customer = x.customer /\ y.op = x.op /\ y.seen = x.seen /\ y.book = x.book
                  /\ y.pruned = pruned /\ y.held = held /\ RowIsNext(y)
<1> DEFINE rows == Upcoming(x.book, pruned, held)
<1>1. PICK row \in IF rows = {} THEN {NoRow} ELSE rows :
        Become(r, [pc |-> "write", customer |-> x.customer, op |-> x.op, seen |-> x.seen,
                   book |-> x.book, pruned |-> pruned, held |-> held, row |-> row])
    BY DEF TurnsTo
<1> DEFINE y == [pc |-> "write", customer |-> x.customer, op |-> x.op, seen |-> x.seen,
                 book |-> x.book, pruned |-> pruned, held |-> held, row |-> row]
<1>2. /\ y.pc = "write" /\ y.customer = x.customer /\ y.op = x.op /\ y.seen = x.seen
      /\ y.book = x.book /\ y.pruned = pruned /\ y.held = held /\ y.row = row
    OBVIOUS
<1>3. Become(r, y)
    BY <1>1
<1> HIDE DEF y
<1>4. RowIsNext(y)
    BY <1>1, <1>2 DEF RowIsNext
<1> QED
    BY <1>2, <1>3, <1>4

\* Which step of a request writes which rows.
LEMMA ProceedWrites ==
    ASSUME NEW r \in Slot, Proceed(r)
    PROVE  /\ ~FinishCart(r) /\ ~PlaceOrder(r) => carts' = carts
           /\ ~CommitBook(r) => books' = books
           /\ ~PlaceOrder(r) => orders' = orders
           /\ ~FinishUpdatePrice(r) => UNCHANGED <<products, lists>>
           /\ UNCHANGED <<lastId, requests>>
           /\ \E state : Become(r, state)
<1>1. CASE FinishCart(r)
    BY <1>1 DEF FinishCart, Accept, Fail
<1>2. CASE FindAddress(r)
    BY <1>2 DEF FindAddress
<1>3. CASE FindPrices(r)
    BY <1>3 DEF FindPrices
<1>4. CASE PlaceOrder(r)
    BY <1>4 DEF PlaceOrder, Accept
<1>5. CASE Prune(r)
    BY <1>5, Turned DEF Prune
<1>6. CASE WriteRow(r)
    BY <1>6, Turned DEF WriteRow, Fail
<1>7. CASE CommitBook(r)
    BY <1>7 DEF CommitBook, Accept
<1>8. CASE Victim(r)
    BY <1>8 DEF Victim, Fail
<1>9. CASE FinishUpdatePrice(r)
    BY <1>9 DEF FinishUpdatePrice, Accept
<1> QED
    BY <1>1, <1>2, <1>3, <1>4, <1>5, <1>6, <1>7, <1>8, <1>9 DEF Proceed

LEMMA NextState ==
    ASSUME StateInv, [StoreNext]_shopVars
    PROVE  StateInv'
<1>1. CASE UNCHANGED shopVars
    BY <1>1 DEF shopVars, StateInv
<1>2. ASSUME NEW r \in Slot, OpensSave(r) PROVE StateInv'
    <2>1. PICK state : Opens(r, state)
        BY <1>2, OpensWrites
    <2> QED
        BY <2>1, Arrived DEF Opens, StateInv
<1>3. ASSUME NEW r \in Slot, NEW p \in ProductId, NEW skus \in NewSkus, RegisterProduct(r, p, skus)
      PROVE  StateInv'
    <2>1. DOMAIN req' = Slot /\ requests' \in 0..MaxRequests /\ requests' = requests + 1
        BY <1>3, Arrived DEF RegisterProduct
    <2>2. IsSequence(lists')
        <3>1. lists' = lists \/ \E e : lists' = Append(lists, e)
            BY <1>3 DEF RegisterProduct
        <3> QED
            BY <3>1, StillSequence DEF StateInv
    <2>3. UNCHANGED <<carts, books, orders, lastId>>
        BY <1>3 DEF RegisterProduct
    <2> QED
        BY <2>1, <2>2, <2>3 DEF StateInv
<1>4. ASSUME NEW r \in Slot, Proceed(r) PROVE StateInv'
    <2>1. DOMAIN req' = Slot
        BY <1>4, ProceedWrites, Became
    <2>2. DOMAIN carts' = Customer
        BY <1>4, ProceedWrites DEF FinishCart, PlaceOrder, StateInv
    <2>3. DOMAIN books' = Customer
        BY <1>4, ProceedWrites DEF CommitBook, StateInv
    <2>4. IsSequence(orders')
        <3>1. orders' = orders \/ \E e : orders' = Append(orders, e)
            BY <1>4, ProceedWrites DEF PlaceOrder
        <3> QED
            BY <3>1, StillSequence DEF StateInv
    <2>5. IsSequence(lists')
        <3>1. lists' = lists \/ \E e : lists' = Append(lists, e)
            BY <1>4, ProceedWrites DEF FinishUpdatePrice
        <3> QED
            BY <3>1, StillSequence DEF StateInv
    <2>6. lastId' = lastId /\ requests' = requests
        BY <1>4, ProceedWrites
    <2> QED
        BY <2>1, <2>2, <2>3, <2>4, <2>5, <2>6 DEF StateInv
<1> QED
    BY <1>1, <1>2, <1>3, <1>4, Steps

\* A new product and a new price add a list of prices; no product loses a SKU.
LEMMA NextForward ==
    ASSUME StateInv, CarryInv, RowsInv, [StoreNext]_shopVars
    PROVE  Forward /\ Len(lists') >= 1 /\ lists'[Len(lists')] = PriceList(products')
<1> DEFINE Goal == Forward /\ Len(lists') >= 1 /\ lists'[Len(lists')] = PriceList(products')
<1>0. Len(lists) \in Nat /\ Len(lists) >= 1 /\ lists[Len(lists)] = PriceList(products)
    BY OneMore DEF StateInv, RowsInv
<1>1. ASSUME UNCHANGED <<lists, products>> PROVE Goal
    BY <1>0, <1>1 DEF Forward
<1>2. ASSUME NEW r \in Slot, OpensSave(r) PROVE Goal
    BY <1>1, <1>2, OpensWrites DEF Opens
<1>3. ASSUME NEW r \in Slot, NEW p \in ProductId, NEW skus \in NewSkus, RegisterProduct(r, p, skus)
      PROVE  Goal
    <2>1. CASE RegisterVerdict(skus) # "OK"
        BY <1>1, <1>3, <2>1 DEF RegisterProduct
    <2>2. CASE RegisterVerdict(skus) = "OK"
        <3>1. lists' = Append(lists, PriceList(products'))
            BY <1>3, <2>2 DEF RegisterProduct
        <3>2. \A q \in DOMAIN products : q \in DOMAIN products' /\ products'[q] = products[q]
            BY <1>3, <2>2 DEF RegisterProduct
        <3> QED
            BY <3>1, <3>2, <1>0, OneMore DEF Forward, StateInv
    <2> QED
        BY <2>1, <2>2
<1>4. ASSUME NEW r \in Slot, Proceed(r) PROVE Goal
    <2>1. CASE FinishUpdatePrice(r)
        <3>1. lists' = Append(lists, PriceList(products'))
            BY <2>1 DEF FinishUpdatePrice
        <3>2. PriceSave(req[r])
            BY <2>1 DEF FinishUpdatePrice, CarryInv, Carried
        <3>3. DOMAIN req[r].product.prices = DOMAIN products[req[r].id].prices
            BY <3>2 DEF PriceSave, Repriced, Product
        <3>4. \A q \in DOMAIN products :
                q \in DOMAIN products' /\ DOMAIN products'[q].prices = DOMAIN products[q].prices
            BY <2>1, <3>2, <3>3 DEF FinishUpdatePrice, PriceSave
        <3> QED
            BY <3>1, <3>4, <1>0, OneMore DEF Forward, StateInv
    <2>2. CASE ~FinishUpdatePrice(r)
        BY <1>1, <1>4, <2>2, ProceedWrites
    <2> QED
        BY <2>1, <2>2
<1>5. CASE UNCHANGED shopVars
    BY <1>1, <1>5 DEF shopVars
<1> QED
    BY <1>2, <1>3, <1>4, <1>5, Steps

\* The other requests carry on.
LEMMA CarryOthers ==
    ASSUME StateInv, StateInv', Forward, CarryInv, NEW r \in Slot, NEW x,
           req'[r] = x, Carried(x)',
           \A s \in Slot : s # r => req'[s] = req[s] \/ req'[s] = Idle
    PROVE  CarryInv'
<1> SUFFICES ASSUME NEW s \in Slot PROVE Carried(req[s])'
    BY DEF CarryInv
<1>1. CASE s = r
    BY <1>1
<1>2. CASE req'[s] = req[s]
    <2>1. Carried(req[s])
        BY DEF CarryInv
    <2> DEFINE y == req[s]
    <2>2. \A z : Carried(z) => Carried(z)'
        BY CarriedOn
    <2>3. \A z : Carried(z) /\ req'[s] = z => Carried(req[s])'
        BY <2>2
    <2> QED
        BY <1>2, <2>1, <2>3
<1>3. CASE req'[s] = Idle
    <2>1. \A z : z.pc = "idle" => Carried(z)'
        BY DEF Carried
    <2> QED
        BY <1>3, <2>1 DEF Idle
<1> QED
    BY <1>1, <1>2, <1>3

\* Beginnings read what is committed.
LEMMA CartCarried ==
    ASSUME NEW k \in Customer, NEW op \in CartOps
    PROVE  \A x : x = CartState(k, op) => Carried(x)'
<1> TAKE x
<1> HAVE x = CartState(k, op)
<1>1. x.pc = "done" \/ (x.pc = "cart" /\ CartSave(x))
    BY DEF CartState, Refused, Done, CartSave, NewCart, NoCart, Cart
<1> QED
    BY <1>1 DEF Carried, CartSave

LEMMA CheckoutCarried ==
    ASSUME StateInv, RowsInv, NEW k \in Customer, NEW address, UNCHANGED lists
    PROVE  \A x : x = CheckoutState(k, address) => Carried(x)'
<1> TAKE x
<1> HAVE x = CheckoutState(k, address)
<1>1. Len(lists) \in 1..Len(lists)
    BY OneMore DEF StateInv, RowsInv
<1>2. x.pc = "done" \/ /\ x.pc = "address" /\ x.customer \in Customer
                        /\ x.cart.lines # NoLines /\ Since(x)'
    BY <1>1 DEF CheckoutState, Refused, Done, LinesOf, Since
<1> QED
    BY <1>2 DEF Carried

LEMMA AskedIsAddressOp ==
    ASSUME StateInv, NEW r \in Slot, NEW k \in Customer, NEW op \in AddressOps,
           BeginBook(r, k, op)
    PROVE  Asked(op) \in AddressOps
<1>1. requests < MaxRequests
    BY DEF BeginBook, Start, Arrives
<1>2. lastId + 1 \in AddressId
    BY <1>1, StorefrontAssumption DEF StateInv, AddressId
<1>3. CASE op.kind = "add"
    <2>1. op.details \in Details
        BY <1>3 DEF AddressOps, AddressOp
    <2> QED
        BY <1>2, <1>3, <2>1 DEF Asked, AddressOps
<1>4. CASE op.kind # "add"
    BY <1>4 DEF Asked
<1> QED
    BY <1>3, <1>4

LEMMA BookCarried ==
    ASSUME StateInv, NEW r \in Slot, NEW k \in Customer, NEW op \in AddressOps,
           BeginBook(r, k, op)
    PROVE  \A x : x = BookState(k, op) => Carried(x)'
<1> TAKE x
<1> HAVE x = BookState(k, op)
<1>1. x.pc = "done" \/ (x.pc = "prune" /\ BookSave(x))
    BY AskedIsAddressOp DEF BookState, Refused, Done, BookSave
<1> QED
    BY <1>1 DEF Carried, BookSave

LEMMA PriceCarried ==
    ASSUME NEW p, NEW code, NEW price \in NewPrices, UNCHANGED products
    PROVE  \A x : x = PriceState(p, code, price) => Carried(x)'
<1> TAKE x
<1> HAVE x = PriceState(p, code, price)
<1>1. x.pc = "done" \/ (x.pc = "price" /\ PriceSave(x)')
    BY DEF PriceState, Refused, Done, PriceSave, NewSku, PriceVerdict
<1> QED
    BY <1>1 DEF Carried

LEMMA NextCarried ==
    ASSUME StateInv, CarryInv, RowsInv, [StoreNext]_shopVars
    PROVE  CarryInv'
<1>0. StateInv' /\ Forward
    BY NextState, NextForward
<1> DEFINE Others(r) == \A s \in Slot : s # r => req'[s] = req[s] \/ req'[s] = Idle
<1>a. ASSUME NEW r \in Slot, NEW x, req'[r] = x, Carried(x)', Others(r) PROVE CarryInv'
    BY <1>0, <1>a, CarryOthers
<1>1. ASSUME NEW r \in Slot, OpensSave(r) PROVE CarryInv'
    <2>1. UNCHANGED <<lists, products>>
        BY <1>1, OpensWrites DEF Opens
    <2>2. PICK x : Opens(r, x) /\ Carried(x)'
        <3>1. ASSUME NEW k \in Customer, NEW op \in CartOps, Opens(r, CartState(k, op))
              PROVE  \E x : Opens(r, x) /\ Carried(x)'
            BY <3>1, CartCarried
        <3>2. ASSUME NEW k \in Customer, NEW address, Opens(r, CheckoutState(k, address))
              PROVE  \E x : Opens(r, x) /\ Carried(x)'
            BY <2>1, <3>2, CheckoutCarried
        <3>3. ASSUME NEW k \in Customer, NEW op \in AddressOps, BeginBook(r, k, op),
                     Opens(r, BookState(k, op))
              PROVE  \E x : Opens(r, x) /\ Carried(x)'
            BY <3>3, BookCarried
        <3>4. ASSUME NEW p, NEW c, NEW price \in NewPrices, Opens(r, PriceState(p, c, price))
              PROVE  \E x : Opens(r, x) /\ Carried(x)'
            BY <2>1, <3>4, PriceCarried
        <3> QED
            BY <1>1, <3>1, <3>2, <3>3, <3>4 DEF OpensSave
    <2>3. req'[r] = x /\ Others(r)
        BY <2>2, Arrived DEF Opens
    <2> QED
        BY <1>a, <2>2, <2>3
<1>2. ASSUME NEW r \in Slot, NEW p \in ProductId, NEW skus \in NewSkus, RegisterProduct(r, p, skus)
      PROVE  CarryInv'
    <2>1. PICK x : Arrives(r, x) /\ x.pc = "done"
        BY <1>2 DEF RegisterProduct, Refused, Succeeded, Done
    <2>2. req'[r] = x /\ Others(r)
        BY <2>1, Arrived
    <2>3. Carried(x)'
        BY <2>1 DEF Carried
    <2> QED
        BY <1>a, <2>2, <2>3
<1>3. ASSUME NEW r \in Slot, NEW x, Become(r, x), x.pc = "done" PROVE CarryInv'
    <2>1. req'[r] = x /\ Others(r)
        BY <1>3, Became
    <2>2. Carried(x)'
        BY <1>3 DEF Carried
    <2> QED
        BY <1>a, <2>1, <2>2
<1>b. ASSUME NEW r \in Slot, Become(r, Succeeded) \/ Become(r, Failed) \/ \E error : Become(r, Refused(error))
      PROVE  CarryInv'
    BY <1>3, <1>b DEF Succeeded, Failed, Refused, Done
<1>5. ASSUME NEW r \in Slot, FindAddress(r) PROVE CarryInv'
    <2> DEFINE x == req[r]
    <2>1. /\ x.pc = "address" /\ x.customer \in Customer
          /\ x.cart.lines # NoLines /\ Since(x)
        BY <1>5 DEF FindAddress, CarryInv, Carried
    <2>2. CASE x.address \notin DOMAIN books[x.customer]
        BY <1>5, <1>b, <2>2 DEF FindAddress
    <2>3. CASE x.address \in DOMAIN books[x.customer]
        <3>1. x.address \in 1..lastId
            BY <2>1, <2>3 DEF RowsInv
        <3>2. x.address \in AddressId
            BY <3>1, StorefrontAssumption DEF StateInv, AddressId
        <3>3. PICK y : /\ Become(r, y) /\ y.pc = "prices" /\ y.customer = x.customer
                       /\ y.cart = x.cart /\ y.address = x.address /\ y.since = x.since
            BY <1>5, <2>3 DEF FindAddress
        <3>4. lists' = lists
            BY <1>5 DEF FindAddress
        <3>5. Carried(y)'
            BY <2>1, <3>2, <3>3, <3>4 DEF Carried, Since
        <3>6. req'[r] = y /\ Others(r)
            BY <3>3, Became
        <3> QED
            BY <1>a, <3>5, <3>6
    <2> QED
        BY <2>2, <2>3
<1>6. ASSUME NEW r \in Slot, FindPrices(r) PROVE CarryInv'
    <2> DEFINE x == req[r]
               verdict == OrderVerdict(x.cart.lines, CurrentPrices)
    <2>1. /\ x.pc = "prices" /\ x.customer \in Customer /\ x.address \in AddressId
          /\ x.cart.lines # NoLines /\ Since(x)
        BY <1>6 DEF FindPrices, CarryInv, Carried
    <2>2. CASE verdict # "OK"
        BY <1>6, <1>b, <2>2 DEF FindPrices
    <2>3. CASE verdict = "OK"
        <3> DEFINE o == PlacedOrder(x.customer, x.cart, CurrentPrices, x.to)
        <3>1. DOMAIN x.cart.lines \subseteq DOMAIN CurrentPrices
            BY <2>3 DEF OrderVerdict, Missing
        <3>2. Priced(x.cart.lines, CurrentPrices) = Restrict(CurrentPrices, DOMAIN x.cart.lines)
            <4>1. DOMAIN x.cart.lines \cap DOMAIN CurrentPrices = DOMAIN x.cart.lines
                BY <3>1
            <4> QED
                BY <4>1 DEF Priced
        <3>3. /\ o.customer = x.customer /\ o.cart = x.cart.id /\ o.lines = x.cart.lines
              /\ o.unit = Priced(x.cart.lines, CurrentPrices)
            BY DEF PlacedOrder
        <3>4. PICK y : /\ Become(r, y) /\ y.pc = "place" /\ y.cart = x.cart
                       /\ y.address = x.address /\ y.since = x.since /\ y.order = o
            BY <1>6, <2>3 DEF FindPrices
        <3> HIDE DEF o
        <3>5. PricedBy(o, lists[Len(lists)])
            BY <3>1, <3>2, <3>3 DEF PricedBy, RowsInv, CurrentPrices
        <3>6. lists' = lists
            BY <1>6 DEF FindPrices
        <3>7. OrderSave(y)'
            <4>1. Len(lists) \in y.since..Len(lists)
                BY <2>1, <3>4, OneMore DEF Since, StateInv
            <4>2. \E l \in y.since..Len(lists) : PricedBy(y.order, lists[l])
                BY <3>4, <3>5, <4>1
            <4> QED
                BY <2>1, <3>3, <3>4, <3>6, <4>2 DEF OrderSave, Since, PricedBy
        <3>8. Carried(y)'
            BY <3>4, <3>7 DEF Carried
        <3>9. req'[r] = y /\ Others(r)
            BY <3>4, Became
        <3> QED
            BY <1>a, <3>8, <3>9
    <2> QED
        BY <2>2, <2>3
<1>7. ASSUME NEW r \in Slot, Prune(r) PROVE CarryInv'
    <2> DEFINE x == req[r]
    <2>1. x.pc = "prune" /\ BookSave(x)
        BY <1>7 DEF Prune, CarryInv, Carried
    <2>2. PICK y : /\ Become(r, y) /\ y.pc = "write" /\ y.customer = x.customer /\ y.op = x.op
                   /\ y.seen = x.seen /\ y.book = x.book
        BY <1>7, Turned DEF Prune
    <2>3. Carried(y)'
        BY <2>1, <2>2 DEF Carried, BookSave
    <2>4. req'[r] = y /\ Others(r)
        BY <2>2, Became
    <2> QED
        BY <1>a, <2>3, <2>4
<1>10. ASSUME NEW r \in Slot, WriteRow(r) PROVE CarryInv'
    <2> DEFINE x == req[r]
    <2>1. x.pc = "write" /\ BookSave(x)
        BY <1>10 DEF WriteRow, CarryInv, Carried
    <2>2. CASE Clash(r)
        BY <1>b, <1>10, <2>2 DEF WriteRow, Fail
    <2>3. CASE ~Clash(r)
        <3>1. PICK y : /\ Become(r, y) /\ y.pc = "write" /\ y.customer = x.customer
                       /\ y.op = x.op /\ y.seen = x.seen /\ y.book = x.book
            BY <1>10, <2>3, Turned DEF WriteRow
        <3>2. Carried(y)'
            BY <2>1, <3>1 DEF Carried, BookSave
        <3>3. req'[r] = y /\ Others(r)
            BY <3>1, Became
        <3> QED
            BY <1>a, <3>2, <3>3
    <2> QED
        BY <2>2, <2>3
<1>8. ASSUME NEW r \in Slot,
             FinishCart(r) \/ PlaceOrder(r) \/ CommitBook(r) \/ Victim(r) \/ FinishUpdatePrice(r)
      PROVE  CarryInv'
    <2>1. Become(r, Succeeded) \/ Become(r, Failed)
        BY <1>8 DEF FinishCart, PlaceOrder, CommitBook, Victim, FinishUpdatePrice, Accept, Fail
    <2> QED
        BY <1>b, <2>1
<1>9. ASSUME UNCHANGED shopVars PROVE CarryInv'
    BY <1>9 DEF shopVars, CarryInv, Carried, CartSave, OrderSave, BookSave, PriceSave, Since
<1> QED
    BY <1>1, <1>2, <1>5, <1>6, <1>7, <1>8, <1>9, <1>10, Steps DEF Proceed

-----------------------------------------------------------------------------
(* Address books.                                                           *)

SavesBook(x) == x.pc \in {"prune", "write"}
Adds(x) == SavesBook(x) /\ x.op.kind = "add"

\* The id of a new address is nobody else's.
AddressIdInv ==
    \A r \in Slot : SavesBook(req[r]) =>
        /\ DOMAIN req[r].seen \subseteq 1..lastId
        /\ Adds(req[r]) =>
            /\ req[r].op.id \in (1..lastId) \ DOMAIN req[r].seen
            /\ \A k \in Customer : req[r].op.id \notin DOMAIN books[k]
            /\ \A s \in Slot : s # r /\ SavesBook(req[s]) =>
                /\ req[r].op.id \notin DOMAIN req[s].seen
                /\ Adds(req[s]) => req[s].op.id # req[r].op.id

\* An address that a save removes is among the rows it has deleted, or is gone
\* already; only a save that had not seen it go could have brought it back.
GoneInv ==
    \A r \in Slot :
        LET x == req[r] IN
        x.pc = "write" /\ x.op.kind = "remove" /\ OfBook(x.customer) \notin raced =>
            x.op.id \in x.pruned \/ x.op.id \notin DOMAIN books[x.customer]

\* No book that is saved or was read has two defaults.
OneOf(book) == \A a, b \in Defaults(book) : a = b
DefaultsInv ==
    /\ \A k \in Customer : OneOf(books[k])
    /\ \A r \in Slot : SavesBook(req[r]) => OneOf(req[r].seen)

\* The rows that a save holds are some of its own.
Locks(x) ==
    /\ x.held \subseteq x.pruned \cup DOMAIN x.book
    /\ x.pruned \cap DOMAIN x.book = {}
    /\ NoRow \notin x.pruned \cup DOMAIN x.book
    /\ RowIsNext(x)

\* A save that has written a default has seen to any other one: what there was
\* it holds itself, and no other save of the book has written one.
HasDefault(x) == x.held \cap Defaults(x.book) # {}
LockInv ==
    \A r \in Slot : req[r].pc = "write" =>
        /\ Locks(req[r])
        /\ HasDefault(req[r]) => Defaults(books[req[r].customer]) \subseteq req[r].held
        /\ \A s \in Slot :
              /\ s # r
              /\ req[s].pc = "write"
              /\ req[s].customer = req[r].customer
              => /\ req[r].held \cap req[s].held = {}
                 /\ ~(HasDefault(req[r]) /\ HasDefault(req[s]))

BooksInv == RowsInv /\ AddressIdInv /\ GoneInv /\ DefaultsInv /\ LockInv

\* What a save makes of the ids of the book it has seen.
LEMMA BookIds ==
    ASSUME NEW x, BookSave(x)
    PROVE  /\ x.op.kind \in {"add", "update", "remove", "default"}
           /\ x.op.kind # "add" => x.op.id \in DOMAIN x.seen
           /\ x.op.kind = "add" => DOMAIN x.book = DOMAIN x.seen \cup {x.op.id}
           /\ x.op.kind \in {"update", "default"} => DOMAIN x.book = DOMAIN x.seen
           /\ x.op.kind = "remove" => DOMAIN x.book = DOMAIN x.seen \ {x.op.id}
           /\ x.book = [a \in DOMAIN x.book |-> x.book[a]]
<1>1. x.op.kind \in {"add", "update", "remove", "default"}
    BY DEF BookSave, AddressOps, AddressOp
<1>2. x.op.kind # "add" => x.op.id \in DOMAIN x.seen
    BY DEF BookSave, BookVerdict
<1>3. x.book = BookAfter(x.seen, x.op)
    BY DEF BookSave
<1>4. CASE x.op.kind = "add"
    BY <1>3, <1>4 DEF BookAfter, WithAddress
<1>5. CASE x.op.kind = "update"
    <2>1. PICK v : x.book = [a \in DOMAIN x.seen \cup {x.op.id} |->
                                IF a = x.op.id THEN v ELSE x.seen[a]]
        BY <1>3, <1>5 DEF BookAfter, WithAddress
    <2>2. DOMAIN x.seen \cup {x.op.id} = DOMAIN x.seen
        BY <1>2, <1>5
    <2>3. DOMAIN x.book = DOMAIN x.seen
        BY <2>1, <2>2
    <2>4. x.book = [a \in DOMAIN x.book |-> x.book[a]]
        BY <2>1
    <2> QED
        BY <1>1, <1>2, <1>5, <2>3, <2>4
<1>6. CASE x.op.kind = "remove"
    <2>1. x.book = [a \in DOMAIN x.seen \ {x.op.id} |-> x.seen[a]]
        BY <1>3, <1>6 DEF BookAfter, Restrict
    <2>2. DOMAIN x.book = DOMAIN x.seen \ {x.op.id}
        BY <2>1
    <2>3. x.book = [a \in DOMAIN x.book |-> x.book[a]]
        BY <2>1
    <2> QED
        BY <1>1, <1>2, <1>6, <2>2, <2>3
<1>7. CASE x.op.kind = "default"
    <2>1. x.book = [a \in DOMAIN x.seen |-> Saved(x.seen[a].details, a = x.op.id)]
        BY <1>3, <1>7 DEF BookAfter
    <2>2. DOMAIN x.book = DOMAIN x.seen
        BY <2>1
    <2>3. x.book = [a \in DOMAIN x.book |-> x.book[a]]
        BY <2>1
    <2> QED
        BY <1>1, <1>2, <1>7, <2>2, <2>3
<1> QED
    BY <1>1, <1>2, <1>4, <1>5, <1>6, <1>7

\* The steps of the shop, as far as address books go.
BooksRest ==
    /\ books' = books
    /\ lastId <= lastId'
    /\ \A s \in Slot : req'[s] = req[s] \/ ~SavesBook(req'[s])

OthersKept(r) == \A s \in Slot : s # r => req'[s] = req[s] \/ ~SavesBook(req'[s])

BookBegun(r) ==
    /\ books' = books
    /\ OthersKept(r)
    /\ req'[r].pc = "prune"
    /\ req'[r].customer \in Customer
    /\ req'[r].seen = books[req'[r].customer]
    /\ IF req'[r].op.kind = "add" THEN req'[r].op.id = lastId + 1 /\ lastId' = lastId + 1
       ELSE lastId' = lastId

BookPruned(r) ==
    /\ books' = books
    /\ lastId' = lastId
    /\ OthersKept(r)
    /\ req[r].pc = "prune"
    /\ req'[r].pc = "write"
    /\ req'[r].customer = req[r].customer
    /\ req'[r].op = req[r].op
    /\ req'[r].seen = req[r].seen
    /\ req'[r].book = req[r].book
    /\ req'[r].pruned = Strangers(books[req[r].customer], req[r].book)
    /\ req'[r].held = {}
    /\ RowIsNext(req'[r])

RowWritten(r) ==
    LET x == req[r] y == req'[r]
        gone == ({x.row} \cap x.pruned) \ DOMAIN books[x.customer]
    IN
    /\ books' = books
    /\ lastId' = lastId
    /\ OthersKept(r)
    /\ x.pc = "write" /\ x.row # NoRow /\ Blockers(r) = {} /\ ~Clash(r)
    /\ y.pc = "write"
    /\ y.customer = x.customer
    /\ y.op = x.op
    /\ y.seen = x.seen
    /\ y.book = x.book
    /\ y.pruned = x.pruned \ gone
    /\ y.held = x.held \cup ({x.row} \ gone)
    /\ RowIsNext(y)

BookWritten(r) ==
    LET x == req[r] k == x.customer IN
    /\ x.pc = "write"
    /\ x.row = NoRow
    /\ lastId' = lastId
    /\ OthersKept(r)
    /\ ~SavesBook(req'[r])
    /\ books' = [books EXCEPT ![k] = Merged(books[k], x.pruned, x.book)]
    /\ OfBook(k) \in raced' \/ x.seen = books[k]

\* What was raced once stays so.
LEMMA RacedGrows == ASSUME StateInv, [StoreNext]_shopVars PROVE raced \subseteq raced'
<1>1. ASSUME NEW r \in Slot, OpensSave(r) PROVE raced' = raced
    BY <1>1, OpensWrites DEF Opens
<1>2. ASSUME NEW r \in Slot, NEW p, NEW skus, RegisterProduct(r, p, skus) PROVE raced' = raced
    BY <1>2 DEF RegisterProduct
<1>3. ASSUME NEW r \in Slot, Proceed(r) PROVE raced \subseteq raced'
    <2>1. FindAddress(r) \/ FindPrices(r) \/ Prune(r) \/ WriteRow(r) \/ Victim(r) => raced' = raced
        BY DEF FindAddress, FindPrices, Prune, WriteRow, Victim
    <2>2. FinishCart(r) => raced \subseteq raced'
        BY DEF FinishCart, Races
    <2>3. PlaceOrder(r) \/ FinishUpdatePrice(r) => raced \subseteq raced'
        BY DEF PlaceOrder, FinishUpdatePrice, Races
    <2>4. CommitBook(r) => raced \subseteq raced'
        BY DEF CommitBook, Races
    <2> QED
        BY <1>3, <2>1, <2>2, <2>3, <2>4 DEF Proceed
<1>4. UNCHANGED shopVars => raced' = raced
    BY DEF shopVars
<1> QED
    BY <1>1, <1>2, <1>3, <1>4, Steps

LEMMA BookSteps ==
    ASSUME StateInv, CarryInv, [StoreNext]_shopVars
    PROVE  \/ BooksRest
           \/ \E r \in Slot : BookBegun(r) \/ BookPruned(r) \/ RowWritten(r) \/ BookWritten(r)
<1>1. ASSUME UNCHANGED shopVars PROVE BooksRest
    BY <1>1 DEF shopVars, BooksRest, StateInv
<1>2. ASSUME NEW r \in Slot, NEW x, Arrives(r, x)
      PROVE  /\ req'[r] = x
             /\ \A s \in Slot : s # r => req'[s] = req[s] \/ ~SavesBook(req'[s])
    BY <1>2, Arrived DEF SavesBook, Idle
<1>3. ASSUME NEW r \in Slot, NEW x, Arrives(r, x), ~SavesBook(x), books' = books,
             lastId' \in {lastId, lastId + 1}
      PROVE  BooksRest
    BY <1>2, <1>3 DEF BooksRest, StateInv
<1>4. ASSUME NEW r \in Slot, NEW k \in Customer, NEW op \in AddressOps, BeginBook(r, k, op),
             Opens(r, BookState(k, op))
      PROVE  BooksRest \/ BookBegun(r)
    <2> DEFINE x == BookState(k, op)
    <2>1. Arrives(r, x) /\ books' = books /\ lastId' \in {lastId, lastId + 1}
        BY <1>4 DEF Opens
    <2>2. CASE ~SavesBook(x)
        BY <1>3, <2>1, <2>2
    <2>3. CASE SavesBook(x)
        <3>1. /\ x.pc = "prune" /\ x.customer = k /\ x.seen = books[k] /\ x.op = Asked(op)
              /\ op.kind = "add" => DetailsAccepted(op.details)
            BY <2>3 DEF BookState, SavesBook, Refused, Done
        <3>2. lastId' = IF op.kind = "add" THEN lastId + 1 ELSE lastId
            BY <1>4, <3>1, Beginnings
        <3>3. /\ Asked(op).kind = op.kind
              /\ op.kind = "add" => Asked(op).id = lastId + 1
            BY DEF Asked, AddressOp
        <3>4. req'[r] = x /\ OthersKept(r)
            BY <1>2, <2>1 DEF OthersKept
        <3> HIDE DEF x
        <3> QED
            BY <2>1, <3>1, <3>2, <3>3, <3>4 DEF BookBegun
    <2> QED
        BY <2>2, <2>3
<1>5. ASSUME NEW r \in Slot, OpensSave(r) PROVE BooksRest \/ BookBegun(r)
    <2>1. ASSUME NEW x, Opens(r, x), ~SavesBook(x) PROVE BooksRest
        BY <1>3, <2>1 DEF Opens
    <2>2. \A k, op : ~SavesBook(CartState(k, op))
        BY DEF SavesBook, CartState, Refused, Done
    <2>3. \A k, address : ~SavesBook(CheckoutState(k, address))
        BY DEF SavesBook, CheckoutState, Refused, Done
    <2>4. \A p, c, price : ~SavesBook(PriceState(p, c, price))
        BY DEF SavesBook, PriceState, Refused, Done
    <2> QED
        BY <1>4, <1>5, <2>1, <2>2, <2>3, <2>4 DEF OpensSave
<1>6. ASSUME NEW r \in Slot, NEW p \in ProductId, NEW skus \in NewSkus, RegisterProduct(r, p, skus)
      PROVE  BooksRest
    <2>1. ~SavesBook(Succeeded) /\ \A error : ~SavesBook(Refused(error))
        BY DEF SavesBook, Succeeded, Refused, Done
    <2> QED
        BY <1>3, <1>6, <2>1 DEF RegisterProduct
<1>7. ASSUME NEW r \in Slot, NEW x, Become(r, x), ~SavesBook(x), books' = books, lastId' = lastId
      PROVE  BooksRest
    BY <1>7, Became DEF BooksRest, StateInv
<1>8. ~SavesBook(Succeeded) /\ ~SavesBook(Failed) /\ \A error : ~SavesBook(Refused(error))
    BY DEF SavesBook, Succeeded, Failed, Refused, Done
<1>9. ASSUME NEW r \in Slot, Proceed(r), ~Prune(r), ~WriteRow(r), ~CommitBook(r) PROVE BooksRest
    <2>1. \E x : Become(r, x) /\ ~SavesBook(x)
        <3>1. CASE FindAddress(r)
            BY <1>8, <3>1 DEF FindAddress, SavesBook
        <3>2. CASE FindPrices(r)
            BY <1>8, <3>2 DEF FindPrices, SavesBook
        <3> QED
            BY <1>8, <1>9, <3>1, <3>2 DEF Proceed, FinishCart, PlaceOrder, Victim,
                                          FinishUpdatePrice, Accept, Fail
    <2> QED
        BY <1>7, <1>9, <2>1, ProceedWrites
<1>10. ASSUME NEW r \in Slot, Prune(r) PROVE BookPruned(r)
    <2> DEFINE x == req[r]
    <2>1. PICK y : /\ Become(r, y) /\ y.pc = "write"
                   /\ y.customer = x.customer /\ y.op = x.op /\ y.seen = x.seen /\ y.book = x.book
                   /\ y.pruned = Strangers(books[x.customer], x.book) /\ y.held = {}
                   /\ RowIsNext(y)
        BY <1>10, Turned DEF Prune
    <2>2. req'[r] = y /\ OthersKept(r)
        BY <2>1, Became DEF OthersKept
    <2>3. x.pc = "prune" /\ books' = books /\ lastId' = lastId
        BY <1>10 DEF Prune
    <2> QED
        BY <2>1, <2>2, <2>3 DEF BookPruned
<1>11. ASSUME NEW r \in Slot, WriteRow(r) PROVE BooksRest \/ RowWritten(r)
    <2> DEFINE x == req[r]
               gone == ({x.row} \cap x.pruned) \ DOMAIN books[x.customer]
    <2>1. /\ x.pc = "write" /\ x.row # NoRow /\ Blockers(r) = {}
          /\ books' = books /\ lastId' = lastId
        BY <1>11 DEF WriteRow
    <2>2. CASE Clash(r)
        BY <1>7, <1>8, <1>11, <2>1, <2>2 DEF WriteRow, Fail
    <2>3. CASE ~Clash(r)
        <3>1. PICK y : /\ Become(r, y) /\ y.pc = "write"
                       /\ y.customer = x.customer /\ y.op = x.op /\ y.seen = x.seen
                       /\ y.book = x.book
                       /\ y.pruned = x.pruned \ gone /\ y.held = x.held \cup ({x.row} \ gone)
                       /\ RowIsNext(y)
            BY <1>11, <2>3, Turned DEF WriteRow
        <3>2. req'[r] = y /\ OthersKept(r)
            BY <3>1, Became DEF OthersKept
        <3> HIDE DEF gone
        <3>3. RowWritten(r)
            BY <2>1, <2>3, <3>1, <3>2 DEF RowWritten, gone
        <3> QED
            BY <3>3
    <2> QED
        BY <2>2, <2>3
<1>12. ASSUME NEW r \in Slot, CommitBook(r) PROVE BookWritten(r)
    <2> DEFINE x == req[r]
               merged == Merged(books[x.customer], x.pruned, x.book)
    <2>1. /\ books' = [books EXCEPT ![x.customer] = merged]
          /\ OfBook(x.customer) \in raced' \/ x.seen = books[x.customer]
          /\ Become(r, Succeeded)
          /\ lastId' = lastId /\ x.pc = "write" /\ x.row = NoRow
        BY <1>12 DEF CommitBook, Races, Accept
    <2>2. OthersKept(r) /\ ~SavesBook(req'[r])
        BY <2>1, <1>8, Became DEF OthersKept
    <2> QED
        BY <2>1, <2>2 DEF BookWritten
<1> QED
    BY <1>1, <1>5, <1>6, <1>9, <1>10, <1>11, <1>12, Steps

\* Ids of addresses, one kind of step at a time.
LEMMA NextAddressIds ==
    ASSUME StateInv, CarryInv, RowsInv, AddressIdInv, [StoreNext]_shopVars
    PROVE  AddressIdInv' /\ \A k \in Customer : DOMAIN books'[k] \subseteq 1..lastId'
<1> DEFINE Goal == AddressIdInv' /\ \A k \in Customer : DOMAIN books'[k] \subseteq 1..lastId'
<1>0. /\ lastId \in Nat /\ lastId' \in Nat
      /\ \A k \in Customer : DOMAIN books[k] \subseteq 1..lastId
    BY NextState DEF StateInv, RowsInv
<1>1. ASSUME BooksRest PROVE Goal
    BY <1>0, <1>1 DEF BooksRest, AddressIdInv, Adds, SavesBook
<1>2. ASSUME NEW r \in Slot, BookBegun(r) PROVE Goal
    <2> DEFINE y == req'[r]
    <2>1. lastId <= lastId' /\ books' = books
        BY <1>0, <1>2 DEF BookBegun
    <2>2. DOMAIN y.seen \subseteq 1..lastId
        BY <1>0, <1>2 DEF BookBegun
    <2>3. y.op.kind = "add" => y.op.id = lastId + 1 /\ lastId' = lastId + 1
        BY <1>2 DEF BookBegun
    <2>4. \A s \in Slot : s # r /\ SavesBook(req'[s]) => req'[s] = req[s] /\ SavesBook(req[s])
        BY <1>2 DEF BookBegun, OthersKept
    <2>5. \A s \in Slot : s # r /\ SavesBook(req'[s]) =>
            /\ DOMAIN req[s].seen \subseteq 1..lastId
            /\ Adds(req[s]) => req[s].op.id \in 1..lastId
        BY <2>4 DEF AddressIdInv
    <2>6. SavesBook(y) /\ (Adds(y) <=> y.op.kind = "add")
        BY <1>2 DEF BookBegun, SavesBook, Adds
    <2>a. \E k \in Customer : y.seen = books[k]
        BY <1>2 DEF BookBegun
    <2> HIDE DEF y
    <2>7. Adds(y) => /\ y.op.id \in (1..lastId') \ DOMAIN y.seen
                     /\ \A k \in Customer : y.op.id \notin DOMAIN books'[k]
                     /\ \A s \in Slot : s # r /\ SavesBook(req'[s]) =>
                          /\ y.op.id \notin DOMAIN req'[s].seen
                          /\ Adds(req'[s]) => req'[s].op.id # y.op.id
        BY <1>0, <2>1, <2>2, <2>3, <2>4, <2>5, <2>6
    <2>8. \A s \in Slot : s # r /\ SavesBook(req'[s]) =>
            /\ DOMAIN req'[s].seen \subseteq 1..lastId'
            /\ Adds(req'[s]) =>
                /\ req'[s].op.id \in (1..lastId') \ DOMAIN req'[s].seen
                /\ \A k \in Customer : req'[s].op.id \notin DOMAIN books'[k]
                /\ req'[s].op.id \notin DOMAIN y.seen
                /\ Adds(y) => y.op.id # req'[s].op.id
                /\ \A o \in Slot : o # r /\ o # s /\ SavesBook(req'[o]) =>
                    /\ req'[s].op.id \notin DOMAIN req'[o].seen
                    /\ Adds(req'[o]) => req'[o].op.id # req'[s].op.id
        BY <1>0, <2>1, <2>3, <2>4, <2>5, <2>6, <2>a DEF AddressIdInv
    <2>9. DOMAIN y.seen \subseteq 1..lastId'
        BY <1>0, <2>1, <2>2
    <2> USE DEF y
    <2>10. AddressIdInv'
        BY <2>7, <2>8, <2>9 DEF AddressIdInv
    <2> QED
        BY <1>0, <2>1, <2>10
<1>3. ASSUME NEW r \in Slot, BookPruned(r) \/ RowWritten(r) PROVE Goal
    <2>1. \A s \in Slot : SavesBook(req'[s]) =>
            /\ SavesBook(req[s]) /\ req'[s].seen = req[s].seen /\ req'[s].op = req[s].op
        BY <1>3 DEF BookPruned, RowWritten, OthersKept, SavesBook
    <2>2. books' = books /\ lastId' = lastId
        BY <1>3 DEF BookPruned, RowWritten
    <2> QED
        BY <1>0, <2>1, <2>2 DEF AddressIdInv, Adds
<1>4. ASSUME NEW r \in Slot, BookWritten(r) PROVE Goal
    <2> DEFINE x == req[r]
    <2>1. BookSave(x) /\ SavesBook(x) /\ x.customer \in Customer
        BY <1>4 DEF BookWritten, CarryInv, Carried, BookSave, SavesBook
    <2>2. /\ DOMAIN x.book \subseteq DOMAIN x.seen \cup {x.op.id}
          /\ x.op.kind # "add" => DOMAIN x.book \subseteq DOMAIN x.seen
        BY <2>1, BookIds
    <2>3. DOMAIN x.seen \subseteq 1..lastId /\ (x.op.kind = "add" => x.op.id \in 1..lastId)
        BY <2>1 DEF AddressIdInv, Adds
    <2>4. \A k \in Customer : k # x.customer => books'[k] = books[k]
        BY <1>4 DEF BookWritten, StateInv
    <2>5. DOMAIN books'[x.customer] \subseteq DOMAIN books[x.customer] \cup DOMAIN x.book
        BY <1>4, <2>1 DEF BookWritten, StateInv, Merged
    <2>6. \A s \in Slot : SavesBook(req'[s]) => s # r /\ req'[s] = req[s]
        BY <1>4 DEF BookWritten, OthersKept
    <2>7. lastId' = lastId
        BY <1>4 DEF BookWritten
    <2>8. \A k \in Customer : DOMAIN books'[k] \subseteq 1..lastId'
        BY <1>0, <2>1, <2>2, <2>3, <2>4, <2>5, <2>7
    <2>9. \A s \in Slot : Adds(req'[s]) => req[s].op.id \notin DOMAIN x.book
        <3> SUFFICES ASSUME NEW s \in Slot, Adds(req'[s]) PROVE req[s].op.id \notin DOMAIN x.book
            OBVIOUS
        <3>1. s # r /\ SavesBook(req[s]) /\ Adds(req[s])
            BY <2>6 DEF Adds
        <3>2. /\ req[s].op.id \notin DOMAIN x.seen
              /\ Adds(x) => x.op.id # req[s].op.id
            BY <2>1, <3>1 DEF AddressIdInv
        <3> QED
            BY <2>1, <2>2, <3>2 DEF Adds
    <2>10. \A s \in Slot : Adds(req'[s]) =>
             \A k \in Customer : req[s].op.id \notin DOMAIN books'[k]
        <3> SUFFICES ASSUME NEW s \in Slot, Adds(req'[s]), NEW k \in Customer
                     PROVE  req[s].op.id \notin DOMAIN books'[k]
            OBVIOUS
        <3>1. SavesBook(req[s]) /\ Adds(req[s])
            BY <2>6 DEF Adds
        <3>2. req[s].op.id \notin DOMAIN books[k]
            BY <3>1 DEF AddressIdInv
        <3> QED
            BY <2>1, <2>4, <2>5, <2>9, <3>2
    <2>11. AddressIdInv'
        <3> SUFFICES ASSUME NEW s \in Slot, SavesBook(req'[s])
                     PROVE  /\ DOMAIN req'[s].seen \subseteq 1..lastId'
                            /\ Adds(req'[s]) =>
                                /\ req'[s].op.id \in (1..lastId') \ DOMAIN req'[s].seen
                                /\ \A k \in Customer : req'[s].op.id \notin DOMAIN books'[k]
                                /\ \A o \in Slot : o # s /\ SavesBook(req'[o]) =>
                                    /\ req'[s].op.id \notin DOMAIN req'[o].seen
                                    /\ Adds(req'[o]) => req'[o].op.id # req'[s].op.id
            BY DEF AddressIdInv
        <3>1. req'[s] = req[s] /\ \A o \in Slot : SavesBook(req'[o]) => req'[o] = req[o]
            BY <2>6
        <3> QED
            BY <2>7, <2>10, <3>1 DEF AddressIdInv
    <2> QED
        BY <2>8, <2>11
<1> QED
    BY <1>1, <1>2, <1>3, <1>4, BookSteps

\* A removed address comes back only over a change that was not seen.
LEMMA NextGone ==
    ASSUME StateInv, CarryInv, RowsInv, AddressIdInv, GoneInv, [StoreNext]_shopVars
    PROVE  GoneInv'
<1> SUFFICES ASSUME NEW r \in Slot, req'[r].pc = "write", req'[r].op.kind = "remove",
                    OfBook(req'[r].customer) \notin raced',
                    req'[r].op.id \notin req'[r].pruned
             PROVE  req'[r].op.id \notin DOMAIN books'[req'[r].customer]
    BY DEF GoneInv
<1> DEFINE y == req'[r]
           k == y.customer
<1>0. raced \subseteq raced' /\ SavesBook(y)
    BY RacedGrows DEF SavesBook
<1>a. ASSUME req'[r] = req[r] PROVE y.op.id \notin DOMAIN books[k]
    BY <1>0, <1>a DEF GoneInv
<1>1. CASE BooksRest
    BY <1>a, <1>0, <1>1 DEF BooksRest
<1>2. ASSUME NEW o \in Slot, BookBegun(o)
      PROVE  y.op.id \notin DOMAIN books'[k]
    <2>1. o # r
        BY <1>2 DEF BookBegun
    <2> QED
        BY <1>a, <1>0, <1>2, <2>1 DEF BookBegun, OthersKept
<1>3. ASSUME NEW o \in Slot, BookPruned(o)
      PROVE  y.op.id \notin DOMAIN books'[k]
    <2>1. CASE o # r
        BY <1>a, <1>0, <1>3, <2>1 DEF BookPruned, OthersKept
    <2>2. CASE o = r
        <3>1. /\ y.op = req[r].op /\ k = req[r].customer /\ books' = books
              /\ y.pruned = Strangers(books[req[r].customer], req[r].book)
            BY <1>3, <2>2 DEF BookPruned
        <3>2. BookSave(req[r])
            BY <1>3, <2>2 DEF BookPruned, CarryInv, Carried
        <3>3. DOMAIN req[r].book = DOMAIN req[r].seen \ {y.op.id}
            BY <3>1, <3>2, BookIds
        <3> QED
            BY <3>1, <3>3 DEF Strangers
    <2> QED
        BY <2>1, <2>2
<1>5. ASSUME NEW o \in Slot, RowWritten(o)
      PROVE  y.op.id \notin DOMAIN books'[k]
    <2>1. CASE o # r
        BY <1>a, <1>0, <1>5, <2>1 DEF RowWritten, OthersKept
    <2>2. CASE o = r
        <3> DEFINE gone == ({req[r].row} \cap req[r].pruned) \ DOMAIN books[req[r].customer]
        <3>1. /\ y.op = req[r].op /\ k = req[r].customer /\ books' = books
              /\ y.pruned = req[r].pruned \ gone /\ req[r].pc = "write"
            BY <1>5, <2>2 DEF RowWritten
        <3>2. y.op.id \in req[r].pruned \/ y.op.id \notin DOMAIN books[k]
            BY <1>0, <3>1 DEF GoneInv
        <3> QED
            BY <3>1, <3>2
    <2> QED
        BY <2>1, <2>2
<1>4. ASSUME NEW o \in Slot, BookWritten(o)
      PROVE  y.op.id \notin DOMAIN books'[k]
    <2> DEFINE x == req[o]
    <2>1. r # o /\ y = req[r]
        BY <1>0, <1>4 DEF BookWritten, OthersKept
    <2>2. y.op.id \notin DOMAIN books[k]
        BY <1>a, <2>1
    <2>3. CASE x.customer # k
        BY <1>4, <2>2, <2>3 DEF BookWritten, StateInv
    <2>4. CASE x.customer = k
        <3>1. BookSave(x) /\ BookSave(req[r])
            BY <1>0, <1>4, <2>1 DEF BookWritten, CarryInv, Carried, SavesBook
        <3>2. x.seen = books[k]
            BY <1>4, <2>4 DEF BookWritten
        <3>3. DOMAIN books'[k] \subseteq DOMAIN books[k] \cup DOMAIN x.book
            BY <1>4, <2>4, <3>1 DEF BookWritten, StateInv, Merged, BookSave
        <3>4. \/ DOMAIN x.book \subseteq DOMAIN x.seen
              \/ Adds(x) /\ DOMAIN x.book \subseteq DOMAIN x.seen \cup {x.op.id}
            BY <1>4, <3>1, BookIds DEF BookWritten, Adds, SavesBook
        <3>5. y.op.id \in DOMAIN y.seen
            BY <2>1, <3>1, BookIds
        <3>6. Adds(x) => x.op.id \notin DOMAIN y.seen
            BY <1>0, <2>1 DEF AddressIdInv, Adds
        <3> QED
            BY <2>2, <3>2, <3>3, <3>4, <3>5, <3>6
    <2> QED
        BY <2>3, <2>4
<1> QED
    BY <1>1, <1>2, <1>3, <1>4, <1>5, BookSteps

\* A save of a book that has one default at most makes no second one.
LEMMA OneAfter ==
    ASSUME NEW x, BookSave(x), OneOf(x.seen), Adds(x) => x.op.id \notin DOMAIN x.seen, SavesBook(x)
    PROVE  OneOf(x.book)
<1>1. x.book = BookAfter(x.seen, x.op)
    BY DEF BookSave
<1>2. CASE x.op.kind = "add"
    <2> DEFINE first == FirstIsDefault(x.seen)
    <2>1. x.book = [a \in DOMAIN x.seen \cup {x.op.id} |->
                       IF a = x.op.id THEN Saved(x.op.details, first) ELSE x.seen[a]]
        BY <1>1, <1>2 DEF BookAfter, WithAddress
    <2>2. CASE first
        <3>1. DOMAIN x.seen = {}
            BY <2>2 DEF FirstIsDefault, NoAddresses
        <3> QED
            BY <2>1, <3>1 DEF OneOf, Defaults
    <2>3. CASE ~first
        <3> HIDE DEF first
        <3>1. Saved(x.op.details, first).isDefault = first
            BY DEF Saved
        <3>2. ASSUME NEW a \in Defaults(x.book) PROVE a \in Defaults(x.seen)
            <4>1. a \in DOMAIN x.seen \cup {x.op.id} /\ x.book[a].isDefault
                BY <2>1 DEF Defaults
            <4>2. a # x.op.id
                BY <2>1, <2>3, <3>1, <4>1
            <4>3. a \in DOMAIN x.seen /\ x.book[a] = x.seen[a]
                BY <2>1, <4>1, <4>2
            <4> QED
                BY <4>1, <4>3 DEF Defaults
        <3> QED
            BY <3>2 DEF OneOf
    <2> QED
        BY <2>2, <2>3
<1>3. CASE x.op.kind = "update"
    <2>0. x.op.id \in DOMAIN x.seen
        BY <1>3, BookIds
    <2>1. x.book = [a \in DOMAIN x.seen \cup {x.op.id} |->
                       IF a = x.op.id THEN Saved(x.op.details, x.seen[x.op.id].isDefault)
                       ELSE x.seen[a]]
        BY <1>1, <1>3 DEF BookAfter, WithAddress
    <2>2. Saved(x.op.details, x.seen[x.op.id].isDefault).isDefault = x.seen[x.op.id].isDefault
        BY DEF Saved
    <2>3. ASSUME NEW a \in Defaults(x.book) PROVE a \in Defaults(x.seen)
        <3>1. a \in DOMAIN x.seen /\ x.book[a].isDefault
            BY <2>0, <2>1 DEF Defaults
        <3>2. x.book[a].isDefault = x.seen[a].isDefault
            BY <2>1, <2>2, <3>1
        <3> QED
            BY <3>1, <3>2 DEF Defaults
    <2> QED
        BY <2>3 DEF OneOf
<1>4. CASE x.op.kind = "remove"
    <2>1. x.book = [a \in DOMAIN x.seen \ {x.op.id} |-> x.seen[a]]
        BY <1>1, <1>4 DEF BookAfter, Restrict
    <2> QED
        BY <2>1 DEF OneOf, Defaults
<1>5. CASE x.op.kind = "default"
    <2>1. x.book = [a \in DOMAIN x.seen |-> Saved(x.seen[a].details, a = x.op.id)]
        BY <1>1, <1>5 DEF BookAfter
    <2>2. ASSUME NEW a \in Defaults(x.book) PROVE a = x.op.id
        <3>1. a \in DOMAIN x.seen /\ x.book[a].isDefault
            BY <2>1 DEF Defaults
        <3> DEFINE chosen == a = x.op.id
        <3>2. x.book[a] = Saved(x.seen[a].details, chosen)
            BY <2>1, <3>1
        <3>3. Saved(x.seen[a].details, chosen).isDefault = chosen
            <4> HIDE DEF chosen
            <4> QED
                BY DEF Saved
        <3>4. chosen
            <4> HIDE DEF chosen
            <4> QED
                BY <3>1, <3>2, <3>3
        <3> QED
            BY <3>4
    <2> QED
        BY <2>2 DEF OneOf
<1> QED
    BY <1>2, <1>3, <1>4, <1>5, BookIds

\* Every save under way is one of a book with one default at most.
LEMMA OneInMemory ==
    ASSUME StateInv, CarryInv, AddressIdInv, DefaultsInv, NEW r \in Slot, SavesBook(req[r])
    PROVE  OneOf(req[r].book) /\ BookSave(req[r])
<1>1. BookSave(req[r])
    BY DEF SavesBook, CarryInv, Carried
<1>2. Adds(req[r]) => req[r].op.id \notin DOMAIN req[r].seen
    BY DEF AddressIdInv
<1> QED
    BY <1>1, <1>2, OneAfter DEF DefaultsInv

\* The rows that are left to a save come in their order.
LEMMA RowsInOrder ==
    ASSUME NEW x, Locks(x)
    PROVE  /\ x.row = NoRow => x.pruned \cup DOMAIN x.book \subseteq x.held
           /\ x.row # NoRow => x.row \in (x.pruned \cup DOMAIN x.book) \ x.held
           /\ x.row \in Defaults(x.book) =>
                /\ x.row \notin x.pruned
                /\ (x.pruned \cup DOMAIN x.book) \ Defaults(x.book) \subseteq x.held
<1> DEFINE rest == (x.pruned \cup DOMAIN x.book) \ x.held
           rows == Upcoming(x.book, x.pruned, x.held)
<1>1. /\ x.pruned \ x.held # {} => rows = x.pruned \ x.held
      /\ x.pruned \ x.held = {} /\ rest \ Defaults(x.book) # {} => rows = rest \ Defaults(x.book)
      /\ x.pruned \ x.held = {} /\ rest \ Defaults(x.book) = {} => rows = rest
    BY DEF Upcoming
<1>2. rows \subseteq rest /\ (rows = {} => rest = {})
    BY <1>1
<1>3. IF rows = {} THEN x.row = NoRow ELSE x.row \in rows
    BY DEF Locks, RowIsNext
<1>4. NoRow \notin rest
    BY DEF Locks
<1>5. Defaults(x.book) \subseteq DOMAIN x.book
    BY DEF Defaults
<1>6. x.row \in Defaults(x.book) => x.row \notin x.pruned /\ x.row # NoRow
    BY <1>5 DEF Locks
<1> HIDE DEF rows
<1>7. ASSUME x.row \in Defaults(x.book)
      PROVE  (x.pruned \cup DOMAIN x.book) \ Defaults(x.book) \subseteq x.held
    <2>1. x.row \in rows
        BY <1>3, <1>6, <1>7
    <2>2. x.pruned \ x.held = {}
        BY <1>1, <1>6, <1>7, <2>1
    <2>3. rest \ Defaults(x.book) = {}
        BY <1>1, <1>7, <2>1, <2>2
    <2> QED
        BY <2>3
<1> QED
    BY <1>2, <1>3, <1>4, <1>6, <1>7

\* Nobody is in the way of a save that takes its row.
LEMMA Unblocked ==
    ASSUME NEW r \in Slot, req[r].pc = "write", Blockers(r) = {},
           NEW w \in Slot, w # r, req[w].pc = "write", req[w].customer = req[r].customer
    PROVE  /\ req[r].row \notin req[w].held
           /\ MakesDefault(req[r]) => ~HasDefault(req[w])
<1> DEFINE x == req[r]
           contested == {x.row} \cup (IF MakesDefault(x)
                                      THEN Defaults(books[x.customer]) \cup Defaults(req[w].book)
                                      ELSE {})
<1>1. w \in Saving(x.customer) \ {r}
    BY DEF Saving
<1>2. contested \cap req[w].held = {}
    BY <1>1 DEF Blockers
<1> QED
    BY <1>2 DEF HasDefault

\* What a commit makes of the defaults: its own, where it has one, else those
\* there were.
LEMMA CommittedDefaults ==
    ASSUME StateInv, CarryInv, AddressIdInv, DefaultsInv, LockInv, NEW r \in Slot, BookWritten(r)
    PROVE  LET x == req[r] now == books'[x.customer] IN
           /\ x.customer \in Customer
           /\ OneOf(now)
           /\ ~HasDefault(x) => Defaults(now) \subseteq Defaults(books[x.customer])
<1> DEFINE x == req[r]
           k == x.customer
           now == Merged(books[k], x.pruned, x.book)
<1>1. SavesBook(x) /\ OneOf(x.book) /\ BookSave(x) /\ k \in Customer
    BY OneInMemory DEF BookWritten, SavesBook, BookSave
<1>2. books'[k] = now
    BY <1>1 DEF BookWritten, StateInv
<1>3. Locks(x) /\ (HasDefault(x) => Defaults(books[k]) \subseteq x.held)
    BY DEF BookWritten, LockInv
<1>4. x.held = x.pruned \cup DOMAIN x.book
    BY <1>3, RowsInOrder DEF BookWritten, Locks
<1>5. ASSUME NEW a \in Defaults(now)
      PROVE  \/ a \in Defaults(x.book)
             \/ a \in Defaults(books[k]) \ (x.pruned \cup DOMAIN x.book)
    BY <1>5 DEF Defaults, Merged
<1>6. Defaults(x.book) \subseteq DOMAIN x.book
    BY DEF Defaults
<1> HIDE DEF now
<1>7. CASE HasDefault(x)
    <2>1. Defaults(now) \subseteq Defaults(x.book)
        BY <1>3, <1>4, <1>5, <1>7
    <2> QED
        BY <1>1, <1>2, <1>7, <2>1 DEF OneOf
<1>8. CASE ~HasDefault(x)
    <2>1. Defaults(x.book) = {}
        BY <1>4, <1>6, <1>8 DEF HasDefault
    <2>2. Defaults(now) \subseteq Defaults(books[k])
        BY <1>5, <2>1
    <2>3. OneOf(books[k])
        BY <1>1 DEF DefaultsInv
    <2> QED
        BY <1>1, <1>2, <1>8, <2>2, <2>3 DEF OneOf
<1> QED
    BY <1>7, <1>8

\* Two saves of one book never have a default to commit both.
LEMMA NextDefaults ==
    ASSUME StateInv, CarryInv, AddressIdInv, DefaultsInv, LockInv, [StoreNext]_shopVars
    PROVE  DefaultsInv'
<1>1. ASSUME BooksRest PROVE DefaultsInv'
    BY <1>1 DEF BooksRest, DefaultsInv
<1>2. ASSUME NEW r \in Slot, BookBegun(r) PROVE DefaultsInv'
    <2>1. books' = books /\ req'[r].customer \in Customer
          /\ req'[r].seen = books[req'[r].customer]
        BY <1>2 DEF BookBegun
    <2>2. \A s \in Slot : s # r /\ SavesBook(req'[s]) => req'[s] = req[s]
        BY <1>2 DEF BookBegun, OthersKept
    <2>3. \A s \in Slot : SavesBook(req'[s]) => OneOf(req'[s].seen)
        BY <2>1, <2>2 DEF DefaultsInv
    <2> QED
        BY <2>1, <2>3 DEF DefaultsInv
<1>3. ASSUME NEW r \in Slot, BookPruned(r) \/ RowWritten(r) PROVE DefaultsInv'
    <2>1. books' = books /\ req'[r].seen = req[r].seen /\ SavesBook(req[r])
        BY <1>3 DEF BookPruned, RowWritten, SavesBook
    <2>2. \A s \in Slot : s # r /\ SavesBook(req'[s]) => req'[s] = req[s]
        BY <1>3 DEF BookPruned, RowWritten, OthersKept
    <2>3. \A s \in Slot : SavesBook(req'[s]) => OneOf(req'[s].seen)
        BY <2>1, <2>2 DEF DefaultsInv
    <2> QED
        BY <2>1, <2>3 DEF DefaultsInv
<1>4. ASSUME NEW r \in Slot, BookWritten(r) PROVE DefaultsInv'
    <2>1. \A s \in Slot : SavesBook(req'[s]) => req'[s] = req[s]
        BY <1>4 DEF BookWritten, OthersKept
    <2>2. \A s \in Slot : SavesBook(req'[s]) => OneOf(req'[s].seen)
        BY <2>1 DEF DefaultsInv
    <2>3. \A k \in Customer : k # req[r].customer => books'[k] = books[k]
        BY <1>4 DEF BookWritten, StateInv
    <2>4. \A k \in Customer : OneOf(books'[k])
        BY <1>4, <2>3, CommittedDefaults DEF DefaultsInv
    <2> QED
        BY <2>2, <2>4 DEF DefaultsInv
<1> QED
    BY <1>1, <1>2, <1>3, <1>4, BookSteps

\* Rows have ids.
LEMMA RowsHaveIds ==
    ASSUME StateInv, CarryInv, RowsInv, AddressIdInv, NEW r \in Slot, SavesBook(req[r])
    PROVE  /\ NoRow \notin DOMAIN req[r].book
           /\ NoRow \notin DOMAIN books[req[r].customer]
<1> DEFINE x == req[r]
<1>0. SavesBook(x)
    OBVIOUS
<1>1. BookSave(x) /\ x.customer \in Customer
    BY DEF SavesBook, CarryInv, Carried, BookSave
<1>2. DOMAIN x.seen \subseteq 1..lastId /\ (Adds(x) => x.op.id \in 1..lastId)
    BY DEF AddressIdInv
<1>3. DOMAIN x.book \subseteq 1..lastId
    <2> HIDE DEF x
    <2>1. DOMAIN x.book \subseteq DOMAIN x.seen \cup (IF x.op.kind = "add" THEN {x.op.id} ELSE {})
        BY <1>1, BookIds
    <2> QED
        BY <1>2, <2>1, <1>0 DEF Adds
<1>4. DOMAIN books[x.customer] \subseteq 1..lastId /\ lastId \in Nat
    BY <1>1 DEF RowsInv, StateInv
<1> QED
    BY <1>3, <1>4 DEF NoRow

LEMMA NextLocks ==
    ASSUME StateInv, CarryInv, RowsInv, AddressIdInv, DefaultsInv, LockInv, [StoreNext]_shopVars
    PROVE  LockInv'
<1> DEFINE Apart(x, y) == x.held \cap y.held = {} /\ ~(HasDefault(x) /\ HasDefault(y))
           Good(x, book) == /\ Locks(x)
                            /\ HasDefault(x) => Defaults(book) \subseteq x.held
<1>0. \A r \in Slot : req[r].pc = "write" =>
        /\ Good(req[r], books[req[r].customer])
        /\ \A s \in Slot : s # r /\ req[s].pc = "write" /\ req[s].customer = req[r].customer
                           => Apart(req[r], req[s])
    BY DEF LockInv
<1> SUFFICES \A r \in Slot : req'[r].pc = "write" =>
        /\ Good(req'[r], books'[req'[r].customer])
        /\ \A s \in Slot : s # r /\ req'[s].pc = "write" /\ req'[s].customer = req'[r].customer
                           => Apart(req'[r], req'[s])
    BY DEF LockInv, Locks, HasDefault, RowIsNext
<1> DEFINE Goal == \A r \in Slot : req'[r].pc = "write" =>
        /\ Good(req'[r], books'[req'[r].customer])
        /\ \A s \in Slot : s # r /\ req'[s].pc = "write" /\ req'[s].customer = req'[r].customer
                           => Apart(req'[r], req'[s])
<1>a. \A x, y : Apart(x, y) <=> Apart(y, x)
    OBVIOUS
<1> HIDE DEF Apart, Good
<1>b. ASSUME NEW r \in Slot, books' = books,
             \A s \in Slot : s # r /\ req'[s].pc = "write" => req'[s] = req[s],
             req'[r].pc = "write" =>
                /\ Good(req'[r], books[req'[r].customer])
                /\ \A s \in Slot : s # r /\ req[s].pc = "write"
                                   /\ req[s].customer = req'[r].customer => Apart(req'[r], req[s])
      PROVE  Goal
    <2>1. ASSUME NEW s \in Slot, req'[s].pc = "write"
          PROVE  Good(req'[s], books'[req'[s].customer])
        BY <1>0, <1>b, <2>1
    <2>2. ASSUME NEW s \in Slot, req'[s].pc = "write", NEW o \in Slot, o # s,
                 req'[o].pc = "write", req'[o].customer = req'[s].customer
          PROVE  Apart(req'[s], req'[o])
        <3>1. CASE s = r
            <4>1. req'[o] = req[o]
                BY <1>b, <2>2, <3>1
            <4> QED
                BY <1>b, <2>2, <3>1, <4>1
        <3>2. CASE o = r
            <4>1. req'[s] = req[s]
                BY <1>b, <2>2, <3>2
            <4>2. Apart(req'[o], req'[s])
                BY <1>b, <2>2, <3>2, <4>1
            <4> QED
                BY <1>a, <4>2
        <3>3. CASE s # r /\ o # r
            <4>1. req'[s] = req[s] /\ req'[o] = req[o]
                BY <1>b, <2>2, <3>3
            <4> QED
                BY <1>0, <2>2, <4>1
        <3> QED
            BY <3>1, <3>2, <3>3
    <2> QED
        BY <2>1, <2>2
<1>1. ASSUME BooksRest PROVE Goal
    <2>1. \A s \in Slot : req'[s].pc = "write" => req'[s] = req[s]
        BY <1>1 DEF BooksRest, SavesBook
    <2> QED
        BY <1>0, <1>1, <2>1 DEF BooksRest
<1>2. ASSUME NEW r \in Slot, BookBegun(r) PROVE Goal
    <2>1. \A s \in Slot : s # r /\ req'[s].pc = "write" => req'[s] = req[s]
        BY <1>2 DEF BookBegun, OthersKept, SavesBook
    <2> QED
        BY <1>2, <1>b, <2>1 DEF BookBegun
<1>3. ASSUME NEW r \in Slot, BookPruned(r) PROVE Goal
    <2> DEFINE x == req[r]
               y == req'[r]
    <2>1. \A s \in Slot : s # r /\ req'[s].pc = "write" => req'[s] = req[s]
        BY <1>3 DEF BookPruned, OthersKept, SavesBook
    <2>2. NoRow \notin DOMAIN x.book /\ NoRow \notin DOMAIN books[x.customer]
        BY <1>3, RowsHaveIds DEF BookPruned, SavesBook
    <2>3. /\ y.held = {} /\ y.book = x.book /\ RowIsNext(y) /\ books' = books
          /\ y.pruned = DOMAIN books[x.customer] \ DOMAIN x.book
        BY <1>3 DEF BookPruned, Strangers
    <2> HIDE DEF y
    <2>4. Locks(y) /\ ~HasDefault(y)
        BY <2>2, <2>3 DEF Locks, HasDefault
    <2>5. \A z : Apart(y, z)
        BY <2>3, <2>4 DEF Apart
    <2>6. \A book : Good(y, book)
        BY <2>4 DEF Good
    <2> QED
        BY <1>b, <2>1, <2>3, <2>5, <2>6 DEF y
<1>4. ASSUME NEW r \in Slot, RowWritten(r) PROVE Goal
    <2> DEFINE x == req[r]
               y == req'[r]
               k == x.customer
               gone == ({x.row} \cap x.pruned) \ DOMAIN books[k]
    <2>1. \A s \in Slot : s # r /\ req'[s].pc = "write" => req'[s] = req[s]
        BY <1>4 DEF RowWritten, OthersKept, SavesBook
    <2>2. /\ x.pc = "write" /\ x.row # NoRow /\ Blockers(r) = {} /\ ~Clash(r)
          /\ books' = books /\ y.customer = k /\ y.book = x.book /\ RowIsNext(y)
          /\ y.pruned = x.pruned \ gone /\ y.held = x.held \cup ({x.row} \ gone)
        BY <1>4 DEF RowWritten
    <2>3. /\ Locks(x)
          /\ HasDefault(x) => Defaults(books[k]) \subseteq x.held
        BY <1>0, <2>2 DEF Good
    <2>4. x.row \in (x.pruned \cup DOMAIN x.book) \ x.held
        BY <2>2, <2>3, RowsInOrder
    <2>5. MakesDefault(x) => gone = {} /\ Defaults(books[k]) \subseteq x.held \cup {x.row}
        <3>1. MakesDefault(x) => x.row \notin x.pruned
            BY <2>3, RowsInOrder DEF MakesDefault
        <3>2. MakesDefault(x) => ~IndexRefuses(books[k], x.held, x.row)
            BY <2>2 DEF Clash
        <3> QED
            BY <3>1, <3>2 DEF IndexRefuses
    <2>6. gone \subseteq {x.row}
        OBVIOUS
    <2> HIDE DEF y, gone
    <2>7. Locks(y)
        BY <2>2, <2>3, <2>4, <2>6 DEF Locks
    <2>8. HasDefault(y) => HasDefault(x) \/ MakesDefault(x)
        BY <2>2 DEF HasDefault, MakesDefault
    <2>9. HasDefault(y) => Defaults(books[k]) \subseteq y.held
        BY <2>2, <2>3, <2>5, <2>8
    <2>10. ASSUME NEW s \in Slot, s # r, req[s].pc = "write", req[s].customer = k
           PROVE  Apart(y, req[s])
        <3>1. Apart(x, req[s])
            BY <1>0, <2>2, <2>10
        <3>2. x.row \notin req[s].held /\ (MakesDefault(x) => ~HasDefault(req[s]))
            BY <2>2, <2>10, Unblocked
        <3> QED
            BY <2>2, <2>8, <3>1, <3>2 DEF Apart
    <2>11. Good(y, books[k])
        BY <2>7, <2>9 DEF Good
    <2> QED
        BY <1>b, <2>1, <2>2, <2>10, <2>11 DEF y
<1>5. ASSUME NEW r \in Slot, BookWritten(r) PROVE Goal
    <2> DEFINE x == req[r]
               k == x.customer
    <2>1. \A s \in Slot : req'[s].pc = "write" => s # r /\ req'[s] = req[s]
        BY <1>5 DEF BookWritten, OthersKept, SavesBook
    <2>2. /\ x.pc = "write"
          /\ \A j \in Customer : j # k => books'[j] = books[j]
          /\ ~HasDefault(x) => Defaults(books'[k]) \subseteq Defaults(books[k])
        BY <1>5, CommittedDefaults DEF BookWritten, StateInv
    <2>3. ASSUME NEW s \in Slot, req'[s].pc = "write"
          PROVE  Good(req'[s], books'[req'[s].customer])
        <3>1. req'[s] = req[s] /\ s # r /\ req[s].pc = "write"
            BY <2>1, <2>3
        <3>2. Good(req[s], books[req[s].customer])
            BY <1>0, <3>1
        <3>3. req[s].customer \in Customer
            BY <3>1 DEF CarryInv, Carried, BookSave
        <3>4. CASE req[s].customer # k
            BY <2>2, <3>1, <3>2, <3>3, <3>4
        <3>5. CASE req[s].customer = k
            <4>1. Apart(x, req[s])
                BY <1>0, <2>2, <3>1, <3>5
            <4>2. HasDefault(req[s]) => Defaults(books'[k]) \subseteq req[s].held
                BY <2>2, <3>2, <3>5, <4>1 DEF Apart, Good
            <4> QED
                BY <3>1, <3>2, <3>5, <4>2 DEF Good
        <3> QED
            BY <3>4, <3>5
    <2> QED
        BY <1>0, <2>1, <2>3
<1> HIDE DEF Goal
<1>6. Goal
    BY <1>1, <1>2, <1>3, <1>4, <1>5, BookSteps
<1> QED
    BY <1>6 DEF Goal

\* A book with one default at most can be read back.
LEMMA OneIsReadable == ASSUME NEW book, OneOf(book) PROVE Readable(book)
<1>1. CASE Defaults(book) = {}
    <2>1. Cardinality({}) = 0
        BY FS_EmptySet
    <2> QED
        BY <1>1, <2>1 DEF Readable
<1>2. CASE Defaults(book) # {}
    <2>1. PICK a : Defaults(book) = {a}
        BY <1>2 DEF OneOf
    <2>2. Cardinality({a}) = 1
        BY FS_Singleton
    <2> QED
        BY <2>1, <2>2 DEF Readable
<1> QED
    BY <1>1, <1>2

\* The default that a save comes upon was not there when it read the book.
LEMMA ClashesAreRaces ==
    ASSUME StateInv, CarryInv, AddressIdInv, DefaultsInv, LockInv
    PROVE  OnlyRacesClash
<1> SUFFICES ASSUME NEW r \in Slot, Clash(r), req[r].seen = books[req[r].customer] PROVE FALSE
    BY DEF OnlyRacesClash
<1> DEFINE x == req[r]
<1>1. x.pc = "write" /\ x.row \in Defaults(x.book)
    BY DEF Clash, MakesDefault
<1>2. PICK b \in Defaults(x.seen) : b \notin x.held /\ b # x.row
    BY DEF Clash, IndexRefuses
<1>3. OneOf(x.book) /\ BookSave(x) /\ OneOf(x.seen)
    BY <1>1, OneInMemory DEF SavesBook, DefaultsInv
<1>4. (x.pruned \cup DOMAIN x.book) \ Defaults(x.book) \subseteq x.held
    BY <1>1, RowsInOrder DEF LockInv
<1>5. b \in DOMAIN x.seen /\ x.row \in DOMAIN x.book
    BY <1>1, <1>2 DEF Defaults
<1>6. CASE b \in DOMAIN x.book
    BY <1>1, <1>2, <1>3, <1>4, <1>6 DEF OneOf
<1>7. CASE b \notin DOMAIN x.book
    <2>1. x.op.kind = "remove"
        BY <1>3, <1>5, <1>7, BookIds
    <2>2. x.book = [a \in DOMAIN x.seen \ {x.op.id} |-> x.seen[a]]
        BY <1>3, <2>1 DEF BookSave, BookAfter, Restrict
    <2>3. x.row \in Defaults(x.seen)
        BY <1>1, <1>5, <2>2 DEF Defaults
    <2> QED
        BY <1>2, <1>3, <2>3 DEF OneOf
<1> QED
    BY <1>6, <1>7

LEMMA NextBooks ==
    ASSUME StateInv, CarryInv, BooksInv, [StoreNext]_shopVars
    PROVE  BooksInv'
<1>1. RowsInv'
    BY NextForward, NextAddressIds DEF BooksInv, RowsInv
<1> QED
    BY <1>1, NextAddressIds, NextGone, NextDefaults, NextLocks DEF BooksInv

-----------------------------------------------------------------------------
(* Carts and the orders made of them.                                       *)

\* A request that has a cart in memory, whose it is, and whether it made it.
Holds(x) == x.pc \in {"cart", "address", "prices", "place"}
OwnerOf(x) == IF x.pc = "place" THEN x.order.customer ELSE x.customer
Makes(x) == x.pc = "cart" /\ x.seen = NoCart

\* An id of a cart is that of one customer, wherever it turns up.
Owns(owner) ==
    /\ \A k \in Customer :
          /\ carts[k].id \in 0..lastId
          /\ IF carts[k].id = 0 THEN carts[k] = NoCart ELSE owner[carts[k].id] = k
    /\ \A r \in Slot : Holds(req[r]) =>
          /\ req[r].cart.id \in 1..lastId
          /\ OwnerOf(req[r]) \in Customer
          /\ owner[req[r].cart.id] = OwnerOf(req[r])
    /\ \A i \in DOMAIN orders :
          /\ orders[i].order.cart \in 1..lastId
          /\ orders[i].order.customer \in Customer
          /\ owner[orders[i].order.cart] = orders[i].order.customer

CartIdInv == \E owner \in [Nat -> Customer] : Owns(owner)

\* A cart that a request is making is nowhere else yet.
MakingInv ==
    \A r \in Slot : Makes(req[r]) =>
        /\ \A k \in Customer : carts[k].id # req[r].cart.id
        /\ \A s \in Slot : s # r /\ Holds(req[s]) => req[s].cart.id # req[r].cart.id
        /\ \A i \in DOMAIN orders : orders[i].order.cart # req[r].cart.id

\* A cart that was ordered is gone, unless a save of it had not seen that.
GoneCartInv ==
    \A i \in DOMAIN orders :
        LET o == orders[i].order IN
        OfCart(o.customer) \notin raced => carts[o.customer].id # o.cart

CartsInv == CartIdInv /\ MakingInv /\ GoneCartInv /\ OneOrderPerCart

\* The steps of the shop, as far as carts go.
CartsKept(r) == \A s \in Slot : s # r => req'[s] = req[s] \/ ~Holds(req'[s])

CartsRest ==
    /\ UNCHANGED <<carts, orders>>
    /\ lastId <= lastId'
    /\ \A s \in Slot : Holds(req'[s]) =>
          /\ Holds(req[s])
          /\ req'[s].cart = req[s].cart
          /\ OwnerOf(req'[s]) = OwnerOf(req[s])
          /\ Makes(req'[s]) => Makes(req[s])

CartTaken(r) ==
    /\ UNCHANGED <<carts, orders, lastId>>
    /\ CartsKept(r)
    /\ OwnerOf(req'[r]) \in Customer
    /\ ~Makes(req'[r])
    /\ carts[OwnerOf(req'[r])] # NoCart
    /\ req'[r].cart.id = carts[OwnerOf(req'[r])].id

CartMade(r) ==
    /\ UNCHANGED <<carts, orders>>
    /\ CartsKept(r)
    /\ OwnerOf(req'[r]) \in Customer
    /\ Holds(req'[r])
    /\ req'[r].cart.id = lastId + 1
    /\ lastId' = lastId + 1

CartSaved(r) ==
    LET x == req[r] IN
    /\ x.pc = "cart"
    /\ UNCHANGED <<orders, lastId>>
    /\ CartsKept(r)
    /\ ~Holds(req'[r])
    /\ carts' = [carts EXCEPT ![x.customer] = x.cart]
    /\ OfCart(x.customer) \in raced' \/ x.seen = carts[x.customer]

OrderPlaced(r) ==
    LET x == req[r] k == x.order.customer IN
    /\ x.pc = "place"
    /\ lastId' = lastId
    /\ CartsKept(r)
    /\ ~Holds(req'[r])
    /\ carts' = [carts EXCEPT ![k] = Emptied(carts[k], x.cart.id)]
    /\ orders' = Append(orders, [order |-> x.order, since |-> x.since])
    /\ OfCart(k) \in raced' \/ x.cart = carts[k]

LEMMA CartSteps ==
    ASSUME StateInv, CarryInv, [StoreNext]_shopVars
    PROVE  CartsRest \/ \E r \in Slot : CartTaken(r) \/ CartMade(r) \/ CartSaved(r) \/ OrderPlaced(r)
<1>1. ASSUME UNCHANGED shopVars PROVE CartsRest
    BY <1>1 DEF shopVars, CartsRest, StateInv, OwnerOf, Makes
<1>2. ASSUME NEW r \in Slot, NEW x, Arrives(r, x)
      PROVE  req'[r] = x /\ CartsKept(r)
    BY <1>2, Arrived DEF CartsKept, Holds, Idle
<1>3. ASSUME NEW r \in Slot, CartsKept(r), ~Holds(req'[r]), UNCHANGED <<carts, orders>>,
             lastId' \in {lastId, lastId + 1}
      PROVE  CartsRest
    BY <1>3 DEF CartsKept, CartsRest, StateInv, OwnerOf, Makes
<1>4. ASSUME NEW r \in Slot, NEW x, Become(r, x)
      PROVE  req'[r] = x /\ CartsKept(r)
    BY <1>4, Became DEF CartsKept
<1>5. ~Holds(Succeeded) /\ ~Holds(Failed) /\ \A error : ~Holds(Refused(error))
    BY DEF Holds, Succeeded, Failed, Refused, Done
<1>6. ASSUME NEW r \in Slot, NEW k \in Customer, NEW op \in CartOps, BeginCart(r, k, op),
             Opens(r, CartState(k, op))
      PROVE  CartsRest \/ CartTaken(r) \/ CartMade(r)
    <2> DEFINE x == CartState(k, op)
    <2>1. /\ Arrives(r, x) /\ UNCHANGED <<carts, orders>> /\ lastId' \in {lastId, lastId + 1}
        BY <1>6 DEF Opens
    <2>2. req'[r] = x /\ CartsKept(r)
        BY <1>2, <2>1
    <2>3. lastId' = IF carts[k] = NoCart /\ op.kind = "add" /\ QuantityAccepted(op)
                    THEN lastId + 1 ELSE lastId
        BY <1>6, Beginnings
    <2>4. CASE Holds(x) /\ carts[k] = NoCart
        <3>1. /\ x.pc = "cart" /\ x.customer = k /\ x.cart.id = lastId + 1
              /\ op.kind = "add" /\ QuantityAccepted(op)
            BY <2>4 DEF CartState, NewCart, Cart, Refused, Done, Holds
        <3> HIDE DEF x
        <3> QED
            BY <2>1, <2>2, <2>3, <2>4, <3>1 DEF CartMade, OwnerOf
    <2>5. CASE Holds(x) /\ carts[k] # NoCart
        <3>1. /\ x.pc = "cart" /\ x.customer = k /\ x.cart.id = carts[k].id /\ x.seen = carts[k]
            BY <2>5 DEF CartState, Cart, Refused, Done, Holds
        <3> HIDE DEF x
        <3> QED
            BY <2>1, <2>2, <2>3, <2>5, <3>1 DEF CartTaken, OwnerOf, Makes
    <2>6. CASE ~Holds(x)
        BY <1>3, <2>1, <2>2, <2>6
    <2> QED
        BY <2>4, <2>5, <2>6
<1>7. ASSUME NEW r \in Slot, NEW k \in Customer, NEW address, BeginCheckout(r, k, address),
             Opens(r, CheckoutState(k, address))
      PROVE  CartsRest \/ CartTaken(r)
    <2> DEFINE x == CheckoutState(k, address)
    <2>1. /\ Arrives(r, x) /\ UNCHANGED <<carts, orders>> /\ lastId' = lastId
        BY <1>7 DEF Opens, BeginCheckout, Start, StateInv
    <2>2. req'[r] = x /\ CartsKept(r)
        BY <1>2, <2>1
    <2>3. CASE LinesOf(k) # NoLines
        <3>1. x.pc = "address" /\ x.customer = k /\ x.cart = carts[k]
            BY <2>3 DEF CheckoutState
        <3>2. carts[k] # NoCart
            BY <2>3 DEF LinesOf, NoCart, Cart
        <3> HIDE DEF x
        <3> QED
            BY <2>1, <2>2, <3>1, <3>2 DEF CartTaken, OwnerOf, Makes
    <2>4. CASE LinesOf(k) = NoLines
        <3>1. ~Holds(x)
            BY <1>5, <2>4 DEF CheckoutState
        <3> QED
            BY <1>3, <2>1, <2>2, <3>1
    <2> QED
        BY <2>3, <2>4
<1>8. ASSUME NEW r \in Slot, OpensSave(r) PROVE CartsRest \/ CartTaken(r) \/ CartMade(r)
    <2>1. ASSUME NEW x, Opens(r, x), ~Holds(x) PROVE CartsRest
        BY <1>2, <1>3, <2>1 DEF Opens
    <2>2. \A k, op : ~Holds(BookState(k, op))
        BY DEF Holds, BookState, Refused, Done
    <2>3. \A p, c, price : ~Holds(PriceState(p, c, price))
        BY DEF Holds, PriceState, Refused, Done
    <2> QED
        BY <1>6, <1>7, <1>8, <2>1, <2>2, <2>3 DEF OpensSave
<1>9. ASSUME NEW r \in Slot, NEW p \in ProductId, NEW skus \in NewSkus, RegisterProduct(r, p, skus)
      PROVE  CartsRest
    <2>1. \E x : Arrives(r, x) /\ ~Holds(x)
        BY <1>5, <1>9 DEF RegisterProduct
    <2> QED
        BY <1>2, <1>3, <1>9, <2>1 DEF RegisterProduct
<1>10. ASSUME NEW r \in Slot, FindAddress(r) PROVE CartsRest
    <2>1. PICK y : /\ Become(r, y)
                   /\ Holds(y) => /\ y.pc = "prices" /\ y.customer = req[r].customer
                                  /\ y.cart = req[r].cart
        BY <1>5, <1>10 DEF FindAddress
    <2>2. req[r].pc = "address" /\ UNCHANGED <<carts, orders, lastId>>
        BY <1>10 DEF FindAddress
    <2> QED
        BY <1>4, <2>1, <2>2 DEF CartsRest, CartsKept, StateInv, Holds, OwnerOf, Makes
<1>11. ASSUME NEW r \in Slot, FindPrices(r) PROVE CartsRest
    <2>1. PICK y : /\ Become(r, y)
                   /\ Holds(y) => /\ y.pc = "place" /\ y.order.customer = req[r].customer
                                  /\ y.cart = req[r].cart
        BY <1>5, <1>11 DEF FindPrices, PlacedOrder
    <2>2. req[r].pc = "prices" /\ UNCHANGED <<carts, orders, lastId>>
        BY <1>11 DEF FindPrices
    <2> QED
        BY <1>4, <2>1, <2>2 DEF CartsRest, CartsKept, StateInv, Holds, OwnerOf, Makes
<1>12. ASSUME NEW r \in Slot, FinishCart(r) PROVE CartsRest \/ CartSaved(r)
    <2>1. CASE carts[req[r].customer] \notin {NoCart} /\ carts[req[r].customer].id # req[r].cart.id
        BY <1>3, <1>4, <1>5, <1>12, <2>1 DEF FinishCart, Fail
    <2>2. CASE ~(carts[req[r].customer] \notin {NoCart} /\ carts[req[r].customer].id # req[r].cart.id)
        <3>1. Become(r, Succeeded)
            BY <1>12, <2>2 DEF FinishCart, Accept
        <3>2. carts' = [carts EXCEPT ![req[r].customer] = req[r].cart]
            BY <1>12, <2>2 DEF FinishCart, SavedCart
        <3>3. OfCart(req[r].customer) \in raced' \/ req[r].seen = carts[req[r].customer]
            BY <1>12, <2>2 DEF FinishCart, Races
        <3>4. req[r].pc = "cart" /\ UNCHANGED <<orders, lastId>>
            BY <1>12 DEF FinishCart
        <3> QED
            BY <1>4, <1>5, <3>1, <3>2, <3>3, <3>4 DEF CartSaved
    <2> QED
        BY <2>1, <2>2
<1>13. ASSUME NEW r \in Slot, PlaceOrder(r) PROVE OrderPlaced(r)
    <2>1. Become(r, Succeeded)
        BY <1>13 DEF PlaceOrder, Accept
    <2>2. OfCart(req[r].order.customer) \in raced' \/ req[r].cart = carts[req[r].order.customer]
        BY <1>13 DEF PlaceOrder, Races
    <2> QED
        BY <1>4, <1>5, <1>13, <2>1, <2>2 DEF PlaceOrder, OrderPlaced
<1>14. ASSUME NEW r \in Slot,
              Prune(r) \/ WriteRow(r) \/ CommitBook(r) \/ Victim(r) \/ FinishUpdatePrice(r)
       PROVE  CartsRest
    <2>1. \E x : Become(r, x) /\ ~Holds(x)
        <3>1. CASE Prune(r)
            BY <3>1, Turned DEF Prune, Holds
        <3>2. CASE WriteRow(r)
            BY <1>5, <3>2, Turned DEF WriteRow, Fail, Holds
        <3> QED
            BY <1>5, <1>14, <3>1, <3>2 DEF CommitBook, Victim, FinishUpdatePrice, Accept, Fail, Holds
    <2>2. UNCHANGED <<carts, orders, lastId>>
        BY <1>14 DEF Prune, WriteRow, CommitBook, Victim, FinishUpdatePrice
    <2> QED
        BY <1>3, <1>4, <2>1, <2>2
<1> QED
    BY <1>1, <1>8, <1>9, <1>10, <1>11, <1>12, <1>13, <1>14, Steps DEF Proceed

\* The orders after a step: those there were, and perhaps the one just placed.
LEMMA OrdersGrow ==
    ASSUME StateInv, NEW r \in Slot, OrderPlaced(r)
    PROVE  /\ Len(orders) \in Nat /\ DOMAIN orders = 1..Len(orders)
           /\ DOMAIN orders' = 1..Len(orders) + 1
           /\ \A i \in 1..Len(orders) : orders'[i] = orders[i]
           /\ orders'[Len(orders) + 1].order = req[r].order
           /\ orders'[Len(orders) + 1].since = req[r].since
<1> DEFINE e == [order |-> req[r].order, since |-> req[r].since]
<1>1. orders' = Append(orders, e) /\ IsSequence(orders)
    BY DEF OrderPlaced, StateInv
<1>2. e.order = req[r].order /\ e.since = req[r].since
    OBVIOUS
<1> HIDE DEF e
<1> QED
    BY <1>1, <1>2, OneMore

\* Ids of carts are handed out to one customer each, and stay theirs.
LEMMA NextCartIds ==
    ASSUME StateInv, CarryInv, CartIdInv, [StoreNext]_shopVars
    PROVE  CartIdInv'
<1>0. StateInv'
    BY NextState
<1>1. PICK owner \in [Nat -> Customer] : Owns(owner)
    BY DEF CartIdInv
<1>2. ASSUME NEW new \in [Nat -> Customer],
             lastId <= lastId',
             \A id \in 1..lastId : new[id] = owner[id],
             \A k \in Customer : \/ carts'[k] = carts[k]
                                 \/ carts'[k] = NoCart
                                 \/ carts'[k].id \in 1..lastId' /\ new[carts'[k].id] = k,
             \A s \in Slot : Holds(req'[s]) =>
                \/ /\ Holds(req[s])
                   /\ req'[s].cart.id = req[s].cart.id
                   /\ OwnerOf(req'[s]) = OwnerOf(req[s])
                \/ /\ req'[s].cart.id \in 1..lastId'
                   /\ OwnerOf(req'[s]) \in Customer
                   /\ new[req'[s].cart.id] = OwnerOf(req'[s]),
             \A i \in DOMAIN orders' :
                \/ i \in DOMAIN orders /\ orders'[i] = orders[i]
                \/ /\ orders'[i].order.cart \in 1..lastId
                   /\ orders'[i].order.customer \in Customer
                   /\ owner[orders'[i].order.cart] = orders'[i].order.customer
      PROVE  CartIdInv'
    <2>0. lastId \in Nat /\ lastId' \in Nat
        BY <1>0 DEF StateInv
    <2>1. ASSUME NEW k \in Customer
          PROVE  /\ carts'[k].id \in 0..lastId'
                 /\ IF carts'[k].id = 0 THEN carts'[k] = NoCart ELSE new[carts'[k].id] = k
        <3>1. CASE carts'[k] = carts[k]
            BY <1>1, <1>2, <2>0, <3>1 DEF Owns
        <3>2. CASE carts'[k] = NoCart
            BY <2>0, <3>2 DEF NoCart, Cart
        <3>3. CASE carts'[k].id \in 1..lastId' /\ new[carts'[k].id] = k
            BY <2>0, <3>3
        <3> QED
            BY <1>2, <3>1, <3>2, <3>3
    <2>2. ASSUME NEW s \in Slot, Holds(req'[s])
          PROVE  /\ req'[s].cart.id \in 1..lastId'
                 /\ OwnerOf(req'[s]) \in Customer
                 /\ new[req'[s].cart.id] = OwnerOf(req'[s])
        BY <1>1, <1>2, <2>0, <2>2 DEF Owns
    <2>3. ASSUME NEW i \in DOMAIN orders'
          PROVE  /\ orders'[i].order.cart \in 1..lastId'
                 /\ orders'[i].order.customer \in Customer
                 /\ new[orders'[i].order.cart] = orders'[i].order.customer
        BY <1>1, <1>2, <2>0, <2>3 DEF Owns
    <2>4. Owns(new)'
        BY <2>1, <2>2, <2>3 DEF Owns, Holds, OwnerOf, NoCart
    <2> QED
        BY <1>2, <2>4 DEF CartIdInv
<1>3. CASE CartsRest
    BY <1>1, <1>2, <1>3 DEF CartsRest
<1>4. ASSUME NEW r \in Slot, CartTaken(r) PROVE CartIdInv'
    <2>1. carts[OwnerOf(req'[r])].id # 0
        BY <1>1, <1>4 DEF CartTaken, Owns
    <2>2. /\ req'[r].cart.id \in 1..lastId'
          /\ OwnerOf(req'[r]) \in Customer
          /\ owner[req'[r].cart.id] = OwnerOf(req'[r])
        BY <1>1, <1>4, <2>1 DEF CartTaken, Owns, StateInv
    <2>3. \A s \in Slot : Holds(req'[s]) => s = r \/ req'[s] = req[s]
        BY <1>4 DEF CartTaken, CartsKept
    <2> QED
        BY <1>1, <1>2, <1>4, <2>2, <2>3 DEF CartTaken, StateInv
<1>5. ASSUME NEW r \in Slot, CartMade(r) PROVE CartIdInv'
    <2> DEFINE new == [owner EXCEPT ![lastId + 1] = OwnerOf(req'[r])]
    <2>1. new \in [Nat -> Customer]
        BY <1>5 DEF CartMade
    <2>2. (\A id \in 1..lastId : new[id] = owner[id]) /\ new[lastId + 1] = OwnerOf(req'[r])
        BY DEF StateInv
    <2> HIDE DEF new
    <2>3. \A s \in Slot : Holds(req'[s]) => s = r \/ req'[s] = req[s]
        BY <1>5 DEF CartMade, CartsKept
    <2>4. lastId' = lastId + 1 /\ lastId \in Nat /\ UNCHANGED <<carts, orders>>
        BY <1>5 DEF CartMade, StateInv
    <2>5. /\ req'[r].cart.id \in 1..lastId'
          /\ OwnerOf(req'[r]) \in Customer
          /\ new[req'[r].cart.id] = OwnerOf(req'[r])
        BY <1>5, <2>2, <2>4 DEF CartMade
    <2> QED
        BY <1>2, <2>1, <2>2, <2>3, <2>4, <2>5
<1>6. ASSUME NEW r \in Slot, CartSaved(r) PROVE CartIdInv'
    <2>1. \A s \in Slot : Holds(req'[s]) => req'[s] = req[s]
        BY <1>6 DEF CartSaved, CartsKept
    <2>2. /\ req[r].cart.id \in 1..lastId
          /\ req[r].customer \in Customer
          /\ owner[req[r].cart.id] = req[r].customer
        BY <1>1, <1>6 DEF CartSaved, Owns, Holds, OwnerOf
    <2>3. lastId' = lastId /\ orders' = orders /\ lastId \in Nat
        BY <1>6 DEF CartSaved, StateInv
    <2>4. \A k \in Customer : \/ carts'[k] = carts[k]
                              \/ carts'[k].id \in 1..lastId' /\ owner[carts'[k].id] = k
        BY <1>6, <2>2, <2>3 DEF CartSaved, StateInv
    <2> QED
        BY <1>2, <2>1, <2>3, <2>4
<1>7. ASSUME NEW r \in Slot, OrderPlaced(r) PROVE CartIdInv'
    <2>1. \A s \in Slot : Holds(req'[s]) => req'[s] = req[s]
        BY <1>7 DEF OrderPlaced, CartsKept
    <2>2. OrderSave(req[r])
        BY <1>7 DEF OrderPlaced, CarryInv, Carried
    <2>3. /\ req[r].order.cart \in 1..lastId
          /\ req[r].order.customer \in Customer
          /\ owner[req[r].order.cart] = req[r].order.customer
        BY <1>1, <1>7, <2>2 DEF OrderPlaced, Owns, Holds, OwnerOf, OrderSave
    <2>4. lastId' = lastId /\ lastId \in Nat
        BY <1>7 DEF OrderPlaced, StateInv
    <2>5. \A k \in Customer : carts'[k] = carts[k] \/ carts'[k] = NoCart
        BY <1>7, <2>3 DEF OrderPlaced, StateInv, Emptied
    <2>6. \A i \in DOMAIN orders' :
                \/ i \in DOMAIN orders /\ orders'[i] = orders[i]
                \/ orders'[i].order = req[r].order
        BY <1>7, OrdersGrow
    <2> QED
        BY <1>2, <2>1, <2>3, <2>4, <2>5, <2>6
<1> QED
    BY <1>3, <1>4, <1>5, <1>6, <1>7, CartSteps

\* Requests that hold a cart after a step held it before, or it is somebody's.
LEMMA NextMaking ==
    ASSUME StateInv, CarryInv, CartIdInv, MakingInv, [StoreNext]_shopVars
    PROVE  MakingInv'
<1> SUFFICES ASSUME NEW r \in Slot, Makes(req'[r])
             PROVE  /\ \A k \in Customer : carts'[k].id # req'[r].cart.id
                    /\ \A s \in Slot : s # r /\ Holds(req'[s]) => req'[s].cart.id # req'[r].cart.id
                    /\ \A i \in DOMAIN orders' : orders'[i].order.cart # req'[r].cart.id
    BY DEF MakingInv, Makes, Holds
<1> DEFINE id == req'[r].cart.id
           Goal == /\ \A k \in Customer : carts'[k].id # id
                   /\ \A s \in Slot : s # r /\ Holds(req'[s]) => req'[s].cart.id # id
                   /\ \A i \in DOMAIN orders' : orders'[i].order.cart # id
<1>0. Holds(req'[r]) /\ lastId \in Nat
    BY DEF Makes, Holds, StateInv
<1>1. PICK owner \in [Nat -> Customer] : Owns(owner)
    BY DEF CartIdInv
<1>2. ASSUME Makes(req[r]), req[r].cart.id = id
      PROVE  /\ id \in 1..lastId
             /\ \A k \in Customer : carts[k].id # id
             /\ \A s \in Slot : s # r /\ Holds(req[s]) => req[s].cart.id # id
             /\ \A i \in DOMAIN orders : orders[i].order.cart # id
    <2>1. Holds(req[r])
        BY <1>2 DEF Makes, Holds
    <2> QED
        BY <1>1, <1>2, <2>1 DEF MakingInv, Owns
<1>3. ASSUME CartsRest PROVE Goal
    BY <1>0, <1>2, <1>3 DEF CartsRest
<1>4. ASSUME NEW o \in Slot, CartTaken(o) PROVE Goal
    <2>1. r # o /\ req'[r] = req[r]
        BY <1>0, <1>4 DEF CartTaken, CartsKept
    <2>2. Makes(req[r]) /\ req[r].cart.id = id
        BY <2>1
    <2> QED
        BY <1>2, <1>4, <2>1, <2>2 DEF CartTaken, CartsKept
<1>5. ASSUME NEW o \in Slot, CartMade(o) PROVE Goal
    <2>1. CASE r = o
        <3>1. id = lastId + 1
            BY <1>5, <2>1 DEF CartMade
        <3>2. \A s \in Slot : s # r /\ Holds(req'[s]) => Holds(req[s]) /\ req'[s] = req[s]
            BY <1>5, <2>1 DEF CartMade, CartsKept
        <3> QED
            BY <1>0, <1>1, <1>5, <3>1, <3>2 DEF CartMade, Owns
    <2>2. CASE r # o
        <3>1. Makes(req[r]) /\ req[r].cart.id = id
            BY <1>0, <1>5, <2>2 DEF CartMade, CartsKept
        <3> QED
            BY <1>0, <1>2, <1>5, <3>1 DEF CartMade, CartsKept
    <2> QED
        BY <2>1, <2>2
<1>6. ASSUME NEW o \in Slot, CartSaved(o) PROVE Goal
    <2>1. /\ r # o /\ Makes(req[r]) /\ req[r].cart.id = id
          /\ \A s \in Slot : Holds(req'[s]) => req'[s] = req[s]
        BY <1>0, <1>6 DEF CartSaved, CartsKept
    <2>2. req[o].cart.id # id
        BY <1>2, <1>6, <2>1 DEF CartSaved, Holds
    <2>3. \A k \in Customer : carts'[k] = carts[k] \/ carts'[k] = req[o].cart
        BY <1>6 DEF CartSaved, StateInv
    <2> QED
        BY <1>2, <1>6, <2>1, <2>2, <2>3 DEF CartSaved
<1>7. ASSUME NEW o \in Slot, OrderPlaced(o) PROVE Goal
    <2>1. /\ r # o /\ Makes(req[r]) /\ req[r].cart.id = id
          /\ \A s \in Slot : Holds(req'[s]) => req'[s] = req[s]
        BY <1>0, <1>7 DEF OrderPlaced, CartsKept
    <2>2. req[o].order.cart # id
        <3>1. req[o].order.cart = req[o].cart.id
            BY <1>7 DEF OrderPlaced, CarryInv, Carried, OrderSave
        <3> QED
            BY <1>2, <1>7, <2>1, <3>1 DEF OrderPlaced, Holds
    <2>3. \A k \in Customer : carts'[k] = carts[k] \/ carts'[k].id = 0
        BY <1>7 DEF OrderPlaced, StateInv, Emptied, NoCart, Cart
    <2>4. \A i \in DOMAIN orders' : \/ i \in DOMAIN orders /\ orders'[i] = orders[i]
                                    \/ orders'[i].order = req[o].order
        BY <1>7, OrdersGrow
    <2> QED
        BY <1>0, <1>2, <2>1, <2>2, <2>3, <2>4
<1> QED
    BY <1>3, <1>4, <1>5, <1>6, <1>7, CartSteps

\* What was ordered is deleted, and only a save that had not seen it deleted
\* brings it back.
LEMMA NextGoneCart ==
    ASSUME StateInv, CarryInv, CartIdInv, MakingInv, GoneCartInv, [StoreNext]_shopVars
    PROVE  GoneCartInv'
<1>1. raced \subseteq raced'
    BY RacedGrows
<1>2. ASSUME UNCHANGED <<carts, orders>> PROVE GoneCartInv'
    BY <1>1, <1>2 DEF GoneCartInv
<1>3. PICK owner \in [Nat -> Customer] : Owns(owner)
    BY DEF CartIdInv
<1>4. ASSUME NEW r \in Slot, CartSaved(r), NEW i \in DOMAIN orders',
             OfCart(orders'[i].order.customer) \notin raced'
      PROVE  carts'[orders'[i].order.customer].id # orders'[i].order.cart
    <2> DEFINE x == req[r]
               o == orders[i].order
    <2>1. orders' = orders /\ i \in DOMAIN orders /\ OfCart(o.customer) \notin raced
        BY <1>1, <1>4 DEF CartSaved
    <2>2. carts[o.customer].id # o.cart
        BY <2>1 DEF GoneCartInv
    <2>3. CASE o.customer # x.customer
        BY <1>4, <2>1, <2>2, <2>3 DEF CartSaved, StateInv
    <2>4. CASE o.customer = x.customer
        <3>1. CartSave(x) /\ x.seen = carts[x.customer]
            BY <1>4, <2>1, <2>4 DEF CartSaved, CarryInv, Carried
        <3>2. carts'[o.customer] = x.cart
            BY <1>4, <2>4, <3>1 DEF CartSaved, CartSave, StateInv
        <3>3. CASE x.seen = NoCart
            BY <1>4, <2>1, <3>2, <3>3 DEF CartSaved, Makes, MakingInv
        <3>4. CASE x.seen # NoCart
            BY <2>1, <2>2, <2>4, <3>1, <3>2, <3>4 DEF CartSave
        <3> QED
            BY <3>3, <3>4
    <2> QED
        BY <2>3, <2>4
<1>5. ASSUME NEW r \in Slot, OrderPlaced(r), NEW i \in DOMAIN orders',
             OfCart(orders'[i].order.customer) \notin raced'
      PROVE  carts'[orders'[i].order.customer].id # orders'[i].order.cart
    <2> DEFINE x == req[r]
               o == orders'[i].order
    <2>0. OrderSave(x)
        BY <1>5 DEF OrderPlaced, CarryInv, Carried
    <2>1. \A k \in Customer : \/ carts'[k] = carts[k] /\ (k = x.order.customer => carts[k].id # x.cart.id)
                              \/ carts'[k].id = 0
        BY <1>5 DEF OrderPlaced, StateInv, Emptied, NoCart, Cart
    <2>2. CASE i \in DOMAIN orders /\ orders'[i] = orders[i]
        <3>1. carts[o.customer].id # o.cart
            BY <1>1, <1>5, <2>2 DEF GoneCartInv
        <3>2. o.customer \in Customer /\ o.cart \in 1..lastId
            BY <1>3, <2>2 DEF Owns
        <3> QED
            BY <2>1, <3>1, <3>2 DEF StateInv
    <2>3. CASE o = x.order
        <3>1. o.cart \in 1..lastId /\ o.cart = x.cart.id
            BY <1>3, <1>5, <2>0, <2>3 DEF OrderPlaced, Owns, Holds, OrderSave
        <3>2. o.customer \in Customer
            BY <2>0, <2>3 DEF OrderSave
        <3> QED
            BY <2>1, <2>3, <3>1, <3>2 DEF StateInv
    <2> QED
        BY <1>5, <2>2, <2>3, OrdersGrow
<1> QED
    BY <1>2, <1>4, <1>5, CartSteps DEF CartsRest, CartTaken, CartMade, GoneCartInv

\* A checkout that saw the cart as it is finds no order of it.
LEMMA NextOneOrder ==
    ASSUME StateInv, CarryInv, CartIdInv, GoneCartInv, OneOrderPerCart, [StoreNext]_shopVars
    PROVE  OneOrderPerCart'
<1>1. raced \subseteq raced'
    BY RacedGrows
<1>2. ASSUME orders' = orders PROVE OneOrderPerCart'
    BY <1>1, <1>2 DEF OneOrderPerCart
<1>3. ASSUME NEW r \in Slot, OrderPlaced(r) PROVE OneOrderPerCart'
    <2> DEFINE x == req[r]
               n == Len(orders) + 1
    <2>1. /\ DOMAIN orders' = DOMAIN orders \cup {n}
          /\ \A i \in DOMAIN orders : orders'[i] = orders[i]
          /\ orders'[n].order = x.order
        <3>1. \A m \in Nat : 1..m + 1 = 1..m \cup {m + 1}
            OBVIOUS
        <3> QED
            BY <1>3, <3>1, OrdersGrow
    <2>2. OrderSave(x)
        BY <1>3 DEF OrderPlaced, CarryInv, Carried
    <2>3. ASSUME NEW i \in DOMAIN orders, orders[i].order.cart = x.order.cart
          PROVE  /\ OfCart(orders[i].order.customer) \in raced'
                 /\ OfCart(x.order.customer) \in raced'
        <3>1. PICK owner \in [Nat -> Customer] : Owns(owner)
            BY DEF CartIdInv
        <3>2. orders[i].order.customer = x.order.customer
            BY <1>3, <2>2, <2>3, <3>1 DEF OrderPlaced, Owns, Holds, OwnerOf, OrderSave
        <3> SUFFICES ASSUME OfCart(x.order.customer) \notin raced' PROVE FALSE
            BY <3>2
        <3>3. carts[x.order.customer].id = x.order.cart
            BY <1>3, <2>2 DEF OrderPlaced, OrderSave
        <3> QED
            BY <1>1, <2>3, <3>2, <3>3 DEF GoneCartInv
    <2> QED
        BY <1>1, <2>1, <2>3 DEF OneOrderPerCart
<1> QED
    BY <1>2, <1>3, CartSteps DEF CartsRest, CartTaken, CartMade, CartSaved

\* All that holds of carts goes on holding.
LEMMA NextCarts ==
    ASSUME StateInv, CarryInv, CartsInv, [StoreNext]_shopVars
    PROVE  CartsInv'
BY NextCartIds, NextMaking, NextGoneCart, NextOneOrder DEF CartsInv

-----------------------------------------------------------------------------
(* What orders cost.                                                        *)

\* Prices are looked up while a checkout is under way.
SinceInv == \A i \in DOMAIN orders : orders[i].since \in 1..Len(lists)
PricesInv == SinceInv /\ OrdersArePriced

\* Orders keep the prices they were placed at, and those stay in the history.
LEMMA NextPrices ==
    ASSUME StateInv, CarryInv, RowsInv, PricesInv, [StoreNext]_shopVars
    PROVE  PricesInv'
<1>0. Forward /\ Len(lists) \in Nat /\ Len(lists') \in Nat
    BY NextState, NextForward, OneMore DEF StateInv
<1>1. ASSUME NEW i \in DOMAIN orders, NEW o, o = orders[i]
      PROVE  o.since \in 1..Len(lists) /\ \E l \in o.since..Len(lists) : PricedBy(o.order, lists[l])
    BY <1>1 DEF PricesInv, SinceInv, OrdersArePriced, PricedBy
<1>2. ASSUME NEW o, o.since \in 1..Len(lists),
             \E l \in o.since..Len(lists) : PricedBy(o.order, lists[l])
      PROVE  /\ o.since \in 1..Len(lists')
             /\ \E l \in o.since..Len(lists') : PricedBy(o.order, lists'[l])
    <2>1. PICK l \in o.since..Len(lists) : PricedBy(o.order, lists[l])
        BY <1>2
    <2>2. l \in 1..Len(lists) /\ l \in o.since..Len(lists')
        BY <1>0, <1>2 DEF Forward
    <2> QED
        BY <1>0, <1>2, <2>1, <2>2 DEF Forward
<1>3. ASSUME NEW i \in DOMAIN orders'
      PROVE  /\ orders'[i].since \in 1..Len(lists)
             /\ \E l \in orders'[i].since..Len(lists) : PricedBy(orders'[i].order, lists[l])
    <2>1. CASE i \in DOMAIN orders /\ orders'[i] = orders[i]
        BY <1>1, <2>1
    <2>2. ASSUME NEW r \in Slot, req[r].pc = "place",
                 orders'[i].order = req[r].order, orders'[i].since = req[r].since
          PROVE  /\ orders'[i].since \in 1..Len(lists)
                 /\ \E l \in orders'[i].since..Len(lists) : PricedBy(orders'[i].order, lists[l])
        <3>1. OrderSave(req[r])
            BY <2>2 DEF CarryInv, Carried
        <3> QED
            BY <2>2, <3>1 DEF OrderSave, Since
    <2>3. ASSUME NEW r \in Slot, OrderPlaced(r)
          PROVE  \/ i \in DOMAIN orders /\ orders'[i] = orders[i]
                 \/ orders'[i].order = req[r].order /\ orders'[i].since = req[r].since
        BY <2>3, OrdersGrow
    <2>4. \/ i \in DOMAIN orders /\ orders'[i] = orders[i]
          \/ \E r \in Slot : OrderPlaced(r)
        BY CartSteps DEF CartsRest, CartTaken, CartMade, CartSaved
    <2> QED
        BY <2>1, <2>2, <2>3, <2>4 DEF OrderPlaced
<1>4. ASSUME NEW i \in DOMAIN orders'
      PROVE  /\ orders'[i].since \in 1..Len(lists')
             /\ \E l \in orders'[i].since..Len(lists') : PricedBy(orders'[i].order, lists'[l])
    BY <1>2, <1>3, <1>4
<1> QED
    BY <1>4 DEF PricesInv, SinceInv, OrdersArePriced, PricedBy

-----------------------------------------------------------------------------
(* The invariant of the storefront.                                         *)

StoreInv == StateInv /\ CarryInv /\ BooksInv /\ CartsInv /\ PricesInv

\* Both shops that a behaviour opens with are as they should be.
LEMMA StoreInit == Init => StoreInv
<1> SUFFICES ASSUME Init PROVE StoreInv
    OBVIOUS
<1>1. /\ orders = <<>> /\ lastId = 2 /\ requests = 0 /\ raced = {}
      /\ lists = << PriceList(products) >>
      /\ DOMAIN req = Slot /\ \A r \in Slot : req[r].pc = "idle"
    BY DEF Init, Idle
<1>2. /\ DOMAIN carts = Customer /\ DOMAIN books = Customer
      /\ \A k \in Customer : \/ books[k] = NoAddresses
                             \/ \E v : books[k] = WithAddress(NoAddresses, 2, v)
    BY DEF Init
<1>3. \/ \A k \in Customer : carts[k] = NoCart
      \/ \E k \in Customer : \A j \in Customer :
            IF j = k THEN carts[j].id = 1 ELSE carts[j] = NoCart
    <2>1. CASE carts = [k \in Customer |-> NoCart]
        BY <2>1
    <2>2. ASSUME NEW k \in Customer, NEW lines,
                 carts = [j \in Customer |-> IF j # k THEN NoCart ELSE Cart(1, lines)]
          PROVE  \A j \in Customer : IF j = k THEN carts[j].id = 1 ELSE carts[j] = NoCart
        <3>1. Cart(1, lines).id = 1
            BY DEF Cart
        <3> QED
            BY <2>2, <3>1
    <2> QED
        BY <2>1, <2>2 DEF Init
<1>4. IsSequence(lists) /\ Len(lists) = 1 /\ lists[1] = PriceList(products) /\ IsSequence(orders)
    <2>1. lists \in Seq({PriceList(products)}) /\ orders \in Seq({})
        BY <1>1
    <2> QED
        BY <1>1, <2>1 DEF IsSequence
<1>5. StateInv
    BY <1>1, <1>2, <1>4, StorefrontAssumption DEF StateInv
<1>6. CarryInv
    BY <1>1 DEF CarryInv, Carried
<1>7. ASSUME NEW k \in Customer PROVE DOMAIN books[k] \subseteq {2} /\ Defaults(books[k]) \subseteq {2}
    BY <1>2 DEF NoAddresses, WithAddress, Defaults
<1>8. BooksInv
    <2>1. RowsInv
        BY <1>1, <1>4, <1>7 DEF RowsInv
    <2>2. AddressIdInv /\ GoneInv /\ LockInv
        BY <1>1 DEF AddressIdInv, GoneInv, LockInv, SavesBook
    <2>3. DefaultsInv
        BY <1>1, <1>7 DEF DefaultsInv, OneOf, SavesBook
    <2> QED
        BY <2>1, <2>2, <2>3 DEF BooksInv
<1>9. CartsInv
    <2>1. NoCart.id = 0
        BY DEF NoCart, Cart
    <2>2. PICK owner \in [Nat -> Customer] : Owns(owner)
        <3>1. Shopper \in Customer
            BY TabAssumption
        <3>2. ASSUME NEW k \in Customer, \A j \in Customer : IF j = k THEN carts[j].id = 1 ELSE carts[j] = NoCart
              PROVE  \E owner \in [Nat -> Customer] : Owns(owner)
            <4>1. Owns([n \in Nat |-> k])
                BY <1>1, <2>1, <3>2 DEF Owns, Holds
            <4> QED
                BY <4>1
        <3>3. ASSUME \A j \in Customer : carts[j] = NoCart
              PROVE  \E owner \in [Nat -> Customer] : Owns(owner)
            <4>1. Owns([n \in Nat |-> Shopper])
                BY <1>1, <2>1, <3>3 DEF Owns, Holds
            <4> QED
                BY <3>1, <4>1
        <3> QED
            BY <1>3, <3>2, <3>3
    <2>3. MakingInv /\ GoneCartInv /\ OneOrderPerCart
        BY <1>1 DEF MakingInv, Makes, GoneCartInv, OneOrderPerCart
    <2> QED
        BY <2>2, <2>3 DEF CartsInv, CartIdInv
<1>10. PricesInv
    BY <1>1 DEF PricesInv, SinceInv, OrdersArePriced
<1> QED
    BY <1>5, <1>6, <1>8, <1>9, <1>10 DEF StoreInv

\* No step of the shop, and nothing that its tab does, takes that away.
LEMMA StoreStep == StoreInv /\ [ShopNext]_allVars => StoreInv'
<1> SUFFICES ASSUME StoreInv, [ShopNext]_allVars PROVE StoreInv'
    OBVIOUS
<1>1. StateInv /\ CarryInv /\ BooksInv /\ CartsInv /\ PricesInv /\ RowsInv
    BY DEF StoreInv, BooksInv
<1>2. [StoreNext]_shopVars
    BY StoreSteps
<1> QED
    BY <1>1, <1>2, NextState, NextCarried, NextBooks, NextCarts, NextPrices DEF StoreInv

\* The rows of the storefront, and what requests have read of them, fit
\* together whatever overlaps.
THEOREM ShopKeepsStore == ShopSpec => []StoreInv
<1>1. ShopInit => StoreInv
    BY StoreInit DEF ShopInit
<1> QED
    BY <1>1, StoreStep, PTL DEF ShopSpec

\* No address book has two defaults, which it could not be read back with, for
\* any number of saves that lock, delete and write its rows in turns: one that
\* has written a default holds every row that is one, and the others wait.
THEOREM BooksHaveOneDefault == ShopSpec => []OneDefault
<1>1. StoreInv => OneDefault
    BY OneIsReadable DEF StoreInv, BooksInv, DefaultsInv, OneDefault
<1> QED
    BY <1>1, ShopKeepsStore, PTL

\* The partial unique index refuses a save only for what has changed since it
\* read the book, never for the order in which it writes its own rows.
THEOREM OwnRowsNeverClash == ShopSpec => []OnlyRacesClash
<1>1. StoreInv => OnlyRacesClash
    BY ClashesAreRaces DEF StoreInv, BooksInv
<1> QED
    BY <1>1, ShopKeepsStore, PTL

\* A cart that no two requests overlapped on is ordered once.
THEOREM CartsAreOrderedOnce == ShopSpec => []OneOrderPerCart
<1>1. StoreInv => OneOrderPerCart
    BY DEF StoreInv, CartsInv
<1> QED
    BY <1>1, ShopKeepsStore, PTL

\* All prices of an order were in force together while it was checked out.
THEOREM PricesAreOfOneMoment == ShopSpec => []OrdersArePriced
<1>1. StoreInv => OrdersArePriced
    BY DEF StoreInv, PricesInv
<1> QED
    BY <1>1, ShopKeepsStore, PTL

-----------------------------------------------------------------------------
(* The promise.  A request that is answered with success is one step of     *)
(* ShopPromise, the last one of its own; every other step is none.          *)

\* The rules of the promise are those of the code.
LEMMA SameCardinality == \A S : Promise!Cardinality(S) = Cardinality(S)
BY Zenon DEF Promise!Cardinality, Cardinality

\* What a request may do to a cart, and what becomes of it.
LEMMA SameCartRules ==
    /\ Promise!NoLines = NoLines
    /\ \A lines, op, max : Promise!CartVerdict(lines, op, max) = CartVerdict(lines, op, max)
    /\ \A lines, op : Promise!CartAfter(lines, op) = CartAfter(lines, op)
<1>1. Promise!NoLines = NoLines
    BY DEF Promise!NoLines, NoLines
<1>2. \A lines, op, max : Promise!CartVerdict(lines, op, max) = CartVerdict(lines, op, max)
    BY SameCardinality DEF Promise!CartVerdict, CartVerdict, Promise!HasLine, HasLine
<1>3. \A lines, sku, quantity : Promise!WithLine(lines, sku, quantity) = WithLine(lines, sku, quantity)
    BY DEF Promise!WithLine, WithLine
<1>4. \A lines, sku, quantity : Promise!Added(lines, sku, quantity) = Added(lines, sku, quantity)
    BY <1>3 DEF Promise!Added, Added, Promise!HasLine, HasLine
<1>5. \A lines, sku : Promise!Removed(lines, sku) = Removed(lines, sku)
    BY DEF Promise!Removed, Removed, Promise!Restrict, Restrict
<1> QED
    BY <1>1, <1>2, <1>3, <1>4, <1>5 DEF Promise!CartAfter, CartAfter

\* To an address book.
LEMMA SameBookRules ==
    /\ \A book, op : Promise!BookVerdict(book, op) = BookVerdict(book, op)
    /\ \A book, op : Promise!BookAfter(book, op) = BookAfter(book, op)
BY DEF Promise!BookVerdict, BookVerdict, Promise!BookAfter, BookAfter, Promise!WithAddress,
       WithAddress, Promise!Saved, Saved, Promise!FirstIsDefault, FirstIsDefault,
       Promise!NoAddresses, NoAddresses, Promise!Blank, Blank, Promise!Restrict, Restrict

\* To a product.
LEMMA SameProductRules ==
    /\ \A product, code : Promise!PriceVerdict(product, code) = PriceVerdict(product, code)
    /\ \A product, code, price :
          Promise!Repriced(product, code, price) = Repriced(product, code, price)
    /\ \A code, price : Promise!NewSku(code, price) = NewSku(code, price)
    /\ \A skus : Promise!RegisterVerdict(skus) = RegisterVerdict(skus)
    /\ \A skus : Promise!RegisteredProduct(skus) = RegisteredProduct(skus)
<1>1. \A product, code : Promise!PriceVerdict(product, code) = PriceVerdict(product, code)
    BY DEF Promise!PriceVerdict, PriceVerdict
<1>2. \A product, code, price :
          Promise!Repriced(product, code, price) = Repriced(product, code, price)
    BY DEF Promise!Repriced, Repriced, Promise!Product, Product
<1>3. \A code, price : Promise!NewSku(code, price) = NewSku(code, price)
    BY DEF Promise!NewSku, NewSku
<1>4. \A skus : Promise!Codes(skus) = Codes(skus)
    BY DEF Promise!Codes, Codes
<1>5. \A money : Promise!PriceAccepted(money) = PriceAccepted(money)
    BY DEF Promise!PriceAccepted, PriceAccepted
<1>6. \A skus : Promise!DuplicateCode(skus) = DuplicateCode(skus)
    BY <1>4, SameCardinality DEF Promise!DuplicateCode, DuplicateCode
<1>7. \A skus : Promise!RegisterVerdict(skus) = RegisterVerdict(skus)
    BY <1>5, <1>6 DEF Promise!RegisterVerdict, RegisterVerdict
<1>8. \A skus : Promise!Range(skus) = Range(skus)
    BY DEF Promise!Range, Range
<1>9. ASSUME NEW skus PROVE Promise!RegisteredProduct(skus) = RegisteredProduct(skus)
    BY <1>4, <1>8 DEF Promise!RegisteredProduct, RegisteredProduct, Promise!Product, Product
<1> QED
    BY <1>1, <1>2, <1>3, <1>7, <1>9

\* And how successes and races are told apart.
LEMMA SameNames ==
    /\ \A k : Promise!OfCart(k) = OfCart(k) /\ Promise!OfBook(k) = OfBook(k)
    /\ \A p : Promise!OfProduct(p) = OfProduct(p)
    /\ \A what, op : Succeeds(what, op) => Promise!Succeeds(what, op)
BY DEF Promise!OfCart, OfCart, Promise!OfBook, OfBook, Promise!OfProduct, OfProduct,
       Promise!Succeeds, Succeeds, Promise!Entry, Entry

\* The variables of the promise that are not those of the shop.
Lines == [k \in Customer |-> LinesOf(k)]
Orders == [i \in DOMAIN orders |-> LinesOfOrder(i)]

\* What is raced at a step, and that a step changes f at x only.
Rewrites(f, x) == f' = [f EXCEPT ![x] = f'[x]]
RaceOf(what) == raced' \in {raced, raced \cup {what}}

\* Its steps, over customers and products of the shop.
LEMMA PromiseSteps ==
    /\ \A k \in Customer, op \in CartOps : Promise!ChangeCart(k, op) => Promise!Next
    /\ \A k \in Customer, a \in AddressId : Promise!Checkout(k, a) => Promise!Next
    /\ \A k \in Customer, op \in AddressOps : Promise!ChangeBook(k, op) => Promise!Next
    /\ \A p \in DOMAIN products : \A code \in DOMAIN products[p].prices, price \in NewPrices :
          Promise!UpdatePrice(p, code, price) => Promise!Next
    /\ \A skus \in NewSkus : Promise!RegisterProduct(skus) => Promise!Next
<1>1. \A k \in Customer : k \in DOMAIN [j \in Customer |-> LinesOf(j)]
    OBVIOUS
<1>2. ASSUME NEW k \in Customer, NEW op \in CartOps, Promise!ChangeCart(k, op) PROVE Promise!Next
    BY Zenon, <1>1, <1>2 DEF Promise!Next
<1>3. ASSUME NEW k \in Customer, NEW a \in AddressId, Promise!Checkout(k, a) PROVE Promise!Next
    BY Zenon, <1>1, <1>3 DEF Promise!Next
<1>4. ASSUME NEW k \in Customer, NEW op \in AddressOps, Promise!ChangeBook(k, op) PROVE Promise!Next
    BY Zenon, <1>1, <1>4 DEF Promise!Next
<1>5. ASSUME NEW p \in DOMAIN products, NEW code \in DOMAIN products[p].prices,
             NEW price \in NewPrices, Promise!UpdatePrice(p, code, price)
      PROVE  Promise!Next
    BY Zenon, <1>5 DEF Promise!Next
<1>6. ASSUME NEW skus \in NewSkus, Promise!RegisterProduct(skus) PROVE Promise!Next
    BY Zenon, <1>6 DEF Promise!Next
<1> QED
    BY <1>2, <1>3, <1>4, <1>5, <1>6

\* Nothing that the promise speaks of changes.
LEMMA Silent ==
    ASSUME UNCHANGED <<carts, books, products, orders, raced, last>>
    PROVE  UNCHANGED Promise!promiseVars
<1>1. Lines' = Lines
    BY DEF Lines, LinesOf
<1>2. Orders' = Orders
    BY DEF Orders, LinesOfOrder
<1> QED
    BY <1>1, <1>2 DEF Promise!promiseVars, Lines, Orders

\* A saved cart.
LEMMA PromisesCart ==
    ASSUME StateInv, CarryInv, NEW r \in Slot, FinishCart(r)
    PROVE  Promise!Next \/ UNCHANGED Promise!promiseVars
<1>1. CartSave(req[r]) /\ UNCHANGED <<books, products, orders>>
    BY DEF FinishCart, CarryInv, Carried
<1>2. PICK x : x = req[r]
    OBVIOUS
<1>0. PICK k \in Customer, op \in CartOps : k = x.customer /\ op = x.op
    BY <1>1, <1>2 DEF CartSave
<1>3. CASE carts[k] \notin {NoCart} /\ carts[k].id # x.cart.id
    <2>1. UNCHANGED <<carts, raced, last>>
        BY <1>2, <1>0, <1>3 DEF FinishCart, Fail
    <2> QED
        BY <1>1, <2>1, Silent
<1>4. CASE ~(carts[k] \notin {NoCart} /\ carts[k].id # x.cart.id)
    <2>1. /\ carts' = [carts EXCEPT ![k] = x.cart]
          /\ Races(OfCart(k), x.seen, carts[k])
          /\ Succeeds(OfCart(k), op)
        BY <1>2, <1>0, <1>4 DEF FinishCart, SavedCart, Accept
    <2>2. Lines' = [Lines EXCEPT ![k] = x.cart.lines]
        BY <2>1 DEF Lines, LinesOf, StateInv
    <2>3. Orders' = Orders
        BY <1>1 DEF Orders, LinesOfOrder
    <2>4. Lines[k] = carts[k].lines /\ Lines'[k] = x.cart.lines /\ Rewrites(Lines, k)
        BY <2>2 DEF Lines, LinesOf, Rewrites
    <2>5. RaceOf(OfCart(k)) /\ (OfCart(k) \in raced' \/ x.seen = carts[k])
        BY <2>1 DEF Races, RaceOf
    <2>6. /\ x.seen = carts[k] => CartVerdict(Lines[k], op, MaxLines) = "OK"
          /\ x.seen = carts[k] => Lines'[k] = CartAfter(Lines[k], op)
        <3>1. CartVerdict(x.seen.lines, op, MaxLines) = "OK"
            BY <1>1, <1>2, <1>0 DEF CartSave
        <3>2. Lines'[k] = CartAfter(x.seen.lines, op)
            BY <1>1, <1>2, <1>0, <2>4 DEF CartSave
        <3>3. x.seen = carts[k] => x.seen.lines = Lines[k]
            BY <2>4
        <3> QED
            BY <3>1, <3>2, <3>3
    <2>7. Promise!ChangeCart(k, op)
        BY <1>1, <2>1, <2>3, <2>4, <2>5, <2>6, SameCartRules, SameNames
           DEF Promise!ChangeCart, Promise!At, Rewrites, RaceOf, Lines, Orders
    <2> QED
        BY <2>7, PromiseSteps
<1> QED
    BY <1>3, <1>4

\* A list that grew by one.
LEMMA Appended ==
    ASSUME NEW n \in Nat, NEW f, NEW g,
           f = [i \in 1..n |-> f[i]],
           g = [i \in 1..n + 1 |-> g[i]],
           \A i \in 1..n : g[i] = f[i]
    PROVE  Len(f) = n /\ Len(g) = n + 1 /\ g = Append(f, g[n + 1])
<1> DEFINE S == {g[i] : i \in 1..n + 1}
<1>0. \A T : \A m \in Nat : \A s \in [1..m -> T] : s \in Seq(T) /\ Len(s) = m
    OBVIOUS
<1>1. f \in Seq(S) /\ Len(f) = n
    <2>1. \A i \in 1..n : f[i] \in S
        BY \A i \in 1..n : i \in 1..n + 1
    <2>2. f \in [1..n -> S]
        BY <2>1
    <2> QED
        BY <2>2
<1>2. g \in Seq(S) /\ Len(g) = n + 1
    <2>1. g \in [1..n + 1 -> S] /\ n + 1 \in Nat
        OBVIOUS
    <2> HIDE DEF S
    <2> QED
        BY <1>0, <2>1
<1>3. g[n + 1] \in S
    OBVIOUS
<1> HIDE DEF S
<1>4. Append(f, g[n + 1]) = g
    <2> DEFINE h == Append(f, g[n + 1])
    <2>1. h \in Seq(S) /\ Len(h) = n + 1 /\ (\A i \in 1..n : h[i] = f[i]) /\ h[n + 1] = g[n + 1]
        BY <1>1, <1>3, AppendProperties
    <2> HIDE DEF h
    <2>2. Len(h) = Len(g) /\ \A i \in 1..Len(h) : h[i] = g[i]
        <3>1. \A i \in 1..n + 1 : i \in 1..n \/ i = n + 1
            OBVIOUS
        <3>2. ASSUME NEW i \in 1..n + 1 PROVE h[i] = g[i]
            BY <2>1, <3>1
        <3> QED
            BY <1>2, <2>1, <3>2
    <2>3. h = g
        BY <1>2, <2>1, <2>2, SeqEqual
    <2> QED
        BY <2>3 DEF h
<1> QED
    BY <1>1, <1>2, <1>4

\* An order, and the cart it takes away.
LEMMA PromisesOrder ==
    ASSUME StateInv, CarryInv, NEW r \in Slot, PlaceOrder(r)
    PROVE  Promise!Next
<1>1. OrderSave(req[r]) /\ UNCHANGED <<books, products>>
    BY DEF PlaceOrder, CarryInv, Carried
<1>2. PICK x : x = req[r]
    OBVIOUS
<1>0. PICK k \in Customer, a \in AddressId : k = x.order.customer /\ a = x.address
    BY <1>1, <1>2 DEF OrderSave
<1>3. /\ carts' = [carts EXCEPT ![k] = Emptied(carts[k], x.cart.id)]
      /\ orders' = Append(orders, [order |-> x.order, since |-> x.since])
      /\ Races(OfCart(k), x.cart, carts[k])
      /\ Succeeds(OfCart(k), [ship |-> a])
    BY <1>2, <1>0 DEF PlaceOrder, Accept
<1> DEFINE n == Len(orders)
           order1 == Orders'[n + 1]
<1>4. /\ n \in Nat /\ DOMAIN orders = 1..n
      /\ DOMAIN orders' = 1..n + 1
      /\ \A i \in 1..n : orders'[i] = orders[i]
      /\ orders'[n + 1].order = x.order
    <2>1. [order |-> x.order, since |-> x.since].order = x.order
        OBVIOUS
    <2> QED
        BY <1>3, <2>1, OneMore DEF StateInv
<1>5. /\ Orders = [i \in 1..n |-> Orders[i]]
      /\ Orders' = [i \in 1..n + 1 |-> Orders'[i]]
      /\ \A i \in 1..n : Orders'[i] = Orders[i]
      /\ Orders'[n + 1] = [customer |-> x.order.customer, lines |-> x.order.lines]
    BY <1>4 DEF Orders, LinesOfOrder
<1>6. Len(Orders) = n /\ Len(Orders') = n + 1 /\ Orders' = Append(Orders, Orders'[n + 1])
    BY <1>4, <1>5, Appended
<1>7. Lines' = [Lines EXCEPT ![k] = Emptied(carts[k], x.cart.id).lines]
    BY <1>3 DEF Lines, LinesOf, StateInv
<1>8. /\ Lines[k] = carts[k].lines
      /\ Lines'[k] = Emptied(carts[k], x.cart.id).lines
      /\ Rewrites(Lines, k)
    BY <1>7 DEF Lines, LinesOf, Rewrites
<1>9. RaceOf(OfCart(k)) /\ (OfCart(k) \in raced' \/ x.cart = carts[k])
    BY <1>3 DEF Races, RaceOf
<1>10. x.cart = carts[k] => /\ Orders'[n + 1].lines = Lines[k]
                            /\ Lines[k] # NoLines
                            /\ Lines'[k] = NoLines
    <2>1. x.order.lines = x.cart.lines /\ x.cart.lines # NoLines
        BY <1>1, <1>2, <1>0 DEF OrderSave
    <2>2. x.cart = carts[k] => Emptied(carts[k], x.cart.id).lines = NoLines
        BY DEF Emptied, NoCart, Cart
    <2> QED
        BY <1>5, <1>8, <2>1, <2>2
<1>11. Orders'[n + 1].customer = k
    BY <1>2, <1>0, <1>5
<1>12. Promise!Checkout(k, a)
    BY <1>1, <1>3, <1>6, <1>8, <1>9, <1>10, <1>11, SameCartRules, SameNames
       DEF Promise!Checkout, Promise!At, Rewrites, RaceOf, Lines, Orders
<1> QED
    BY <1>12, PromiseSteps

\* A saved address book.
LEMMA PromisesBook ==
    ASSUME StateInv, CarryInv, GoneInv, NEW r \in Slot, CommitBook(r)
    PROVE  Promise!Next \/ UNCHANGED Promise!promiseVars
<1>1. /\ BookSave(req[r]) /\ UNCHANGED <<carts, products, orders>>
      /\ req[r].pc = "write"
    BY DEF CommitBook, CarryInv, Carried
<1>2. PICK x : x = req[r]
    OBVIOUS
<1>3. PICK k \in Customer, op \in AddressOps : k = x.customer /\ op = x.op
    BY <1>1, <1>2 DEF BookSave
<1> DEFINE merged == Merged(books[k], x.pruned, x.book)
<1>4. /\ books' = [books EXCEPT ![k] = merged]
      /\ Races(OfBook(k), x.seen, books[k])
      /\ Succeeds(OfBook(k), op)
    BY <1>2, <1>3 DEF CommitBook, Accept
<1>5. Lines' = Lines /\ Orders' = Orders
    BY <1>1 DEF Lines, LinesOf, Orders, LinesOfOrder
<1>6. books'[k] = merged /\ Rewrites(books, k)
    BY <1>4 DEF StateInv, Rewrites
<1>7. RaceOf(OfBook(k)) /\ (OfBook(k) \in raced' \/ (x.seen = books[k] /\ OfBook(k) \notin raced))
    BY <1>4 DEF Races, RaceOf
<1>8. ASSUME x.seen = books[k], OfBook(k) \notin raced
      PROVE  BookVerdict(books[k], op) = "OK" /\ merged = BookAfter(books[k], op)
    <2>1. BookVerdict(x.seen, op) = "OK" /\ x.book = BookAfter(x.seen, op)
        BY <1>1, <1>2, <1>3 DEF BookSave
    <2>2. DOMAIN x.seen \ x.pruned \subseteq DOMAIN x.book
        <3>1. CASE op.kind # "remove"
            BY <1>1, <1>2, <1>3, <3>1, BookIds
        <3>2. CASE op.kind = "remove"
            <4>1. DOMAIN x.book = DOMAIN x.seen \ {op.id}
                BY <1>1, <1>2, <1>3, <3>2, BookIds
            <4>2. op.id \in x.pruned \/ op.id \notin DOMAIN x.seen
                BY <1>1, <1>2, <1>3, <1>8, <3>2 DEF GoneInv
            <4> QED
                BY <4>1, <4>2
        <3> QED
            BY <3>1, <3>2
    <2>3. x.book = [a \in DOMAIN x.book |-> x.book[a]]
        BY <1>1, <1>2, BookIds
    <2>4. (DOMAIN x.seen \ x.pruned) \cup DOMAIN x.book = DOMAIN x.book
        BY <2>2
    <2>5. Merged(x.seen, x.pruned, x.book) = [a \in DOMAIN x.book |-> x.book[a]]
        BY <2>4 DEF Merged
    <2> QED
        BY <1>8, <2>1, <2>3, <2>5
<1>9. Promise!ChangeBook(k, op)
    BY <1>1, <1>4, <1>5, <1>6, <1>7, <1>8, SameBookRules, SameNames
       DEF Promise!ChangeBook, Promise!At, Rewrites, RaceOf, Lines, Orders
<1> QED
    BY <1>9, PromiseSteps

\* A new price.
LEMMA PromisesPrice ==
    ASSUME StateInv, CarryInv, NEW r \in Slot, FinishUpdatePrice(r)
    PROVE  Promise!Next
<1>1. PriceSave(req[r]) /\ UNCHANGED <<carts, books, orders>>
    BY DEF FinishUpdatePrice, CarryInv, Carried
<1>2. PICK x : x = req[r]
    OBVIOUS
<1>3. PICK p \in DOMAIN products, price \in NewPrices : p = x.id /\ price = x.op.price
    BY <1>1, <1>2 DEF PriceSave
<1>4. PICK code \in DOMAIN products[p].prices : code = x.op.code
    BY <1>1, <1>2, <1>3 DEF PriceSave
<1>5. /\ products' = [products EXCEPT ![p] = x.product]
      /\ Races(OfProduct(p), x.seen, products[p])
      /\ Succeeds(OfProduct(p), NewSku(code, price))
    BY <1>1, <1>2, <1>3, <1>4 DEF FinishUpdatePrice, Accept, PriceSave
<1>6. Lines' = Lines /\ Orders' = Orders
    BY <1>1 DEF Lines, LinesOf, Orders, LinesOfOrder
<1>7. products'[p] = x.product /\ Rewrites(products, p)
    BY <1>5 DEF Rewrites
<1>8. RaceOf(OfProduct(p)) /\ (OfProduct(p) \in raced' \/ x.seen = products[p])
    BY <1>5 DEF Races, RaceOf
<1>9. ASSUME x.seen = products[p]
      PROVE  PriceVerdict(products[p], code) = "OK" /\ x.product = Repriced(products[p], code, price)
    BY <1>1, <1>2, <1>3, <1>4, <1>9 DEF PriceSave, PriceVerdict
<1>10. Promise!UpdatePrice(p, code, price)
    BY <1>1, <1>5, <1>6, <1>7, <1>8, <1>9, SameProductRules, SameNames
       DEF Promise!UpdatePrice, Promise!At, Rewrites, RaceOf, Lines, Orders
<1> QED
    BY <1>10, PromiseSteps

\* A new product.
LEMMA PromisesProduct ==
    ASSUME NEW r \in Slot, NEW p \in ProductId, NEW skus \in NewSkus, RegisterProduct(r, p, skus)
    PROVE  Promise!Next \/ UNCHANGED Promise!promiseVars
<1>1. UNCHANGED <<carts, books, orders, raced>> /\ p \notin DOMAIN products
    BY DEF RegisterProduct
<1>2. CASE RegisterVerdict(skus) # "OK"
    <2>1. UNCHANGED <<products, last>>
        BY <1>2 DEF RegisterProduct
    <2> QED
        BY <1>1, <2>1, Silent
<1>3. CASE RegisterVerdict(skus) = "OK"
    <2>1. /\ products' = [q \in DOMAIN products \cup {p} |->
                             IF q = p THEN RegisteredProduct(skus) ELSE products[q]]
          /\ Succeeds(OfProduct(p), [skus |-> skus])
        BY <1>3 DEF RegisterProduct
    <2>2. Lines' = Lines /\ Orders' = Orders
        BY <1>1 DEF Lines, LinesOf, Orders, LinesOfOrder
    <2>3. p \in DOMAIN products' \ DOMAIN products
        BY <1>1, <2>1
    <2>4. Promise!Succeeds(Promise!OfProduct(p), [skus |-> skus])
        BY <2>1, SameNames
    <2>5. Promise!RegisterProduct(skus)
        BY <1>1, <1>3, <2>1, <2>2, <2>3, <2>4, SameProductRules
           DEF Promise!RegisterProduct, Lines, Orders
    <2> QED
        BY <2>5, PromiseSteps
<1> QED
    BY <1>2, <1>3

\* Every step of the storefront keeps the promise.
LEMMA PromiseStep ==
    ASSUME StoreInv, [StoreNext]_shopVars
    PROVE  [Promise!Next]_Promise!promiseVars
<1>0. StateInv /\ CarryInv /\ GoneInv
    BY DEF StoreInv, BooksInv
<1>1. ASSUME UNCHANGED shopVars PROVE UNCHANGED Promise!promiseVars
    BY <1>1, Silent DEF shopVars
<1>2. ASSUME NEW r \in Slot, OpensSave(r) PROVE UNCHANGED Promise!promiseVars
    <2>1. PICK x : Opens(r, x)
        BY <1>0, <1>2, OpensWrites
    <2> QED
        BY <2>1, Silent DEF Opens
<1>3. ASSUME NEW r \in Slot, FindAddress(r) \/ FindPrices(r) \/ Prune(r) \/ WriteRow(r) \/ Victim(r)
      PROVE  UNCHANGED Promise!promiseVars
    <2>1. UNCHANGED <<carts, books, products, orders, raced, last>>
        BY <1>3 DEF FindAddress, FindPrices, Prune, WriteRow, Victim, Fail
    <2> QED
        BY <2>1, Silent
<1>4. ASSUME NEW r \in Slot, Proceed(r) PROVE [Promise!Next]_Promise!promiseVars
    BY <1>0, <1>3, <1>4, PromisesCart, PromisesOrder, PromisesBook, PromisesPrice DEF Proceed
<1> QED
    BY <1>0, <1>1, <1>2, <1>4, Steps, PromisesProduct

\* Requests that do not overlap act one after the other: a request that is
\* answered with success is one step on one cart, book or product, whatever its
\* transactions read, delete and write on the way.
THEOREM ShopKeepsThePromise == ShopSpec => PromiseSpec
<1>1. ShopInit => Promise!Init
    <2> SUFFICES ASSUME Init PROVE Promise!Init
        BY DEF ShopInit
    <2>1. raced = {} /\ orders = <<>> /\ last = Entry(0, <<>>, [none |-> 0])
        BY DEF Init
    <2>2. last.count = 0
        BY <2>1 DEF Entry
    <2>3. [i \in DOMAIN orders |-> LinesOfOrder(i)] = <<>>
        BY <2>1
    <2> QED
        BY <2>1, <2>2, <2>3 DEF Promise!Init
<1>2. StoreInv /\ [ShopNext]_allVars => [Promise!Next]_Promise!promiseVars
    BY StoreSteps, PromiseStep
<1> QED
    BY <1>1, <1>2, ShopKeepsStore, PTL DEF ShopSpec, PromiseSpec, Promise!Spec
-----------------------------------------------------------------------------
(* The tab: its requests.                                                   *)

\* A request that ends is answered with success or with an error's code.
ErrorCodes == RefusalCodes \cup {Internal.code}
Ends(x) == x.pc = "done" => x = Succeeded \/ x.code \in ErrorCodes
DoneInv == \A r \in Slot : Ends(req[r])

\* No error is told by a code that means something else to the tab.
LEMMA CodesApart ==
    /\ ErrorCodes \cap (Outcomes \ {Refused("OUT_OF_STOCK").code, Internal.code}) = {}
    /\ Succeeded.code \notin ErrorCodes /\ Succeeded.code \notin Outcomes
    /\ Waiting \notin ErrorCodes \cup Outcomes /\ Taken \notin ErrorCodes \cup Outcomes
    /\ Waiting # Taken /\ Succeeded.code \notin {Waiting, Taken}
    /\ NoReason = Succeeded.code
    /\ \A e : Refused(e).code \in ErrorCodes
<1>1. \A e : Refused(e).code \in RefusalCodes
    BY RefusalAnswers DEF Refused, Done
<1>2. Refused("OUT_OF_STOCK").code \in RefusalCodes
    BY <1>1
<1> QED
    BY <1>1, <1>2
       DEF ErrorCodes, RefusalCodes, Internal, Outcomes, Succeeded, Done, Waiting, Taken, NoReason

\* What a request ends with.
LEMMA Endings ==
    /\ Ends(Idle)
    /\ Ends(Succeeded)
    /\ Ends(Failed)
    /\ \A e : Ends(Refused(e)) /\ Refused(e).pc = "done" /\ Refused(e) # Succeeded
    /\ Succeeded.pc = "done" /\ Failed.pc = "done"
<1>1. Ends(Idle) /\ Ends(Succeeded)
    BY DEF Ends, Idle
<1>2. Ends(Failed)
    BY DEF Ends, Failed, Done, ErrorCodes
<1>3. \A e : Refused(e).code \in ErrorCodes /\ Refused(e).code # Succeeded.code
    BY CodesApart
<1>4. \A e : Refused(e).pc = "done"
    BY DEF Refused, Done
<1> QED
    BY <1>1, <1>2, <1>3, <1>4 DEF Ends, Succeeded, Failed, Done

\* What one step of a request that is under way does to it, and to the rows
\* that the tab shows.
Ended(r) == req'[r].pc = "done" /\ Ends(req'[r])
Goes(r) ==
    LET x == req[r] y == req'[r] IN
    /\ \A s \in Slot : s # r => req'[s] = req[s]
    /\ \/ /\ x.pc \in {"cart", "prune", "write", "price"}
          /\ Ended(r)
       \/ /\ x.pc \in {"address", "prices"}
          /\ Ended(r) /\ y # Succeeded
       \/ /\ x.pc = "place"
          /\ y = Succeeded
       \/ /\ <<x.pc, y.pc>> \in {<<"address", "prices">>, <<"prices", "place">>}
          /\ OwnerOf(y) = OwnerOf(x)
          /\ y.cart = x.cart
       \/ /\ x.pc \in {"prune", "write"} /\ y.pc = "write"
          /\ OwnerOf(y) = OwnerOf(x)
    /\ \/ carts' = carts
       \/ x.pc = "cart" /\ y = Succeeded
       \/ x.pc = "place"
    /\ x.pc = "place" =>
        carts' = [carts EXCEPT ![OwnerOf(x)] = Emptied(carts[OwnerOf(x)], x.cart.id)]
    /\ books' = books \/ (x.pc = "write" /\ y = Succeeded)
    /\ products' = products \/ x.pc = "price"

LEMMA ProceedGoes ==
    ASSUME StateInv, NEW r \in Slot, Proceed(r)
    PROVE  Goes(r)
<1>1. \A state : Become(r, state) => req'[r] = state /\ \A s \in Slot : s # r => req'[s] = req[s]
    BY Became
<1>2. CASE FinishCart(r)
    BY <1>1, <1>2, Endings DEF FinishCart, Accept, Fail, Goes, Ended
<1>3. CASE FindAddress(r)
    <2>1. PICK y : /\ Become(r, y)
                   /\ \/ /\ y.pc = "prices" /\ y.customer = req[r].customer /\ y.cart = req[r].cart
                      \/ y = Refused("SHIPPING_ADDRESS_NOT_FOUND")
        BY <1>3 DEF FindAddress
    <2>2. req[r].pc = "address" /\ UNCHANGED <<carts, books, products>>
        BY <1>3 DEF FindAddress
    <2> QED
        BY <1>1, <2>1, <2>2, Endings DEF Goes, Ended, OwnerOf
<1>4. CASE FindPrices(r)
    <2>1. PICK y : /\ Become(r, y)
                   /\ \/ /\ y.pc = "place" /\ y.order.customer = req[r].customer
                         /\ y.cart = req[r].cart
                      \/ \E e : y = Refused(e)
        BY <1>4 DEF FindPrices, PlacedOrder
    <2>2. req[r].pc = "prices" /\ UNCHANGED <<carts, books, products>>
        BY <1>4 DEF FindPrices
    <2> QED
        BY <1>1, <2>1, <2>2, Endings DEF Goes, Ended, OwnerOf
<1>5. CASE PlaceOrder(r)
    BY <1>1, <1>5, Endings DEF PlaceOrder, Accept, Goes, Ended, OwnerOf
<1>6. ASSUME NEW x, NEW pruned, NEW held, TurnsTo(r, x, pruned, held), x.customer = req[r].customer,
             req[r].pc \in {"prune", "write"}, UNCHANGED <<carts, books, products>>
      PROVE  Goes(r)
    <2>1. PICK y : Become(r, y) /\ y.pc = "write" /\ y.customer = req[r].customer
        BY <1>6, Turned
    <2> QED
        BY <1>1, <1>6, <2>1 DEF Goes, OwnerOf
<1>7. CASE Prune(r)
    BY <1>6, <1>7 DEF Prune
<1>10. CASE WriteRow(r)
    <2>1. req[r].pc = "write" /\ UNCHANGED <<carts, books, products>>
        BY <1>10 DEF WriteRow
    <2>2. CASE Clash(r)
        BY <1>1, <1>10, <2>1, <2>2, Endings DEF WriteRow, Fail, Goes, Ended
    <2>3. CASE ~Clash(r)
        BY <1>6, <1>10, <2>1, <2>3 DEF WriteRow
    <2> QED
        BY <2>2, <2>3
<1>11. CASE CommitBook(r)
    BY <1>1, <1>11, Endings DEF CommitBook, Accept, Goes, Ended
<1>8. CASE Victim(r)
    <2>1. req[r].pc = "write"
        <3>1. Blockers(r) # {}
            BY <1>8 DEF Victim, Deadlocked
        <3> QED
            BY <3>1 DEF Blockers
    <2> QED
        BY <1>1, <1>8, <2>1, Endings DEF Victim, Fail, Goes, Ended
<1>9. CASE FinishUpdatePrice(r)
    BY <1>1, <1>9, Endings DEF FinishUpdatePrice, Accept, Goes, Ended
<1> QED
    BY <1>2, <1>3, <1>4, <1>5, <1>7, <1>8, <1>9, <1>10, <1>11 DEF Proceed

\* Requests of all clients end like that.
LEMMA NextDone ==
    ASSUME StateInv, DoneInv, [StoreNext]_shopVars
    PROVE  DoneInv'
<1>1. ASSUME NEW r \in Slot, NEW x, Arrives(r, x), Ends(x) PROVE DoneInv'
    BY <1>1, Arrived, Endings DEF DoneInv, Ends
<1>2. ASSUME NEW r \in Slot, OpensSave(r) PROVE DoneInv'
    <2>1. \A k, op : Ends(CartState(k, op)) /\ Ends(BookState(k, op))
        BY Endings DEF CartState, BookState, Ends
    <2>2. \A k, a : Ends(CheckoutState(k, a))
        BY Endings DEF CheckoutState, Ends
    <2>3. \A p, c, price : Ends(PriceState(p, c, price))
        BY Endings DEF PriceState, Ends
    <2> QED
        BY <1>1, <1>2, <2>1, <2>2, <2>3 DEF OpensSave, Opens
<1>3. ASSUME NEW r \in Slot, NEW p, NEW skus, RegisterProduct(r, p, skus) PROVE DoneInv'
    BY <1>1, <1>3, Endings DEF RegisterProduct
<1>4. ASSUME NEW r \in Slot, Proceed(r) PROVE DoneInv'
    BY <1>4, ProceedGoes, Endings DEF Goes, Ended, DoneInv, Ends
<1>5. CASE UNCHANGED shopVars
    BY <1>5 DEF shopVars, DoneInv, Ends
<1> QED
    BY <1>2, <1>3, <1>4, <1>5, Steps
\* One element of a list is replaced.
LEMMA ExceptedSequence ==
    ASSUME NEW s, IsSequence(s), NEW p \in DOMAIN s, NEW e
    PROVE  /\ IsSequence([s EXCEPT ![p] = e])
           /\ DOMAIN [s EXCEPT ![p] = e] = DOMAIN s
           /\ [s EXCEPT ![p] = e][p] = e
           /\ \A q \in DOMAIN s \ {p} : [s EXCEPT ![p] = e][q] = s[q]
<1>1. PICK S : s \in Seq(S)
    BY DEF IsSequence
<1>2. s \in Seq(S \cup {e})
    BY <1>1
<1>3. [s EXCEPT ![p] = e] \in Seq(S \cup {e})
    BY <1>2
<1> QED
    BY <1>3 DEF IsSequence
\* What the API does for a request of the tab.
WorkOf(kind) ==
    IF kind = "order" THEN {"address", "prices", "place"}
    ELSE IF kind \in {"add", "remove"} THEN {"cart"}
    ELSE IF kind = "address" THEN {"prune", "write"} ELSE {}
AtWork(x) == x.slot # NoSlot

\* The requests of the tab, each as far as its answer has come.
IsPost(x) ==
    /\ x = [kind |-> x.kind, skus |-> x.skus, id |-> x.id, slot |-> x.slot,
            answer |-> x.answer, ordered |-> x.ordered]
    /\ x.kind \in {"order", "add", "remove", "address", "cancel"}
    /\ x.kind = "order" => x.skus = {} /\ x.answer # Succeeded.code
    /\ x.slot \in Slot \cup {NoSlot}
    /\ AtWork(x) => x.answer \in {Waiting, Taken} /\ x.ordered = NoCart.id
    /\ ~AtWork(x) /\ x.answer = Waiting => x.kind = "cancel"
    /\ x.ordered # NoCart.id => x.kind = "order"

\* The API works on what was asked for, for the shopper.
Served(x) ==
    AtWork(x) => req[x.slot].pc \in WorkOf(x.kind) /\ OwnerOf(req[x.slot]) = Shopper

\* Every request of the tab is one, and the API works on one at a time in a slot.
PostsServed ==
    /\ IsSequence(posts)
    /\ \A p \in DOMAIN posts : IsPost(posts[p]) /\ Served(posts[p])
    /\ \A p, q \in DOMAIN posts : AtWork(posts[p]) /\ posts[p].slot = posts[q].slot => p = q

\* The request is answered, but for a tab that has given up on it.
AnswerTo(a, b, y) ==
    LET placed == a.kind = "order" /\ y = Succeeded IN
    \E code \in (IF placed THEN Outcomes ELSE {y.code}) : \E cart :
        b = [kind |-> a.kind, skus |-> a.skus, id |-> a.id, slot |-> NoSlot,
             answer |-> IF a.answer = Taken THEN Taken ELSE code,
             ordered |-> IF placed THEN cart ELSE NoCart.id]

\* What becomes of a list of requests when the one of a slot is done.
AnswersIn(list, r) ==
    /\ IsSequence(posts')
    /\ DOMAIN posts' = DOMAIN list
    /\ \A p \in DOMAIN list :
        IF list[p].slot = r /\ req'[r].pc = "done" THEN AnswerTo(list[p], posts'[p], req'[r])
        ELSE posts'[p] = list[p]

LEMMA AnswerIs ==
    ASSUME NEW a, IsPost(a), NEW code, NEW cart
    PROVE  AnsweredWith(a, code, cart)
           = [kind |-> a.kind, skus |-> a.skus, id |-> a.id, slot |-> NoSlot,
              answer |-> IF a.answer = Taken THEN Taken ELSE code, ordered |-> cart]
<1> DEFINE n == IF a.answer = Taken THEN Taken ELSE code
<1>1. PICK k, s, i, l, w, o :
        a = [kind |-> k, skus |-> s, id |-> i, slot |-> l, answer |-> w, ordered |-> o]
    BY Zenon DEF IsPost
<1>2. AnsweredWith(a, code, cart) = [a EXCEPT !.slot = NoSlot, !.ordered = cart, !.answer = n]
    BY DEF AnsweredWith
<1> HIDE DEF n
<1>3. [a EXCEPT !.slot = NoSlot]
      = [kind |-> k, skus |-> s, id |-> i, slot |-> NoSlot, answer |-> w, ordered |-> o]
    BY <1>1
<1>4. [[kind |-> k, skus |-> s, id |-> i, slot |-> NoSlot, answer |-> w, ordered |-> o]
          EXCEPT !.ordered = cart]
      = [kind |-> k, skus |-> s, id |-> i, slot |-> NoSlot, answer |-> w, ordered |-> cart]
    OBVIOUS
<1>5. [[kind |-> k, skus |-> s, id |-> i, slot |-> NoSlot, answer |-> w, ordered |-> cart]
          EXCEPT !.answer = n]
      = [kind |-> k, skus |-> s, id |-> i, slot |-> NoSlot, answer |-> n, ordered |-> cart]
    OBVIOUS
<1>6. a.kind = k /\ a.skus = s /\ a.id = i
    BY <1>1
<1> QED
    BY <1>2, <1>3, <1>4, <1>5, <1>6, Zenon DEF n

LEMMA AnsweredPosts ==
    ASSUME NEW r \in Slot, NEW list, IsSequence(list),
           \A p \in DOMAIN list : IsPost(list[p]),
           \A p, q \in DOMAIN list : list[p].slot = r /\ list[q].slot = r => p = q,
           Answered(r, list)
    PROVE  AnswersIn(list, r)
<1> DEFINE mine == {p \in DOMAIN list : list[p].slot = r}
<1>1. CASE req'[r].pc # "done" \/ mine = {}
    <2>1. posts' = list
        BY <1>1 DEF Answered
    <2> QED
        BY <1>1, <2>1 DEF AnswersIn
<1>2. CASE req'[r].pc = "done" /\ mine # {}
    <2> DEFINE p == CHOOSE p \in mine : TRUE
               a == list[p]
               placed == a.kind = "order" /\ req'[r] = Succeeded
               placedCart == orders'[Len(orders')].order.cart
               cart == IF placed THEN placedCart ELSE NoCart.id
    <2>1. PICK code \in (IF placed THEN Outcomes ELSE {req'[r].code}) :
            posts' = [list EXCEPT ![p] = AnsweredWith(a, code, cart)]
        BY <1>2, Zenon DEF Answered
    <2> DEFINE b == AnsweredWith(a, code, cart)
    <2>2. p \in mine /\ \A q \in mine : q = p
        BY <1>2
    <2>3. IsPost(a)
        BY <2>2
    <2>5. posts' = [list EXCEPT ![p] = b]
        BY <2>1
    <2>4. b = [kind |-> a.kind, skus |-> a.skus, id |-> a.id, slot |-> NoSlot,
               answer |-> IF a.answer = Taken THEN Taken ELSE code, ordered |-> cart]
        BY <2>3, AnswerIs
    <2>6. AnswerTo(a, b, req'[r])
        <3> DEFINE y == req'[r]
        <3> HIDE DEF a, b, y
        <3> QED
            BY <2>1, <2>4, Zenon DEF AnswerTo, y
    <2>7. \A e : /\ IsSequence([list EXCEPT ![p] = e])
                 /\ DOMAIN [list EXCEPT ![p] = e] = DOMAIN list
                 /\ [list EXCEPT ![p] = e][p] = e
                 /\ \A q \in DOMAIN list \ {p} : [list EXCEPT ![p] = e][q] = list[q]
        BY <2>2, ExceptedSequence
    <2> HIDE DEF b, p, a
    <2>8. IsSequence(posts') /\ DOMAIN posts' = DOMAIN list /\ posts'[p] = b
          /\ \A q \in DOMAIN list \ {p} : posts'[q] = list[q]
        BY <2>5, <2>7
    <2>9. a = list[p]
        BY DEF a
    <2> QED
        BY <1>2, <2>2, <2>6, <2>8, <2>9 DEF AnswersIn
<1> QED
    BY <1>1, <1>2
\* What an answer makes of a request.
LEMMA AnsweredPost ==
    ASSUME NEW a, IsPost(a), AtWork(a), NEW b, NEW y, y.pc = "done", Ends(y), AnswerTo(a, b, y)
    PROVE  /\ IsPost(b)
           /\ ~AtWork(b)
           /\ b.kind = a.kind /\ b.skus = a.skus /\ b.id = a.id
           /\ b.answer # Waiting
           /\ b.answer = Taken <=> a.answer = Taken
           /\ b.ordered # NoCart.id => a.kind = "order" /\ y = Succeeded
           /\ a.kind # "order" /\ a.answer = Waiting /\ y = Succeeded => b.answer = Succeeded.code
<1> DEFINE placed == a.kind = "order" /\ y = Succeeded
<1>0. PICK code \in (IF placed THEN Outcomes ELSE {y.code}) : \E cart :
        b = [kind |-> a.kind, skus |-> a.skus, id |-> a.id, slot |-> NoSlot,
             answer |-> IF a.answer = Taken THEN Taken ELSE code,
             ordered |-> IF placed THEN cart ELSE NoCart.id]
    BY DEF AnswerTo
<1>1. PICK cart :
        b = [kind |-> a.kind, skus |-> a.skus, id |-> a.id, slot |-> NoSlot,
             answer |-> IF a.answer = Taken THEN Taken ELSE code,
             ordered |-> IF placed THEN cart ELSE NoCart.id]
    BY <1>0
<1>2. /\ b.kind = a.kind /\ b.skus = a.skus /\ b.id = a.id /\ b.slot = NoSlot
      /\ b.answer = IF a.answer = Taken THEN Taken ELSE code
      /\ b.ordered = IF placed THEN cart ELSE NoCart.id
    BY <1>1
<1>3. code # Waiting /\ code # Taken
    BY <1>0, CodesApart DEF Ends
<1>4. a.kind = "order" => code # Succeeded.code
    BY <1>0, CodesApart DEF Ends
<1>5. y = Succeeded /\ a.kind # "order" => code = Succeeded.code
    BY <1>0
<1>6. b.answer # Waiting /\ (b.answer = Taken <=> a.answer = Taken)
    BY <1>2, <1>3, CodesApart
<1>7. b = [kind |-> b.kind, skus |-> b.skus, id |-> b.id, slot |-> b.slot,
           answer |-> b.answer, ordered |-> b.ordered]
    BY <1>1, <1>2, Zenon
<1>8. a.kind \in {"order", "add", "remove", "address", "cancel"} /\ (a.kind = "order" => a.skus = {})
    BY DEF IsPost
<1>9. b.kind = "order" => b.answer # Succeeded.code
    BY <1>2, <1>4, CodesApart
<1> HIDE DEF placed
<1>10. b.ordered # NoCart.id => placed
    BY <1>2
<1>11. ~AtWork(b) /\ b.slot \in Slot \cup {NoSlot}
    BY <1>2 DEF AtWork
<1>12. IsPost(b)
    BY <1>2, <1>6, <1>7, <1>8, <1>9, <1>10, <1>11, Zenon DEF IsPost, placed
<1> QED
    BY <1>2, <1>5, <1>6, <1>10, <1>11, <1>12, CodesApart DEF placed

\* Slots that others have left free, or gone on with, are not this request's.
SlotsKept(r) == \A s \in Slot : s # r => req'[s] = req[s] \/ (Free(s) /\ req'[s] = Idle)

LEMMA StillServed ==
    ASSUME NEW r \in Slot, SlotsKept(r), NEW x, IsPost(x), Served(x), x.slot # r
    PROVE  Served(x)'
<1> SUFFICES ASSUME AtWork(x) PROVE Served(x)'
    BY DEF Served, AtWork
<1>1. x.slot \in Slot /\ req[x.slot].pc \in WorkOf(x.kind)
    BY DEF Served, IsPost, AtWork
<1>2. ~Free(x.slot)
    BY <1>1 DEF WorkOf, Free
<1> QED
    BY <1>1, <1>2 DEF Served, SlotsKept

\* It is kept by a step of the API for a list of requests of which the one in
\* the slot is served on, or done.
LEMMA AnswersServed ==
    ASSUME NEW r \in Slot, NEW list, IsSequence(list),
           \A p \in DOMAIN list : IsPost(list[p]),
           \A p \in DOMAIN list : list[p].slot # r => Served(list[p]),
           \A p \in DOMAIN list : list[p].slot = r /\ req'[r].pc # "done" =>
                req'[r].pc \in WorkOf(list[p].kind) /\ OwnerOf(req'[r]) = Shopper,
           \A p, q \in DOMAIN list : AtWork(list[p]) /\ list[p].slot = list[q].slot => p = q,
           Ends(req'[r]), SlotsKept(r), AnswersIn(list, r)
    PROVE  PostsServed'
<1>0. r # NoSlot
    BY TabAssumption DEF NoSlot
<1>1. IsSequence(posts') /\ DOMAIN posts' = DOMAIN list
    BY DEF AnswersIn
<1>2. ASSUME NEW p \in DOMAIN list
      PROVE  /\ IsPost(posts'[p])
             /\ Served(posts[p])'
             /\ AtWork(posts'[p]) => posts'[p].slot = list[p].slot
    <2>1. CASE list[p].slot = r /\ req'[r].pc = "done"
        <3>1. AnswerTo(list[p], posts'[p], req'[r]) /\ AtWork(list[p])
            BY <1>0, <2>1 DEF AnswersIn, AtWork
        <3> DEFINE b == posts'[p]
        <3>2. IsPost(b) /\ ~AtWork(b)
            BY <2>1, <3>1, AnsweredPost
        <3> QED
            BY <3>2 DEF Served, AtWork
    <2>2. CASE ~(list[p].slot = r /\ req'[r].pc = "done")
        <3>1. posts'[p] = list[p]
            BY <2>2 DEF AnswersIn
        <3>2. CASE list[p].slot = r
            BY <2>2, <3>1, <3>2 DEF Served
        <3>3. CASE list[p].slot # r
            <4>1. \A x : IsPost(x) /\ Served(x) /\ x.slot # r => Served(x)'
                BY StillServed
            <4>2. \A x : x = list[p] => Served(x)'
                BY <3>3, <4>1
            <4> QED
                BY <3>1, <4>2
        <3> QED
            BY <3>1, <3>2, <3>3
    <2> QED
        BY <2>1, <2>2
<1>3. ASSUME NEW p \in DOMAIN list, NEW q \in DOMAIN list, AtWork(posts'[p]),
             posts'[p].slot = posts'[q].slot
      PROVE  p = q
    <2>1. AtWork(posts'[q])
        BY <1>3 DEF AtWork
    <2>2. list[p].slot = list[q].slot /\ AtWork(list[p])
        BY <1>2, <1>3, <2>1 DEF AtWork
    <2> QED
        BY <2>2
<1> QED
    BY <1>1, <1>2, <1>3 DEF PostsServed, AtWork, IsPost

\* What the shopper presses is taken up by the API as any request is.
Pressed(r, kind, x) ==
    /\ Arrives(r, x)
    /\ UNCHANGED <<carts, books, products>>
    /\ kind \in {"order", "add", "remove", "address"}
    /\ \/ x.pc = "done" /\ Ends(x) /\ x # Succeeded
       \/ x.pc \in WorkOf(kind) /\ OwnerOf(x) = Shopper
    /\ kind = "order" =>
        /\ OnCart
        /\ x.pc # "done" => x.pc = "address" /\ x.cart = carts[Shopper] /\ x.cart # NoCart

LEMMA Presses ==
    ASSUME StateInv, NEW r \in Slot, Touch(r)
    PROVE  \E kind, skus, id, x :
                Pressed(r, kind, x) /\ Sent(r, kind, skus, id) /\ (kind = "order" => skus = {})
<1> DEFINE Goal == \E kind, skus, id, x :
                Pressed(r, kind, x) /\ Sent(r, kind, skus, id) /\ (kind = "order" => skus = {})
<1>1. CASE PressOrder(r)
    <2> DEFINE x == CheckoutState(Shopper, page.choice)
    <2>1. Opens(r, x) /\ Sent(r, "order", {}, 0) /\ OnCart
        BY <1>1, Beginnings DEF PressOrder
    <2>2. \/ x.pc = "done" /\ Ends(x) /\ x # Succeeded
          \/ /\ x.pc = "address" /\ OwnerOf(x) = Shopper /\ x.cart = carts[Shopper]
             /\ x.cart # NoCart
        BY Endings DEF CheckoutState, OwnerOf, LinesOf, NoCart, Cart
    <2> HIDE DEF x
    <2>3. Pressed(r, "order", x)
        BY <2>1, <2>2 DEF Pressed, Opens, WorkOf
    <2> QED
        BY <2>1, <2>3
<1>2. ASSUME NEW op, NEW kind \in {"add", "remove"}, NEW s, BeginCart(r, Shopper, op),
             Sent(r, kind, {s}, 0)
      PROVE  Goal
    <2> DEFINE x == CartState(Shopper, op)
    <2>1. Opens(r, x)
        BY <1>2, Beginnings
    <2>2. \/ x.pc = "done" /\ Ends(x) /\ x # Succeeded
          \/ x.pc = "cart" /\ OwnerOf(x) = Shopper
        BY Endings DEF CartState, OwnerOf
    <2> HIDE DEF x
    <2>3. Pressed(r, kind, x)
        BY <2>1, <2>2 DEF Pressed, Opens, WorkOf
    <2> QED
        BY <1>2, <2>3
<1>3. ASSUME NEW d, SubmitAddress(r, d) PROVE Goal
    <2> DEFINE op == AddressOp("add", 1, d)
               x == BookState(Shopper, op)
    <2>1. Opens(r, x) /\ Sent(r, "address", {}, lastId')
        BY <1>3, Beginnings DEF SubmitAddress
    <2>2. \/ x.pc = "done" /\ Ends(x) /\ x # Succeeded
          \/ x.pc = "prune" /\ OwnerOf(x) = Shopper
        BY Endings DEF BookState, OwnerOf
    <2> HIDE DEF x
    <2>3. Pressed(r, "address", x)
        BY <2>1, <2>2 DEF Pressed, Opens, WorkOf
    <2> QED
        BY <2>1, <2>3
<1> QED
    BY <1>1, <1>2, <1>3 DEF Touch, PressRemove, PressAdd
-----------------------------------------------------------------------------
(* The tab: what is on the screen.                                          *)

Drawn == {"opening", "cart", "order"}

IsPage(x) ==
    \/ x \in {Closed, ProductPage, OpeningCart}
    \/ \E shown : x = OrderPage(shown) /\ shown.status \in OrderStatus
    \/ \E lines, book, choice, reason : x = CartPage(lines, book, choice, reason)

IsRender(x, view) ==
    \/ x = NoRender
    \/ \E got : \E again \in BOOLEAN :
        /\ x = Rendering(got, again)
        /\ view \in Drawn
        /\ DOMAIN got \subseteq Parts(view)
        /\ "order" \in DOMAIN got => got["order"].status \in OrderStatus

PageInv ==
    /\ IsPage(page)
    /\ IsRender(render, page.view)
    /\ page = Closed => posts = <<>>
    /\ busy \cup here \subseteq DOMAIN posts
    /\ here # {} => page.view = "cart"
    /\ order = OrderOf(order.by, order.status)
    /\ order.status \in OrderStatus

\* A page is one of these.
LEMMA Pages ==
    ASSUME NEW x, IsPage(x)
    PROVE  /\ x.view \in {"closed", "product"} \cup Drawn
           /\ x.view = "closed" => x = Closed
           /\ x.view = "product" => x = ProductPage
           /\ x.view = "opening" => x = OpeningCart
           /\ x.view = "order" => x = OrderPage(x.order) /\ x.order.status \in OrderStatus
           /\ x.view = "cart" => x = CartPage(x.lines, x.book, x.choice, x.reason)
           /\ x = Closed => x.view = "closed"
           /\ x = ProductPage => x.view = "product"
BY DEF IsPage, Closed, ProductPage, OpeningCart, OrderPage, CartPage, Drawn

\* And those that the tab makes are pages.
LEMMA NewPages ==
    /\ IsPage(Closed) /\ IsPage(ProductPage) /\ IsPage(OpeningCart)
    /\ Closed.view = "closed" /\ ProductPage.view = "product" /\ OpeningCart.view = "opening"
    /\ \A shown : OrderPage(shown).view = "order" /\ OrderPage(shown).order = shown
    /\ \A shown : shown.status \in OrderStatus => IsPage(OrderPage(shown))
    /\ \A lines, book, choice, reason : IsPage(CartPage(lines, book, choice, reason))
    /\ \A lines, book, choice, reason :
        LET cart == CartPage(lines, book, choice, reason) IN
        /\ cart.view = "cart" /\ cart.lines = lines /\ cart.book = book
        /\ cart.choice = choice /\ cart.reason = reason
<1>1. IsPage(Closed) /\ IsPage(ProductPage) /\ IsPage(OpeningCart)
    BY DEF IsPage
<1>2. Closed.view = "closed" /\ ProductPage.view = "product" /\ OpeningCart.view = "opening"
    BY DEF Closed, ProductPage, OpeningCart
<1>3. \A shown : OrderPage(shown).view = "order" /\ OrderPage(shown).order = shown
    BY DEF OrderPage
<1>4. \A shown : shown.status \in OrderStatus => IsPage(OrderPage(shown))
    BY Zenon DEF IsPage
<1>5. \A lines, book, choice, reason : IsPage(CartPage(lines, book, choice, reason))
    BY Zenon DEF IsPage
<1>6. \A lines, book, choice, reason :
        LET cart == CartPage(lines, book, choice, reason) IN
        /\ cart.view = "cart" /\ cart.lines = lines /\ cart.book = book
        /\ cart.choice = choice /\ cart.reason = reason
    BY DEF CartPage
<1> QED
    BY <1>1, <1>2, <1>3, <1>4, <1>5, <1>6

\* The state of CartView changes field by field.
LEMMA CartFields ==
    ASSUME IsPage(page), page.view = "cart", NEW x
    PROVE  /\ [page EXCEPT !.reason = x] = CartPage(page.lines, page.book, page.choice, x)
           /\ [page EXCEPT !.choice = x] = CartPage(page.lines, page.book, x, page.reason)
<1>1. PICK l, b, c, w : page = [view |-> "cart", lines |-> l, book |-> b, choice |-> c, reason |-> w]
    BY Pages DEF CartPage
<1>2. page.lines = l /\ page.book = b /\ page.choice = c /\ page.reason = w
    BY <1>1
<1>3. [page EXCEPT !.reason = x]
      = [view |-> "cart", lines |-> l, book |-> b, choice |-> c, reason |-> x]
    BY <1>1
<1>4. [page EXCEPT !.choice = x]
      = [view |-> "cart", lines |-> l, book |-> b, choice |-> x, reason |-> w]
    BY <1>1
<1> QED
    BY <1>2, <1>3, <1>4, Zenon DEF CartPage

\* A render has fetched some parts of its page, and may be followed by one more.
LEMMA Renders ==
    ASSUME NEW x, NEW view, IsRender(x, view)
    PROVE  \/ x = NoRender
           \/ /\ x # NoRender
              /\ x = Rendering(x.got, x.again)
              /\ x.again \in BOOLEAN
              /\ view \in Drawn
              /\ DOMAIN x.got \subseteq Parts(view)
              /\ "order" \in DOMAIN x.got => x.got["order"].status \in OrderStatus
<1>1. CASE x # NoRender
    <2>1. PICK got : \E again \in BOOLEAN :
            /\ x = Rendering(got, again)
            /\ view \in Drawn
            /\ DOMAIN got \subseteq Parts(view)
            /\ "order" \in DOMAIN got => got["order"].status \in OrderStatus
        BY <1>1 DEF IsRender
    <2>2. PICK again \in BOOLEAN : x = Rendering(got, again)
        BY <2>1
    <2>3. x.got = got /\ x.again = again
        BY <2>2 DEF Rendering
    <2> QED
        BY <1>1, <2>1, <2>2, <2>3
<1> QED
    BY <1>1

LEMMA NewRenders ==
    /\ \A view : IsRender(NoRender, view)
    /\ DOMAIN NothingYet = {}
    /\ \A got, again : /\ Rendering(got, again) # NoRender
                       /\ Rendering(got, again).got = got /\ Rendering(got, again).again = again
    /\ \A view \in Drawn : \A got : \A again \in BOOLEAN :
        /\ DOMAIN got \subseteq Parts(view)
        /\ "order" \in DOMAIN got => got["order"].status \in OrderStatus
        => IsRender(Rendering(got, again), view)
<1>1. \A got, again : Rendering(got, again) # NoRender
    BY DEF Rendering, NoRender
<1>2. \A got, again : Rendering(got, again).got = got /\ Rendering(got, again).again = again
    BY DEF Rendering
<1>3. \A view : IsRender(NoRender, view)
    BY DEF IsRender
<1> QED
    BY <1>1, <1>2, <1>3 DEF IsRender, NothingYet

\* router.refresh() leaves the page with a render that begins anew, now or
\* after the one under way.
LEMMA Refreshed ==
    ASSUME IsRender(render, page.view), Refresh
    PROVE  /\ IsRender(render', page.view)
           /\ page.view \notin Drawn => render' = render
           /\ page.view \in Drawn =>
                /\ render' # NoRender
                /\ \/ DOMAIN render'.got = {}
                   \/ render'.again /\ render # NoRender /\ render'.got = render.got
<1>1. CASE page.view \notin Drawn
    BY <1>1 DEF Refresh, Drawn
<1>2. CASE page.view \in Drawn /\ render = NoRender
    <2>1. render' = Rendering(NothingYet, FALSE)
        BY <1>2 DEF Refresh, Drawn
    <2> QED
        BY <1>2, <2>1, NewRenders
<1>3. CASE page.view \in Drawn /\ render # NoRender
    <2>1. render' = Rendering(render.got, TRUE)
        BY <1>3 DEF Refresh, Drawn
    <2> QED
        BY <1>3, <2>1, NewRenders, Renders
<1> QED
    BY <1>1, <1>2, <1>3
-----------------------------------------------------------------------------
(* The tab: its requests, one step at a time.                               *)

\* The answer of one request is set, and nothing else about it.
Replies(p, answer) ==
    /\ IsSequence(posts')
    /\ DOMAIN posts' = DOMAIN posts
    /\ \A q \in DOMAIN posts \ {p} : posts'[q] = posts[q]
    /\ posts'[p] = [kind |-> posts[p].kind, skus |-> posts[p].skus, id |-> posts[p].id,
                    slot |-> posts[p].slot, answer |-> answer, ordered |-> posts[p].ordered]

LEMMA Replied ==
    ASSUME PostsServed, NEW p \in DOMAIN posts, NEW answer,
           posts' = [posts EXCEPT ![p].answer = answer]
    PROVE  Replies(p, answer)
<1> DEFINE a == posts[p]
           b == [a EXCEPT !.answer = answer]
<1>1. IsPost(a) /\ IsSequence(posts)
    BY DEF PostsServed
<1>2. posts' = [posts EXCEPT ![p] = b]
    OBVIOUS
<1>3. \A e : /\ IsSequence([posts EXCEPT ![p] = e])
             /\ DOMAIN [posts EXCEPT ![p] = e] = DOMAIN posts
             /\ [posts EXCEPT ![p] = e][p] = e
             /\ \A q \in DOMAIN posts \ {p} : [posts EXCEPT ![p] = e][q] = posts[q]
    BY <1>1, ExceptedSequence
<1> HIDE DEF a
<1>4. PICK k, s, i, l, w, o :
        a = [kind |-> k, skus |-> s, id |-> i, slot |-> l, answer |-> w, ordered |-> o]
    BY <1>1, Zenon DEF IsPost
<1>5. b = [kind |-> k, skus |-> s, id |-> i, slot |-> l, answer |-> answer, ordered |-> o]
    BY <1>4
<1>6. a.kind = k /\ a.skus = s /\ a.id = i /\ a.slot = l /\ a.ordered = o
    BY <1>4
<1> HIDE DEF b
<1>7. /\ IsSequence(posts') /\ DOMAIN posts' = DOMAIN posts /\ posts'[p] = b
      /\ \A q \in DOMAIN posts \ {p} : posts'[q] = posts[q]
    BY <1>2, <1>3
<1>8. posts'[p] = [kind |-> a.kind, skus |-> a.skus, id |-> a.id, slot |-> a.slot,
                   answer |-> answer, ordered |-> a.ordered]
    BY <1>5, <1>6, <1>7
<1> QED
    BY <1>7, <1>8 DEF Replies, a

\* A request whose answer the tab has taken, or given up on, is one all the same,
\* and so is a cancellation that is answered.
LEMMA RepliesServed ==
    ASSUME PostsServed, NEW p \in DOMAIN posts, NEW answer, Replies(p, answer), req' = req,
           \/ answer = Taken
           \/ posts[p].kind = "cancel"
    PROVE  PostsServed'
<1> DEFINE a == posts[p]
           b == posts'[p]
<1>1. /\ b = [kind |-> a.kind, skus |-> a.skus, id |-> a.id, slot |-> a.slot,
              answer |-> answer, ordered |-> a.ordered]
      /\ IsSequence(posts') /\ DOMAIN posts' = DOMAIN posts
      /\ \A q \in DOMAIN posts \ {p} : posts'[q] = posts[q]
    BY DEF Replies
<1>2. IsPost(a) /\ Served(a)
    BY DEF PostsServed
<1>3. /\ b.kind = a.kind /\ b.skus = a.skus /\ b.id = a.id /\ b.slot = a.slot
      /\ b.answer = answer /\ b.ordered = a.ordered
    BY <1>1
<1>4. a.kind = "cancel" => ~AtWork(a)
    BY <1>2 DEF Served, WorkOf
<1>5. b = [kind |-> b.kind, skus |-> b.skus, id |-> b.id, slot |-> b.slot,
           answer |-> b.answer, ordered |-> b.ordered]
    BY <1>1, <1>3, Zenon
<1> HIDE DEF a, b
<1>6. IsPost(b)
    <2>1. answer = Taken => answer # Succeeded.code /\ answer # Waiting
        BY CodesApart
    <2>2. a.kind = "cancel" \/ answer = Taken
        BY DEF a
    <2> QED
        BY <1>2, <1>3, <1>4, <1>5, <2>1, <2>2 DEF IsPost, AtWork
<1>7. Served(posts[p])'
    <2>1. \A x : x.kind = a.kind /\ x.slot = a.slot => Served(x)'
        BY <1>2 DEF Served, AtWork
    <2>2. \A x : x = posts'[p] => Served(x)'
        BY <1>3, <2>1 DEF b
    <2> QED
        BY <2>2
<1>8. \A q \in DOMAIN posts : posts'[q].slot = posts[q].slot
    BY <1>1, <1>3 DEF a, b
<1>9. \A q \in DOMAIN posts \ {p} : IsPost(posts'[q]) /\ Served(posts[q])'
    <2>1. \A x : Served(x) => Served(x)'
        BY DEF Served
    <2> QED
        BY <1>1, <2>1 DEF PostsServed
<1> QED
    BY <1>1, <1>6, <1>7, <1>8, <1>9 DEF PostsServed, AtWork, b, IsPost

\* The API goes on with a request of the tab.
LEMMA ServedOn ==
    ASSUME PostsServed, NEW r \in Slot, Goes(r), Ends(req'[r]), Answered(r, posts)
    PROVE  AnswersIn(posts, r) /\ PostsServed'
<1>0. r # NoSlot
    BY TabAssumption DEF NoSlot
<1>1. AnswersIn(posts, r)
    BY <1>0, AnsweredPosts DEF PostsServed, AtWork
<1>2. SlotsKept(r)
    BY DEF Goes, SlotsKept
<1>3. ASSUME NEW p \in DOMAIN posts, posts[p].slot = r, req'[r].pc # "done"
      PROVE  req'[r].pc \in WorkOf(posts[p].kind) /\ OwnerOf(req'[r]) = Shopper
    <2>1. req[r].pc \in WorkOf(posts[p].kind) /\ OwnerOf(req[r]) = Shopper
        BY <1>0, <1>3 DEF PostsServed, Served, AtWork
    <2>2. \/ req[r].pc = "address" /\ req'[r].pc = "prices"
          \/ req[r].pc = "prices" /\ req'[r].pc = "place"
          \/ req[r].pc \in {"prune", "write"} /\ req'[r].pc = "write"
        BY <1>3, Endings DEF Goes, Ended
    <2>3. OwnerOf(req'[r]) = OwnerOf(req[r])
        BY <1>3, Endings DEF Goes, Ended
    <2> QED
        BY <2>1, <2>2, <2>3 DEF WorkOf
<1>4. PostsServed'
    BY <1>1, <1>2, <1>3, AnswersServed DEF PostsServed
<1> QED
    BY <1>1, <1>4

\* The tab has sent one request more, which may have been refused at once.
NewPost(r, kind, skus, x) ==
    LET b == posts'[Len(posts) + 1] IN
    /\ IsSequence(posts')
    /\ DOMAIN posts' = DOMAIN posts \cup {Len(posts) + 1}
    /\ Len(posts) + 1 \notin DOMAIN posts
    /\ \A p \in DOMAIN posts : posts'[p] = posts[p]
    /\ b.kind = kind /\ b.skus = skus /\ b.ordered = NoCart.id
    /\ b.answer # Taken
    /\ AtWork(b) <=> x.pc # "done"
    /\ AtWork(b) => b.slot = r /\ b.answer = Waiting

LEMMA PressedPosts ==
    ASSUME StateInv, PostsServed, NEW r \in Slot, NEW kind, NEW skus, NEW id, NEW x,
           Pressed(r, kind, x), Sent(r, kind, skus, id), kind = "order" => skus = {}
    PROVE  NewPost(r, kind, skus, x) /\ PostsServed' /\ SlotsKept(r) /\ req'[r] = x /\ Free(r)
<1> DEFINE n == Len(posts) + 1
           new == Post(r, kind, skus, id)
           list == Append(posts, new)
<1>0. r # NoSlot
    BY TabAssumption DEF NoSlot
<1>1. /\ Free(r) /\ req'[r] = x /\ SlotsKept(r)
    BY Arrived DEF Pressed, Arrives, SlotsKept, StateInv
<1>2. new = [kind |-> kind, skus |-> skus, id |-> id, slot |-> r, answer |-> Waiting,
             ordered |-> NoCart.id]
    BY DEF Post
<1>3. /\ new.kind = kind /\ new.skus = skus /\ new.id = id /\ new.slot = r
      /\ new.answer = Waiting /\ new.ordered = NoCart.id
    BY <1>2
<1>4. new = [kind |-> new.kind, skus |-> new.skus, id |-> new.id, slot |-> new.slot,
             answer |-> new.answer, ordered |-> new.ordered]
    BY <1>2, <1>3, Zenon
<1> HIDE DEF new
<1>5. IsPost(new) /\ AtWork(new)
    BY <1>0, <1>3, <1>4, CodesApart DEF IsPost, AtWork, Pressed
<1>6. /\ IsSequence(list) /\ Len(posts) \in Nat /\ DOMAIN posts = 1..Len(posts)
      /\ DOMAIN list = 1..Len(posts) + 1 /\ list[n] = new
      /\ \A p \in 1..Len(posts) : list[p] = posts[p]
    BY OneMore DEF PostsServed
<1> HIDE DEF list
<1>7. DOMAIN list = DOMAIN posts \cup {n} /\ n \notin DOMAIN posts
    BY <1>6
<1>8. \A p \in DOMAIN posts : list[p] = posts[p] /\ posts[p].slot # r
    <2>1. ASSUME NEW p \in DOMAIN posts, posts[p].slot = r PROVE FALSE
        BY <1>0, <1>1, <2>1 DEF PostsServed, Served, AtWork, Free, WorkOf
    <2> QED
        BY <1>6, <2>1
<1>9. \A p \in DOMAIN list : list[p].slot = r => p = n
    BY <1>7, <1>8
<1>10. \A p \in DOMAIN list : IsPost(list[p])
    BY <1>5, <1>6, <1>7, <1>8 DEF PostsServed
<1>11. AnswersIn(list, r)
    <2>1. Answered(r, list)
        BY DEF Sent, list, new
    <2> QED
        BY <1>6, <1>9, <1>10, <2>1, AnsweredPosts
<1>12. PostsServed'
    <2>1. \A p \in DOMAIN list : list[p].slot # r => Served(list[p])
        BY <1>3, <1>6, <1>7, <1>8 DEF PostsServed
    <2>2. \A p \in DOMAIN list : list[p].slot = r /\ req'[r].pc # "done" =>
                req'[r].pc \in WorkOf(list[p].kind) /\ OwnerOf(req'[r]) = Shopper
        BY <1>1, <1>3, <1>6, <1>9 DEF Pressed
    <2>3. \A p, q \in DOMAIN list : AtWork(list[p]) /\ list[p].slot = list[q].slot => p = q
        BY <1>3, <1>6, <1>7, <1>8 DEF PostsServed
    <2>4. Ends(req'[r])
        BY <1>1 DEF Pressed, Ends, WorkOf
    <2> QED
        BY <1>1, <1>6, <1>10, <1>11, <2>1, <2>2, <2>3, <2>4, AnswersServed
<1>13. NewPost(r, kind, skus, x)
    <2>1. \A p \in DOMAIN posts : posts'[p] = posts[p]
        BY <1>7, <1>8, <1>11 DEF AnswersIn
    <2>2. IsSequence(posts') /\ DOMAIN posts' = DOMAIN posts \cup {n}
        BY <1>7, <1>11 DEF AnswersIn
    <2>3. CASE x.pc = "done"
        <3>1. AnswerTo(new, posts'[n], x)
            BY <1>1, <1>3, <1>6, <1>7, <1>11, <2>3 DEF AnswersIn
        <3>2. Ends(x) /\ x # Succeeded
            BY <2>3 DEF Pressed, WorkOf
        <3> DEFINE b == posts'[n]
        <3>3. /\ ~AtWork(b) /\ b.kind = kind /\ b.skus = skus /\ b.answer # Taken
              /\ b.ordered = NoCart.id
            BY <1>3, <1>5, <2>3, <3>1, <3>2, AnsweredPost, CodesApart
        <3> QED
            BY <1>7, <2>1, <2>2, <2>3, <3>3 DEF NewPost
    <2>4. CASE x.pc # "done"
        <3>1. posts'[n] = new
            BY <1>1, <1>6, <1>7, <1>11, <2>4 DEF AnswersIn
        <3> QED
            BY <1>3, <1>5, <1>7, <2>1, <2>2, <2>4, <3>1, CodesApart DEF NewPost
    <2> QED
        BY <2>3, <2>4
<1> QED
    BY <1>1, <1>12, <1>13
-----------------------------------------------------------------------------
(* The tab: its steps.                                                      *)

\* Where there is a tab, the API works for nobody else.
OwnInv ==
    page # Closed =>
        \A r \in Slot : Free(r) \/ \E p \in DOMAIN posts : posts[p].slot = r

TabInv == DoneInv /\ PostsServed /\ OwnInv /\ PageInv

\* What the shopper, the router, and answers that arrive do to the tab alone.
TabMoves ==
    \/ PressCancel \/ Leave \/ Visit \/ (\E a : Pick(a)) \/ RefundEnds \/ FetchFails
    \/ \E p \in DOMAIN posts : Break(p) \/ Settle(p) \/ ServeCancel(p)
    \/ Show \/ \E part : Fetch(part)

LEMMA TabSteps ==
    ASSUME [ShopNext]_allVars
    PROVE  \/ UNCHANGED tabVars /\ (page = Closed \/ UNCHANGED shopVars)
           \/ \E r \in Slot : Touch(r)
           \/ \E r \in Slot : Proceed(r) /\ Answered(r, posts) /\ UNCHANGED screenVars
           \/ UNCHANGED shopVars /\ TabMoves
<1>1. ASSUME NEW r \in Slot, Browse(r) \/ Ask(r) \/ Work(r)
      PROVE  UNCHANGED tabVars /\ (page = Closed \/ UNCHANGED shopVars)
    BY <1>1 DEF Browse, Ask, Work
<1>2. ASSUME NEW r \in Slot, Serve(r)
      PROVE  Proceed(r) /\ Answered(r, posts) /\ UNCHANGED screenVars
    BY <1>2 DEF Serve
<1>3. Turning => UNCHANGED shopVars /\ TabMoves
    BY DEF Turning, Turn, TabHazard, TabMoves
<1>4. Hearing => UNCHANGED shopVars /\ TabMoves
    BY DEF Hearing, Hear, TabMoves
<1>5. Drawing => UNCHANGED shopVars /\ TabMoves
    BY DEF Drawing, Draw, TabMoves
<1>6. CASE UNCHANGED allVars
    BY <1>6 DEF allVars
<1> QED
    BY <1>1, <1>2, <1>3, <1>4, <1>5, <1>6 DEF ShopNext, Shopping

\* The answer of an order that was placed sends the tab to the order.
SentToOrder(p, code) ==
    /\ order' = OrderOf(p, code)
    /\ page' = OrderPage(order')
    /\ busy' = {}
    /\ here' = {}
    /\ render' = NoRender

\* All others leave the shopper where they are.
StaysOn(p, code) ==
    /\ page'.view = page.view
    /\ IsPage(page')
    /\ page.view = "cart" =>
        /\ page'.lines = page.lines /\ page'.book = page.book
        /\ page'.reason = IF posts[p].kind = "order" /\ p \in here THEN code ELSE page.reason
    /\ page.view = "order" => page'.order = page.order
    /\ busy' = busy \ {p}
    /\ UNCHANGED <<order, here>>

LEMMA Concluded ==
    ASSUME PostsServed, PageInv, NEW p \in DOMAIN posts, NEW accepted, NEW code,
           Conclude(p, accepted, code)
    PROVE  /\ Replies(p, Taken)
           /\ \/ posts[p].kind = "order" /\ accepted /\ SentToOrder(p, code)
              \/ /\ ~(posts[p].kind = "order" /\ accepted)
                 /\ StaysOn(p, code)
                 /\ IF Reloads(posts[p].kind, accepted) THEN Refresh ELSE render' = render
<1>1. Replies(p, Taken)
    BY Replied DEF Conclude
<1>2. CASE posts[p].kind = "order" /\ accepted
    BY <1>1, <1>2 DEF Conclude, GoToOrder, SentToOrder
<1>3. CASE ~(posts[p].kind = "order" /\ accepted)
    <2>1. /\ page' = IF posts[p].kind = "order" THEN WithReason(p, code)
                     ELSE IF posts[p].kind = "address" /\ accepted THEN WithChoice(p) ELSE page
          /\ busy' = busy \ {p}
          /\ IF Reloads(posts[p].kind, accepted) THEN Refresh ELSE render' = render
          /\ UNCHANGED <<order, here>>
        BY <1>3 DEF Conclude, Released
    <2>2. IsPage(page) /\ (p \in here => page.view = "cart")
        BY DEF PageInv
    <2>3. CASE posts[p].kind = "order" /\ p \in here
        <3>1. page' = [page EXCEPT !.reason = code]
            BY <2>1, <2>3 DEF WithReason
        <3>2. page' = CartPage(page.lines, page.book, page.choice, code)
            BY <2>2, <2>3, <3>1, CartFields
        <3>3. StaysOn(p, code)
            BY <2>1, <2>2, <2>3, <3>2, NewPages DEF StaysOn
        <3> QED
            BY <1>1, <1>3, <2>1, <3>3
    <2>4. CASE posts[p].kind # "order" /\ p \in here
        <3>1. page' = page \/ page' = [page EXCEPT !.choice = posts[p].id]
            BY <2>1, <2>4 DEF WithChoice
        <3>2. [page EXCEPT !.choice = posts[p].id]
              = CartPage(page.lines, page.book, posts[p].id, page.reason)
            BY <2>2, <2>4, CartFields
        <3>3. StaysOn(p, code)
            BY <2>1, <2>2, <2>4, <3>1, <3>2, NewPages DEF StaysOn
        <3> QED
            BY <1>1, <1>3, <2>1, <3>3
    <2>5. CASE p \notin here
        <3>1. page' = page
            BY <2>1, <2>5 DEF WithReason, WithChoice
        <3>2. StaysOn(p, code)
            BY <2>1, <2>2, <2>5, <3>1 DEF StaysOn
        <3> QED
            BY <1>1, <1>3, <2>1, <3>2
    <2> QED
        BY <2>3, <2>4, <2>5
<1> QED
    BY <1>2, <1>3

\* An answer that is taken.
Accepted(p) == posts[p].answer \in {Succeeded.code, "PAID", "PAYMENT_FAILED"}

LEMMA Heard ==
    ASSUME PostsServed, NEW p \in DOMAIN posts, Settle(p)
    PROVE  /\ Conclude(p, Accepted(p), posts[p].answer)
           /\ posts[p].answer \notin {Waiting, Taken}
           /\ ~AtWork(posts[p])
           /\ posts[p].kind = "order" /\ Accepted(p) => posts[p].answer \in {"PAID", "PAYMENT_FAILED"}
           /\ excuse' = excuse
<1>1. posts[p].answer \notin {Waiting, Taken} /\ IsPost(posts[p]) /\ excuse' = excuse
    BY DEF Settle, PostsServed
<1>2. Conclude(p, Accepted(p), posts[p].answer)
    BY DEF Settle, Accepted
<1>3. ~AtWork(posts[p]) /\ (posts[p].kind = "order" => posts[p].answer # Succeeded.code)
    BY <1>1 DEF IsPost
<1> QED
    BY <1>1, <1>2, <1>3 DEF Accepted

\* An answer that the tab will never see.
LEMMA Lost ==
    ASSUME NEW p, Break(p)
    PROVE  /\ Conclude(p, FALSE, Internal.code)
           /\ posts[p].answer # Taken
           /\ excuse \subseteq excuse'
           /\ "lost" \notin excuse' => ~AtWork(posts[p]) /\ posts[p].kind = "order"
BY DEF Break, AtWork
\* The requests of the tab, whatever the shop does.
LEMMA NextPosts ==
    ASSUME StateInv, TabInv, DoneInv', [ShopNext]_allVars
    PROVE  PostsServed'
<1>0. PostsServed /\ PageInv
    BY DEF TabInv
<1>1. ASSUME posts' = posts, req' = req PROVE PostsServed'
    BY <1>0, <1>1 DEF PostsServed, Served
<1>2. CASE UNCHANGED tabVars /\ page = Closed
    BY <1>0, <1>2 DEF tabVars, PageInv, PostsServed, IsSequence
<1>3. ASSUME NEW r \in Slot, Touch(r) PROVE PostsServed'
    BY <1>0, <1>3, Presses, PressedPosts
<1>4. ASSUME NEW r \in Slot, Proceed(r), Answered(r, posts) PROVE PostsServed'
    BY <1>0, <1>4, ProceedGoes, ServedOn DEF DoneInv
<1>5. ASSUME UNCHANGED shopVars, PressCancel PROVE PostsServed'
    <2> DEFINE new == Post(NoSlot, "cancel", {}, page.order.by)
               n == Len(posts) + 1
    <2>1. posts' = Append(posts, new)
        BY <1>5 DEF PressCancel
    <2>2. new = [kind |-> "cancel", skus |-> {}, id |-> new.id, slot |-> NoSlot,
                 answer |-> Waiting, ordered |-> NoCart.id]
        BY DEF Post
    <2> HIDE DEF new
    <2>3. /\ new.kind = "cancel" /\ new.skus = {} /\ new.slot = NoSlot
          /\ new.answer = Waiting /\ new.ordered = NoCart.id
        BY <2>2
    <2>4. new = [kind |-> new.kind, skus |-> new.skus, id |-> new.id, slot |-> new.slot,
                 answer |-> new.answer, ordered |-> new.ordered]
        BY <2>2, <2>3
    <2>5. IsPost(new) /\ ~AtWork(new)
        BY <2>3, <2>4 DEF IsPost, AtWork
    <2>6. \A x : Served(x) => Served(x)'
        BY <1>5 DEF Served, shopVars
    <2>7. /\ IsSequence(posts') /\ Len(posts) \in Nat /\ DOMAIN posts = 1..Len(posts)
          /\ DOMAIN posts' = 1..n /\ posts'[n] = new
          /\ \A p \in 1..Len(posts) : posts'[p] = posts[p]
        BY <1>0, <2>1, OneMore DEF PostsServed
    <2>8. DOMAIN posts' = DOMAIN posts \cup {n}
        BY <2>7
    <2>9. ASSUME NEW p \in DOMAIN posts' PROVE IsPost(posts'[p]) /\ Served(posts[p])'
        <3>1. CASE p \in DOMAIN posts
            <4>1. \A x : x = posts[p] => Served(x)'
                BY <1>0, <2>6, <3>1 DEF PostsServed
            <4> QED
                BY <1>0, <2>7, <3>1, <4>1 DEF PostsServed
        <3>2. CASE p = n
            <4>1. \A x : x = new => Served(x)'
                BY <2>5 DEF Served, AtWork
            <4>2. posts'[p] = new
                BY <2>7, <3>2
            <4> QED
                BY <2>5, <4>1, <4>2
        <3> QED
            BY <2>8, <3>1, <3>2
    <2>10. ASSUME NEW p \in DOMAIN posts', NEW q \in DOMAIN posts',
                  AtWork(posts'[p]), posts'[p].slot = posts'[q].slot
           PROVE  p = q
        <3>1. AtWork(posts'[q])
            BY <2>10 DEF AtWork
        <3>2. p \in DOMAIN posts /\ q \in DOMAIN posts
            BY <2>5, <2>7, <2>8, <2>10, <3>1
        <3> QED
            BY <1>0, <2>7, <2>10, <3>2 DEF PostsServed
    <2> QED
        BY <2>7, <2>9, <2>10 DEF PostsServed, AtWork, IsPost
<1>6. ASSUME UNCHANGED shopVars, NEW p \in DOMAIN posts, Break(p) \/ Settle(p) PROVE PostsServed'
    <2>1. \E accepted, code : Conclude(p, accepted, code)
        BY <1>6 DEF Break, Settle
    <2>2. Replies(p, Taken) /\ req' = req
        BY <1>0, <1>6, <2>1, Concluded DEF shopVars
    <2> QED
        BY <1>0, <2>2, RepliesServed
<1>7. ASSUME UNCHANGED shopVars, NEW p \in DOMAIN posts, ServeCancel(p) PROVE PostsServed'
    <2>1. posts[p].kind = "cancel" /\ \E answer : posts' = [posts EXCEPT ![p].answer = answer]
        BY <1>7 DEF ServeCancel
    <2>2. \E answer : Replies(p, answer)
        BY <1>0, <2>1, Replied
    <2> QED
        BY <1>0, <1>7, <2>1, <2>2, RepliesServed DEF shopVars
<1>8. ASSUME UNCHANGED shopVars,
             \/ Leave \/ Visit \/ (\E a : Pick(a)) \/ RefundEnds \/ FetchFails
             \/ Show \/ \E part : Fetch(part)
      PROVE  PostsServed'
    BY <1>1, <1>8 DEF Leave, Visit, Pick, RefundEnds, FetchFails, Show, Fetch, shopVars
<1>9. CASE UNCHANGED tabVars /\ UNCHANGED shopVars
    BY <1>1, <1>9 DEF tabVars, shopVars
<1> QED
    BY <1>2, <1>3, <1>4, <1>5, <1>6, <1>7, <1>8, <1>9, TabSteps DEF TabMoves

-----------------------------------------------------------------------------
(* The tab: its pages, one step at a time.                                  *)

\* A render that is shown gives the page all that was fetched.
LEMMA Shows ==
    ASSUME PageInv, Show
    PROVE  /\ render # NoRender /\ page.view \in Drawn
           /\ DOMAIN render.got = Parts(page.view)
           /\ IsPage(page')
           /\ page.view = "order" => page' = OrderPage(render.got["order"]) /\ busy' = busy
           /\ page.view # "order" =>
                /\ page'.view = "cart"
                /\ page'.lines = render.got["cart"] /\ page'.book = render.got["book"]
                /\ busy' = {p \in busy : Mounted(p, render.got["cart"])}
           /\ page.view = "cart" => page'.reason = page.reason
           /\ render' = IF render.again THEN Rendering(NothingYet, FALSE) ELSE NoRender
           /\ UNCHANGED <<posts, here, order, breaks, excuse>>
<1> DEFINE got == render.got
<1>1. /\ render # NoRender /\ page.view \in Drawn
      /\ DOMAIN got = Parts(page.view)
      /\ "order" \in DOMAIN got => got["order"].status \in OrderStatus
    BY Renders DEF PageInv, Show
<1>2. CASE page.view = "order"
    <2>1. page' = OrderPage(got["order"]) /\ busy' = busy
        BY <1>2 DEF Show
    <2>2. IsPage(page')
        BY <1>1, <1>2, <2>1, NewPages DEF Parts
    <2> QED
        BY <1>1, <1>2, <2>1, <2>2 DEF Show, AfterThis
<1>3. CASE page.view # "order"
    <2>1. PICK choice, reason :
            /\ page' = CartPage(got["cart"], got["book"], choice, reason)
            /\ page.view = "cart" => reason = page.reason
        BY <1>3 DEF Show
    <2>2. busy' = {p \in busy : Mounted(p, got["cart"])}
        BY <1>3 DEF Show
    <2>3. /\ IsPage(page') /\ page'.view = "cart" /\ page'.lines = got["cart"]
          /\ page'.book = got["book"] /\ page'.reason = reason
        BY <2>1, NewPages
    <2> QED
        BY <1>1, <1>3, <2>1, <2>2, <2>3 DEF Show, AfterThis
<1> QED
    BY <1>2, <1>3

\* A page that cannot be fetched goes, with all that was mounted.
LEMMA Failures ==
    ASSUME PageInv, FetchFails
    PROVE  /\ page.view \in Drawn /\ page' = OpeningCart /\ page'.view = "opening"
           /\ IsPage(page') /\ page # Closed /\ page' # Closed
           /\ busy' = {} /\ here' = {}
           /\ render' = NoRender \/ render' = Rendering(NothingYet, FALSE)
           /\ IsRender(render', "opening")
           /\ UNCHANGED <<posts, order, excuse>>
<1>1. /\ page.view \in {"opening", "cart"} /\ page' = OpeningCart /\ busy' = {} /\ here' = {}
      /\ render' = NoRender \/ render' = Rendering(NothingYet, FALSE)
      /\ UNCHANGED <<posts, order, excuse>>
    BY DEF FetchFails, AfterThis
<1>2. IsRender(render', "opening")
    BY <1>1, NewRenders DEF Drawn
<1>3. page # Closed
    BY <1>1, NewPages
<1> QED
    BY <1>1, <1>2, <1>3, NewPages DEF Drawn

\* A render fetches one part more.
LEMMA Fetches ==
    ASSUME PageInv, NEW part, Fetch(part)
    PROVE  /\ render # NoRender /\ page.view \in Drawn
           /\ part \in Parts(page.view) \ DOMAIN render.got
           /\ render' # NoRender /\ render'.again = render.again
           /\ DOMAIN render'.got = DOMAIN render.got \cup {part}
           /\ render'.got[part] = Current(part)
           /\ \A x \in DOMAIN render.got : render'.got[x] = render.got[x]
           /\ IsRender(render', page.view)
           /\ UNCHANGED <<page, posts, busy, here, order, breaks, excuse>>
<1> DEFINE got == [x \in DOMAIN render.got \cup {part} |->
                      IF x = part THEN Current(part) ELSE render.got[x]]
<1>1. /\ render # NoRender /\ page.view \in Drawn
      /\ part \in Parts(page.view) \ DOMAIN render.got
      /\ render.again \in BOOLEAN
      /\ DOMAIN render.got \subseteq Parts(page.view)
      /\ "order" \in DOMAIN render.got => render.got["order"].status \in OrderStatus
    BY Renders DEF PageInv, Fetch
<1>2. render' = Rendering(got, render.again)
    BY DEF Fetch
<1>3. Current("order") = order
    BY DEF Current
<1>4. /\ DOMAIN got = DOMAIN render.got \cup {part} /\ got[part] = Current(part)
      /\ \A x \in DOMAIN render.got : got[x] = render.got[x]
      /\ "order" \in DOMAIN got => got["order"].status \in OrderStatus
    BY <1>1, <1>3 DEF PageInv
<1> HIDE DEF got
<1>5. render' # NoRender /\ render'.again = render.again /\ render'.got = got
    BY <1>2, NewRenders
<1>6. IsRender(render', page.view)
    BY <1>1, <1>2, <1>4, NewRenders
<1> QED
    BY <1>1, <1>4, <1>5, <1>6 DEF Fetch

\* Pages and renders are what they should be, and no tab opens or closes.
LEMMA NextPage ==
    ASSUME StateInv, TabInv, DoneInv', [ShopNext]_allVars
    PROVE  PageInv' /\ (page' = Closed <=> page = Closed)
<1> DEFINE Goal == PageInv' /\ (page' = Closed <=> page = Closed)
<1>0. PostsServed /\ PageInv /\ IsPage(page) /\ (page = Closed <=> page.view = "closed")
    BY Pages DEF TabInv, PageInv
<1>1. CASE UNCHANGED tabVars
    BY <1>0, <1>1 DEF tabVars, screenVars, PageInv
<1>2. ASSUME NEW r \in Slot, Touch(r) PROVE Goal
    <2>1. page.view \in {"cart", "product"}
        BY <1>2 DEF Touch, PressOrder, PressRemove, PressAdd, SubmitAddress, OnCart
    <2>2. PICK kind, skus, id, x :
            Pressed(r, kind, x) /\ Sent(r, kind, skus, id) /\ (kind = "order" => skus = {})
        BY <1>2, Presses
    <2>3. DOMAIN posts' = DOMAIN posts \cup {Len(posts) + 1}
        BY <1>0, <2>2, PressedPosts DEF NewPost
    <2> QED
        BY <1>0, <2>1, <2>2, <2>3 DEF Sent, PageInv
<1>3. ASSUME NEW r \in Slot, Proceed(r), Answered(r, posts), UNCHANGED screenVars PROVE Goal
    <2>1. DOMAIN posts' = DOMAIN posts
        BY <1>0, <1>3, ProceedGoes, ServedOn DEF DoneInv, AnswersIn
    <2>2. posts = <<>> => posts' = posts
        BY <1>3 DEF Answered
    <2> QED
        BY <1>0, <1>3, <2>1, <2>2 DEF screenVars, PageInv
<1>4. CASE PressCancel
    <2>1. DOMAIN posts' = DOMAIN posts \cup {Len(posts) + 1}
        BY <1>0, <1>4, OneMore DEF PressCancel, PostsServed
    <2>2. page.view = "order"
        BY <1>4 DEF PressCancel
    <2> QED
        BY <1>0, <1>4, <2>1, <2>2 DEF PressCancel, PageInv
<1>5. ASSUME NEW p \in DOMAIN posts, NEW accepted, NEW code, Conclude(p, accepted, code),
             posts[p].kind = "order" /\ accepted => code \in OrderStatus
      PROVE  Goal
    <2>1. DOMAIN posts' = DOMAIN posts /\ page.view # "closed"
        <3>1. DOMAIN posts' = DOMAIN posts
            BY <1>0, <1>5, Concluded DEF Replies
        <3>2. posts # <<>>
            BY <1>5
        <3> QED
            BY <1>0, <3>1, <3>2 DEF PageInv
    <2>2. CASE posts[p].kind = "order" /\ accepted /\ SentToOrder(p, code)
        <3>1. order' = OrderOf(p, code) /\ code \in OrderStatus
            BY <1>5, <2>2 DEF SentToOrder
        <3>2. order'.by = p /\ order'.status = code
            BY <3>1 DEF OrderOf
        <3>3. IsPage(page') /\ page'.view = "order"
            BY <2>2, <3>1, <3>2, NewPages DEF SentToOrder
        <3>4. page' # Closed
            BY <3>3, NewPages
        <3> QED
            BY <1>0, <2>1, <2>2, <3>1, <3>2, <3>3, <3>4, NewRenders DEF PageInv, SentToOrder
    <2>3. CASE /\ StaysOn(p, code)
               /\ IF Reloads(posts[p].kind, accepted) THEN Refresh ELSE render' = render
        <3>1. IsRender(render', page.view)
            BY <1>0, <2>3, Refreshed DEF PageInv
        <3>2. page' # Closed
            BY <1>0, <2>1, <2>3, NewPages DEF StaysOn
        <3> QED
            BY <1>0, <2>1, <2>3, <3>1, <3>2 DEF PageInv, StaysOn
    <2> QED
        BY <1>0, <1>5, <2>2, <2>3, Concluded
<1>6. ASSUME NEW p \in DOMAIN posts, Break(p) \/ Settle(p) PROVE Goal
    <2>1. CASE Break(p)
        BY <1>5, <2>1, Lost
    <2>2. CASE Settle(p)
        <3>1. posts[p].kind = "order" /\ Accepted(p) => posts[p].answer \in OrderStatus
            BY <1>0, <2>2, Heard DEF OrderStatus
        <3> QED
            BY <1>0, <1>5, <2>2, <3>1, Heard
    <2> QED
        BY <1>6, <2>1, <2>2
<1>7. ASSUME NEW status \in OrderStatus PROVE
        LET new == [order EXCEPT !.status = status] IN
        new = OrderOf(new.by, new.status) /\ new.status \in OrderStatus
    <2>1. PICK by, s : order = [by |-> by, status |-> s]
        BY <1>0 DEF PageInv, OrderOf
    <2> QED
        BY <2>1 DEF OrderOf
<1>8. ASSUME NEW p \in DOMAIN posts, ServeCancel(p) PROVE Goal
    <2>1. DOMAIN posts' = DOMAIN posts /\ posts # <<>>
        BY <1>8 DEF ServeCancel
    <2>2. order' = order \/ \E status \in OrderStatus : order' = [order EXCEPT !.status = status]
        BY <1>8 DEF ServeCancel, CancelledTo, OrderStatus
    <2>3. order' = OrderOf(order'.by, order'.status) /\ order'.status \in OrderStatus
        BY <1>0, <1>7, <2>2 DEF PageInv
    <2>4. UNCHANGED <<page, busy, here, render>>
        BY <1>8 DEF ServeCancel
    <2> QED
        BY <1>0, <2>1, <2>3, <2>4 DEF PageInv
<1>9. CASE RefundEnds
    <2>1. order' = [order EXCEPT !.status = "REFUNDED"] /\ "REFUNDED" \in OrderStatus
        BY <1>9 DEF RefundEnds, OrderStatus
    <2>2. order' = OrderOf(order'.by, order'.status) /\ order'.status \in OrderStatus
        BY <1>7, <2>1
    <2>3. UNCHANGED <<page, posts, busy, here, render>>
        BY <1>9 DEF RefundEnds
    <2> QED
        BY <1>0, <2>2, <2>3 DEF PageInv
<1>10. ASSUME NEW a, Pick(a) PROVE Goal
    <2>1. page' = CartPage(page.lines, page.book, a, page.reason) /\ page.view = "cart"
        BY <1>0, <1>10, CartFields DEF Pick, OnCart
    <2>2. IsPage(page') /\ page'.view = "cart" /\ page' # Closed
        BY <2>1, NewPages
    <2>3. UNCHANGED <<posts, busy, here, render, order>>
        BY <1>10 DEF Pick
    <2> QED
        BY <1>0, <2>1, <2>2, <2>3 DEF PageInv
<1>11. CASE Leave
    BY <1>0, <1>11, NewPages, NewRenders DEF Leave, PageInv
<1>12. CASE Visit
    <2>1. IsRender(render', "opening") /\ render' # NoRender
        BY <1>12, NewRenders DEF Visit, Drawn
    <2> QED
        BY <1>0, <1>12, <2>1, NewPages DEF Visit, PageInv
<1>13. CASE Show
    <2>1. CASE page.view = "order"
        <3>1. page'.view = "order" /\ page' # Closed
            BY <1>0, <1>13, <2>1, Shows, NewPages
        <3>2. IsRender(render', "order")
            BY <1>0, <1>13, Shows, NewRenders DEF Drawn
        <3> QED
            BY <1>0, <1>13, <2>1, <3>1, <3>2, Shows DEF PageInv
    <2>2. CASE page.view # "order"
        <3>1. page'.view = "cart" /\ page' # Closed
            BY <1>0, <1>13, <2>2, Shows, NewPages
        <3>2. IsRender(render', "cart")
            BY <1>0, <1>13, Shows, NewRenders DEF Drawn
        <3>3. page.view # "closed" /\ busy' \subseteq busy
            BY <1>0, <1>13, <2>2, Shows DEF Drawn
        <3> QED
            BY <1>0, <1>13, <2>2, <3>1, <3>2, <3>3, Shows DEF PageInv
    <2> QED
        BY <2>1, <2>2
<1>14. ASSUME NEW part, Fetch(part) PROVE Goal
    BY <1>0, <1>14, Fetches DEF PageInv
<1>15. CASE FetchFails
    BY <1>0, <1>15, Failures DEF PageInv
<1> QED
    BY <1>1, <1>2, <1>3, <1>4, <1>6, <1>8, <1>9, <1>10, <1>11, <1>12, <1>13, <1>14, <1>15, TabSteps
       DEF TabMoves

\* In a shop with a tab every request under way is the tab's.
LEMMA NextOwn ==
    ASSUME StateInv, TabInv, DoneInv', page' # Closed, page # Closed, [ShopNext]_allVars
    PROVE  OwnInv'
<1>0. PostsServed /\ PageInv /\ \A r \in Slot : Free(r) \/ \E p \in DOMAIN posts : posts[p].slot = r
    BY DEF TabInv, OwnInv
<1>1. ASSUME req' = req, DOMAIN posts \subseteq DOMAIN posts',
             \A p \in DOMAIN posts : posts'[p].slot = posts[p].slot
      PROVE  OwnInv'
    BY <1>0, <1>1 DEF OwnInv, Free
<1>2. ASSUME NEW r \in Slot, Touch(r) PROVE OwnInv'
    <2>1. PICK kind, skus, id, x :
            Pressed(r, kind, x) /\ Sent(r, kind, skus, id) /\ (kind = "order" => skus = {})
        BY <1>2, Presses
    <2>2. NewPost(r, kind, skus, x) /\ SlotsKept(r) /\ req'[r] = x
        BY <1>0, <2>1, PressedPosts
    <2>3. x.pc = "done" \/ posts'[Len(posts) + 1].slot = r
        BY <2>2 DEF NewPost
    <2>4. ASSUME NEW s \in Slot, s # r PROVE Free(s)' \/ \E p \in DOMAIN posts' : posts'[p].slot = s
        BY <1>0, <2>2, <2>4 DEF NewPost, SlotsKept, Free, Idle
    <2>5. Free(r)' \/ \E p \in DOMAIN posts' : posts'[p].slot = r
        BY <2>2, <2>3 DEF NewPost, Free
    <2> QED
        BY <2>4, <2>5 DEF OwnInv
<1>3. ASSUME NEW r \in Slot, Proceed(r), Answered(r, posts) PROVE OwnInv'
    <2>1. Goes(r) /\ AnswersIn(posts, r)
        BY <1>0, <1>3, ProceedGoes, ServedOn DEF DoneInv
    <2>2. ASSUME NEW s \in Slot, s # r PROVE Free(s)' \/ \E p \in DOMAIN posts' : posts'[p].slot = s
        BY <1>0, <2>1, <2>2 DEF Goes, AnswersIn, Free
    <2>3. Free(r)' \/ \E p \in DOMAIN posts' : posts'[p].slot = r
        <3>1. ~Free(r)
            BY <2>1 DEF Goes, Free
        <3> QED
            BY <1>0, <2>1, <3>1 DEF AnswersIn, Free
    <2> QED
        BY <2>2, <2>3 DEF OwnInv
<1>4. ASSUME UNCHANGED shopVars, TabMoves PROVE OwnInv'
    <2>1. req' = req
        BY <1>4 DEF shopVars
    <2>2. CASE PressCancel
        <3>1. DOMAIN posts \subseteq DOMAIN posts' /\ \A p \in DOMAIN posts : posts'[p] = posts[p]
            BY <1>0, <2>2, OneMore DEF PressCancel, PostsServed
        <3> QED
            BY <1>1, <2>1, <3>1
    <2>3. ASSUME NEW p \in DOMAIN posts, NEW answer, Replies(p, answer) PROVE OwnInv'
        BY <1>1, <2>1, <2>3 DEF Replies
    <2>4. ASSUME NEW p \in DOMAIN posts, Break(p) \/ Settle(p) PROVE OwnInv'
        <3>1. \E accepted, code : Conclude(p, accepted, code)
            BY <2>4 DEF Break, Settle
        <3> QED
            BY <1>0, <2>3, <3>1, Concluded
    <2>5. ASSUME NEW p \in DOMAIN posts, ServeCancel(p) PROVE OwnInv'
        <3>1. \E answer : posts' = [posts EXCEPT ![p].answer = answer]
            BY <2>5 DEF ServeCancel
        <3> QED
            BY <1>0, <2>3, <3>1, Replied
    <2>6. CASE \/ Leave \/ Visit \/ (\E a : Pick(a)) \/ RefundEnds \/ FetchFails
               \/ Show \/ \E part : Fetch(part)
        BY <1>1, <2>1, <2>6 DEF Leave, Visit, Pick, RefundEnds, FetchFails, Show, Fetch
    <2> QED
        BY <1>4, <2>2, <2>4, <2>5, <2>6 DEF TabMoves
<1>5. CASE UNCHANGED tabVars /\ UNCHANGED shopVars
    BY <1>1, <1>5 DEF tabVars, shopVars
<1> QED
    BY <1>2, <1>3, <1>4, <1>5, TabSteps

\* A tab that opens has sent nothing and shows what is there.
LEMMA TabBegins == ShopInit => TabInv
<1> SUFFICES ASSUME ShopInit PROVE TabInv
    OBVIOUS
<1>1. /\ posts = <<>> /\ busy = {} /\ here = {} /\ render = NoRender
      /\ order = OrderOf(0, "PENDING_PAYMENT")
      /\ page = Closed \/ \E lines, book, choice, reason : page = CartPage(lines, book, choice, reason)
    BY DEF ShopInit, TabInit
<1>2. \A r \in Slot : req[r] = Idle
    BY DEF ShopInit, Init
<1>3. DoneInv
    BY <1>2, Endings DEF DoneInv
<1>4. OwnInv
    BY <1>2 DEF OwnInv, Free, Idle
<1>5. PostsServed
    BY <1>1 DEF PostsServed, IsSequence
<1>6. PageInv
    <2>1. IsPage(page) /\ page.view # "opening"
        BY <1>1, NewPages
    <2>2. order.by = 0 /\ order.status = "PENDING_PAYMENT"
        BY <1>1 DEF OrderOf
    <2> QED
        BY <1>1, <2>1, <2>2, NewRenders DEF PageInv, OrderStatus
<1> QED
    BY <1>3, <1>4, <1>5, <1>6 DEF TabInv

LEMMA TabGoesOn ==
    ASSUME StateInv, TabInv, [ShopNext]_allVars
    PROVE  TabInv'
<1>1. DoneInv'
    BY StoreSteps, NextDone DEF TabInv
<1>2. PageInv' /\ (page' = Closed <=> page = Closed)
    BY <1>1, NextPage
<1>3. PostsServed'
    BY <1>1, NextPosts
<1>4. OwnInv'
    BY <1>1, <1>2, NextOwn DEF OwnInv
<1> QED
    BY <1>1, <1>2, <1>3, <1>4 DEF TabInv

\* The tab, its requests, and what the API is doing for them fit together.
THEOREM TabFitsTogether == ShopSpec => [](TabInv /\ TabTypeOK)
<1>1. ShopInit => StoreInv /\ TabInv
    BY StoreInit, TabBegins DEF ShopInit
<1>2. StoreInv /\ TabInv /\ [ShopNext]_allVars => StoreInv' /\ TabInv'
    BY StoreStep, TabGoesOn DEF StoreInv
<1>3. TabInv => TabTypeOK
    <2> SUFFICES ASSUME TabInv PROVE TabTypeOK
        OBVIOUS
    <2>1. /\ page.view \in {"closed", "product", "opening", "cart", "order"}
          /\ page.view = "order" => page.order.status \in OrderStatus
        BY Pages DEF TabInv, PageInv, Drawn
    <2> QED
        BY <2>1 DEF TabInv, PageInv, PostsServed, IsPost, TabTypeOK
<1> QED
    BY <1>1, <1>2, <1>3, PTL DEF ShopSpec


\* A request of the tab is answered by this step of the API.
AnsweredNow(r, p) ==
    LET a == posts[p] b == posts'[p] IN
    /\ a.slot = r /\ AtWork(a) /\ ~AtWork(b)
    /\ b.kind = a.kind
    /\ b.answer = Taken <=> a.answer = Taken
    /\ b.ordered # NoCart.id => a.kind = "order" /\ req[r].pc = "place"
    /\ a.kind # "order" /\ a.answer = Waiting /\ req'[r] = Succeeded => b.answer = Succeeded.code

\* The API goes on with a request of the tab, or with that of another client
\* where there is no tab.
LEMMA ServedPosts ==
    ASSUME StateInv, TabInv, DoneInv', NEW r \in Slot, Proceed(r), Answered(r, posts)
    PROVE  /\ Goes(r)
           /\ DOMAIN posts' = DOMAIN posts
           /\ \A p \in DOMAIN posts :
                \/ posts'[p] = posts[p] /\ ~(posts[p].slot = r /\ req'[r].pc = "done")
                \/ AnsweredNow(r, p)
           /\ page # Closed =>
                \E p \in DOMAIN posts : /\ posts[p].slot = r
                                        /\ req[r].pc \in WorkOf(posts[p].kind)
                                        /\ OwnerOf(req[r]) = Shopper
<1>0. PostsServed /\ OwnInv /\ r # NoSlot
    BY TabAssumption DEF TabInv, NoSlot
<1>1. Goes(r) /\ AnswersIn(posts, r)
    BY <1>0, ProceedGoes, ServedOn DEF DoneInv
<1>2. ASSUME NEW p \in DOMAIN posts, posts[p].slot = r, req'[r].pc = "done"
      PROVE  AnsweredNow(r, p)
    <2> DEFINE a == posts[p]
               b == posts'[p]
               y == req'[r]
    <2>1. AnswerTo(a, b, y) /\ IsPost(a) /\ AtWork(a) /\ Ends(y)
        BY <1>0, <1>1, <1>2 DEF AnswersIn, PostsServed, AtWork, DoneInv
    <2>2. /\ ~AtWork(b) /\ b.kind = a.kind
          /\ b.answer = Taken <=> a.answer = Taken
          /\ b.ordered # NoCart.id => a.kind = "order" /\ y = Succeeded
          /\ a.kind # "order" /\ a.answer = Waiting /\ y = Succeeded => b.answer = Succeeded.code
        BY <1>2, <2>1, AnsweredPost
    <2>3. a.kind = "order" /\ y = Succeeded => req[r].pc = "place"
        BY <1>0, <1>1, <1>2, <2>1 DEF PostsServed, Served, WorkOf, Goes
    <2> QED
        BY <1>2, <2>1, <2>2, <2>3 DEF AnsweredNow
<1>3. \/ page = Closed
      \/ \E p \in DOMAIN posts : posts[p].slot = r /\ Served(posts[p]) /\ AtWork(posts[p])
    <2>1. ~Free(r)
        BY <1>1 DEF Goes, Free
    <2> QED
        BY <1>0, <2>1 DEF OwnInv, PostsServed, AtWork
<1> QED
    BY <1>1, <1>2, <1>3 DEF AnswersIn, Served
-----------------------------------------------------------------------------
(* The tab: a shopper who stayed is told of the order.                      *)

ToldInv ==
    \A p \in here : posts[p].kind = "order" /\ posts[p].answer = Taken => page.reason # NoReason

LEMMA NextTold ==
    ASSUME StateInv, TabInv, ToldInv, [ShopNext]_allVars
    PROVE  ToldInv'
<1>0. PostsServed /\ PageInv /\ here \subseteq DOMAIN posts /\ DoneInv'
    BY StoreSteps, NextDone DEF TabInv, PageInv
<1>1. CASE UNCHANGED tabVars
    BY <1>1 DEF tabVars, screenVars, ToldInv
<1>2. ASSUME NEW r \in Slot, Touch(r) PROVE ToldInv'
    <2>1. PICK kind, skus, id, x :
            Pressed(r, kind, x) /\ Sent(r, kind, skus, id) /\ (kind = "order" => skus = {})
        BY <1>2, Presses
    <2>2. NewPost(r, kind, skus, x) /\ page' = page /\ here' \subseteq here \cup {Len(posts) + 1}
        BY <1>0, <2>1, PressedPosts DEF Sent
    <2> QED
        BY <1>0, <2>2 DEF ToldInv, NewPost
<1>3. ASSUME NEW r \in Slot, Proceed(r), Answered(r, posts), UNCHANGED screenVars PROVE ToldInv'
    <2>1. \A p \in DOMAIN posts : /\ posts'[p].kind = posts[p].kind
                                  /\ posts'[p].answer = Taken <=> posts[p].answer = Taken
        BY <1>0, <1>3, ServedPosts DEF AnsweredNow
    <2> QED
        BY <1>0, <1>3, <2>1 DEF ToldInv, screenVars
<1>4. ASSUME NEW p \in DOMAIN posts, NEW answer, Replies(p, answer), answer # Taken,
             page' = page, here' = here
      PROVE  ToldInv'
    BY <1>0, <1>4 DEF Replies, ToldInv
<1>5. ASSUME NEW p \in DOMAIN posts, NEW accepted, NEW code, Conclude(p, accepted, code),
             ~accepted => code # NoReason
      PROVE  ToldInv'
    <2>1. Replies(p, Taken)
        BY <1>0, <1>5, Concluded
    <2>2. CASE SentToOrder(p, code)
        BY <2>2 DEF SentToOrder, ToldInv
    <2>3. CASE ~(posts[p].kind = "order" /\ accepted) /\ StaysOn(p, code)
        <3>1. here' = here /\ (here # {} => page.view = "cart")
            BY <1>0, <2>3 DEF StaysOn, PageInv
        <3>2. ASSUME NEW q \in here, posts'[q].kind = "order", posts'[q].answer = Taken
              PROVE  page'.reason # NoReason
            <4>1. page'.reason = IF posts[p].kind = "order" /\ p \in here THEN code ELSE page.reason
                BY <2>3, <3>1 DEF StaysOn
            <4>2. posts[q].kind = "order" /\ (q # p => posts[q].answer = Taken)
                BY <1>0, <2>1, <3>2 DEF Replies
            <4> QED
                BY <1>5, <2>3, <4>1, <4>2 DEF ToldInv
        <3> QED
            BY <3>1, <3>2 DEF ToldInv
    <2> QED
        BY <1>0, <1>5, <2>2, <2>3, Concluded
<1>6. ASSUME NEW p \in DOMAIN posts, Break(p) \/ Settle(p) PROVE ToldInv'
    <2>1. CASE Break(p)
        <3>1. Internal.code # NoReason
            BY DEF Internal, NoReason
        <3> QED
            BY <1>5, <2>1, <3>1, Lost
    <2>2. CASE Settle(p)
        <3>1. ~Accepted(p) => posts[p].answer # NoReason
            BY CodesApart DEF Accepted
        <3> QED
            BY <1>0, <1>5, <2>2, <3>1, Heard
    <2> QED
        BY <1>6, <2>1, <2>2
<1>7. ASSUME NEW p \in DOMAIN posts, ServeCancel(p) PROVE ToldInv'
    <2>1. PICK answer \in {Refused("ORDER_CONFLICT").code, Succeeded.code} :
            posts' = [posts EXCEPT ![p].answer = answer]
        BY <1>7 DEF ServeCancel
    <2>2. Replies(p, answer) /\ answer # Taken
        BY <1>0, <2>1, Replied, CodesApart
    <2> QED
        BY <1>4, <1>7, <2>2 DEF ServeCancel
<1>8. CASE PressCancel
    BY <1>0, <1>8, OneMore DEF PressCancel, PostsServed, ToldInv
<1>9. ASSUME NEW a, Pick(a) PROVE ToldInv'
    <2>1. page' = CartPage(page.lines, page.book, a, page.reason) /\ page.view = "cart"
        BY <1>0, <1>9, CartFields DEF Pick, OnCart, PageInv
    <2>2. page'.reason = page.reason
        BY <2>1, NewPages
    <2> QED
        BY <1>9, <2>2 DEF Pick, ToldInv
<1>10. CASE Leave
    BY <1>10 DEF Leave, ToldInv
<1>11. CASE Visit
    <2>1. here = {}
        BY <1>0, <1>11, NewPages DEF Visit, PageInv
    <2> QED
        BY <1>11, <2>1 DEF Visit, ToldInv
<1>12. CASE Show
    <2>1. here' = here /\ posts' = posts /\ (page.view = "cart" => page'.reason = page.reason)
        BY <1>0, <1>12, Shows
    <2> QED
        BY <1>0, <2>1 DEF ToldInv, PageInv
<1>13. CASE RefundEnds \/ FetchFails \/ \E part : Fetch(part)
    BY <1>13 DEF RefundEnds, FetchFails, Fetch, ToldInv
<1> QED
    BY <1>1, <1>2, <1>3, <1>6, <1>7, <1>8, <1>9, <1>10, <1>11, <1>12, <1>13, TabSteps DEF TabMoves

\* Whoever stays on the page of a checkout that failed is told why where the
\* order that it placed has taken the lines from the page, for as long as the
\* page can be fetched.
THEOREM ShopperIsTold == ShopSpec => []OrderIsTold
<1>1. ShopInit => StoreInv /\ TabInv /\ ToldInv
    <2>1. ShopInit => here = {}
        BY DEF ShopInit, TabInit
    <2> QED
        BY <2>1, StoreInit, TabBegins DEF ShopInit, ToldInv
<1>2. StoreInv /\ TabInv /\ ToldInv /\ [ShopNext]_allVars => StoreInv' /\ TabInv' /\ ToldInv'
    BY StoreStep, TabGoesOn, NextTold DEF StoreInv
<1>3. TabInv /\ ToldInv => OrderIsTold
    <2> SUFFICES ASSUME TabInv, ToldInv, NEW p \in here, Placed(p), posts[p].answer = Taken,
                        page.lines = {}
                 PROVE  Alert # NoReason
        BY DEF OrderIsTold
    <2>1. IsPost(posts[p]) /\ page.view = "cart"
        BY DEF TabInv, PageInv, PostsServed
    <2>2. page.reason # NoReason
        BY <2>1 DEF IsPost, Placed, ToldInv
    <2> QED
        BY <2>1, <2>2 DEF Alert
<1> QED
    BY <1>1, <1>2, <1>3, PTL DEF ShopSpec

-----------------------------------------------------------------------------
(* The tab: what the screen shows.                                          *)

\* What the page shows of a part, and whether it is, or will be, up to date.
Shown(part) ==
    IF part = "cart" THEN page.lines ELSE IF part = "book" THEN page.book ELSE page.order
Fresh(part) ==
    IF render = NoRender THEN Shown(part) = Current(part)
    ELSE \/ render.again
         \/ part \notin DOMAIN render.got
         \/ render.got[part] = Current(part)

\* The answer of the request will make the tab load the part again.
WillReload(x, part) ==
    /\ x.answer # Taken
    /\ ~AtWork(x)
    /\ \/ part = "cart" /\ x.kind = "order"
       \/ /\ x.answer = Succeeded.code
          /\ <<part, x.kind>> \in {<<"cart", "add">>, <<"cart", "remove">>, <<"book", "address">>,
                                   <<"order", "cancel">>}

\* What an alert has taken the place of is not looked at.
Watched == page.view \in Drawn /\ (page.view = "opening" => render # NoRender)

FreshInv ==
    excuse = {} /\ Watched =>
        \A part \in Parts(page.view) :
            Fresh(part) \/ \E p \in DOMAIN posts : WillReload(posts[p], part)

\* Nobody has given up on an answer that is still to come.
WaitInv == excuse = {} => \A p \in DOMAIN posts : AtWork(posts[p]) => posts[p].answer = Waiting

\* What the server has for the tab.
LEMMA SameCurrent ==
    ASSUME carts'[Shopper] = carts[Shopper], books'[Shopper] = books[Shopper],
           products' = products, order' = order
    PROVE  \A part : Current(part)' = Current(part)
<1>1. CurrentPrices' = CurrentPrices /\ LinesOf(Shopper)' = LinesOf(Shopper)
    BY DEF CurrentPrices, LinesOf
<1> QED
    BY <1>1 DEF Current

LEMMA NextFresh ==
    ASSUME StateInv, TabInv, FreshInv, WaitInv, [ShopNext]_allVars
    PROVE  FreshInv' /\ WaitInv'
<1> DEFINE Goal == FreshInv' /\ WaitInv'
           Due(part) == \E p \in DOMAIN posts : WillReload(posts[p], part)
<1>0. PostsServed /\ PageInv /\ DoneInv'
    BY StoreSteps, NextDone DEF TabInv
<1>1. ASSUME excuse' = excuse, page' = page, render' = render, order' = order,
             carts'[Shopper] = carts[Shopper], books'[Shopper] = books[Shopper],
             products' = products
      PROVE  (\A part : Fresh(part)' = Fresh(part)) /\ Watched' = Watched
    BY <1>1, SameCurrent DEF Fresh, Shown, Watched
<1>2. CASE UNCHANGED tabVars /\ (page = Closed \/ UNCHANGED shopVars)
    <2>1. WaitInv'
        BY <1>2 DEF tabVars, screenVars, WaitInv
    <2>2. CASE page = Closed
        BY <1>2, <2>1, <2>2 DEF tabVars, screenVars, FreshInv, Watched, Closed, Drawn
    <2>3. CASE UNCHANGED shopVars
        BY <1>1, <1>2, <2>1, <2>3 DEF tabVars, screenVars, shopVars, FreshInv
    <2> QED
        BY <1>2, <2>2, <2>3
<1>3. ASSUME NEW r \in Slot, Touch(r) PROVE Goal
    <2>1. PICK kind, skus, id, x :
            Pressed(r, kind, x) /\ Sent(r, kind, skus, id) /\ (kind = "order" => skus = {})
        BY <1>3, Presses
    <2>2. NewPost(r, kind, skus, x)
        BY <1>0, <2>1, PressedPosts
    <2>3. (\A part : Fresh(part)' = Fresh(part)) /\ Watched' = Watched
        BY <1>1, <2>1 DEF Pressed, Sent
    <2>4. UNCHANGED <<page, excuse>>
        BY <2>1 DEF Sent
    <2>5. FreshInv'
        BY <2>2, <2>3, <2>4 DEF FreshInv, NewPost
    <2>6. WaitInv'
        BY <2>2, <2>4 DEF WaitInv, NewPost
    <2> QED
        BY <2>5, <2>6
<1>4. ASSUME NEW r \in Slot, Proceed(r), Answered(r, posts), UNCHANGED screenVars PROVE Goal
    <2>1. /\ Goes(r) /\ DOMAIN posts' = DOMAIN posts
          /\ \A p \in DOMAIN posts :
                \/ posts'[p] = posts[p] /\ ~(posts[p].slot = r /\ req'[r].pc = "done")
                \/ AnsweredNow(r, p)
        BY <1>0, <1>4, ServedPosts
    <2>2. UNCHANGED <<page, render, order, excuse>>
        BY <1>4 DEF screenVars
    <2>3. WaitInv'
        BY <2>1, <2>2 DEF WaitInv, AnsweredNow
    <2>4. ASSUME excuse = {}, Watched, NEW part \in Parts(page.view)
          PROVE  Fresh(part)' \/ \E p \in DOMAIN posts' : WillReload(posts'[p], part)
        <3>1. PICK p \in DOMAIN posts : posts[p].slot = r /\ req[r].pc \in WorkOf(posts[p].kind)
            BY <1>0, <1>4, <2>4, ServedPosts DEF Closed, Drawn, Watched
        <3>0. products' = products
            BY <2>1, <3>1 DEF Goes, WorkOf
        <3>2. CASE Due(part)
            BY <2>1, <3>2 DEF WillReload, AnsweredNow
        <3>3. ASSUME req'[r] = Succeeded,
                     \/ part = "cart" /\ req[r].pc \in {"cart", "place"}
                     \/ part = "book" /\ req[r].pc = "write"
              PROVE  WillReload(posts'[p], part)
            <4>1. AnsweredNow(r, p)
                BY <2>1, <3>1, <3>3, Endings
            <4>2. posts[p].answer = Waiting
                BY <2>4, <4>1 DEF WaitInv, AnsweredNow
            <4>3. posts[p].kind \in {"order", "add", "remove", "address"}
                  /\ (posts[p].kind = "order" => req[r].pc = "place")
                  /\ (posts[p].kind \in {"add", "remove"} => req[r].pc = "cart")
                  /\ (posts[p].kind = "address" => req[r].pc = "write")
                BY <3>1, <3>3 DEF WorkOf
            <4> QED
                BY <3>3, <4>1, <4>2, <4>3, CodesApart DEF AnsweredNow, WillReload
        <3>4. CASE carts' # carts /\ part = "cart"
            BY <2>1, <3>3, <3>4 DEF Goes
        <3>5. CASE books' # books /\ part = "book"
            BY <2>1, <3>3, <3>5 DEF Goes
        <3>6. CASE /\ ~Due(part)
                   /\ ~(carts' # carts /\ part = "cart") /\ ~(books' # books /\ part = "book")
            <4>1. Fresh(part)
                BY <2>4, <3>6 DEF FreshInv
            <4>2. CurrentPrices' = CurrentPrices /\ (carts' = carts => LinesOf(Shopper)' = LinesOf(Shopper))
                BY <3>0 DEF CurrentPrices, LinesOf
            <4>3. Current(part)' = Current(part)
                BY <2>2, <3>6, <4>2 DEF Current
            <4> QED
                BY <2>2, <4>1, <4>3 DEF Fresh, Shown
        <3> QED
            BY <2>1, <3>1, <3>2, <3>4, <3>5, <3>6
    <2>5. Watched' = Watched
        BY <2>2 DEF Watched
    <2> QED
        BY <2>2, <2>3, <2>4, <2>5 DEF FreshInv
<1>5. ASSUME UNCHANGED shopVars, PressCancel PROVE Goal
    <2> DEFINE new == Post(NoSlot, "cancel", {}, page.order.by)
               n == Len(posts) + 1
    <2>1. DOMAIN posts' = DOMAIN posts \cup {n} /\ posts'[n] = new
          /\ \A p \in DOMAIN posts : posts'[p] = posts[p]
        BY <1>0, <1>5, OneMore DEF PressCancel, PostsServed
    <2>2. ~AtWork(new)
        BY DEF Post, AtWork
    <2>3. UNCHANGED <<page, render, order, excuse>>
        BY <1>5 DEF PressCancel
    <2>4. (\A part : Fresh(part)' = Fresh(part)) /\ Watched' = Watched
        BY <1>1, <1>5, <2>3 DEF shopVars
    <2> HIDE DEF new, n
    <2>5. FreshInv'
        BY <2>1, <2>3, <2>4 DEF FreshInv
    <2>6. WaitInv'
        BY <2>1, <2>2, <2>3 DEF WaitInv
    <2> QED
        BY <2>5, <2>6
<1>6. ASSUME UNCHANGED shopVars, NEW p \in DOMAIN posts, NEW accepted, NEW code,
             Conclude(p, accepted, code), excuse \subseteq excuse',
             excuse' = {} =>
                /\ ~AtWork(posts[p])
                /\ posts[p].answer = Succeeded.code /\ posts[p].kind # "order" => accepted
      PROVE  Goal
    <2>1. Replies(p, Taken)
        BY <1>0, <1>6, Concluded
    <2>2. WaitInv'
        BY <1>6, <2>1 DEF WaitInv, Replies, AtWork
    <2>3. CASE SentToOrder(p, code)
        <3>1. order' = OrderOf(p, code) /\ page' = OrderPage(order') /\ render' = NoRender
            BY <2>3 DEF SentToOrder
        <3>2. page'.view = "order" /\ page'.order = order'
            BY <3>1, NewPages
        <3>3. FreshInv'
            BY <3>1, <3>2 DEF FreshInv, Fresh, Shown, Current, Parts
        <3> QED
            BY <2>2, <3>3
    <2>4. CASE ~(posts[p].kind = "order" /\ accepted) /\ StaysOn(p, code)
        <3>1. UNCHANGED order /\ page'.view = page.view
            BY <2>4 DEF StaysOn
        <3>2. CASE Reloads(posts[p].kind, accepted) /\ Refresh /\ page.view \in Drawn
            <4>1. render' # NoRender /\ (DOMAIN render'.got = {} \/ render'.again)
                BY <1>0, <3>2, Refreshed DEF PageInv
            <4>2. \A part : Fresh(part)'
                BY <4>1 DEF Fresh
            <4> QED
                BY <2>2, <3>1, <4>2 DEF FreshInv
        <3>3. CASE ~Reloads(posts[p].kind, accepted) /\ render' = render /\ page.view \in Drawn
            <4> SUFFICES ASSUME excuse' = {}, NEW part \in Parts(page.view), Watched
                         PROVE  Fresh(part)' \/ \E q \in DOMAIN posts' : WillReload(posts'[q], part)
                BY <2>2, <3>1, <3>3 DEF FreshInv, Watched
            <4>1. ~WillReload(posts[p], part)
                BY <1>6, <2>4, <3>3 DEF WillReload, Reloads
            <4>2. CASE Due(part)
                BY <2>1, <4>1, <4>2 DEF Replies
            <4>3. CASE ~Due(part)
                <5>1. Fresh(part)
                    BY <1>6, <3>3, <4>3 DEF FreshInv
                <5>2. render = NoRender => Shown(part)' = Shown(part)
                    BY <1>0, <2>4, <3>3 DEF StaysOn, Shown, Parts, Watched, Drawn
                <5>3. Current(part)' = Current(part)
                    BY <1>6, <3>1, SameCurrent DEF shopVars
                <5> QED
                    BY <3>3, <5>1, <5>2, <5>3 DEF Fresh
            <4> QED
                BY <4>2, <4>3
        <3>4. CASE page.view \notin Drawn
            BY <2>2, <3>1, <3>4 DEF FreshInv, Watched
        <3> QED
            BY <1>0, <1>6, <2>4, <3>2, <3>3, <3>4, Concluded
    <2> QED
        BY <1>0, <1>6, <2>3, <2>4, Concluded
<1>7. ASSUME UNCHANGED shopVars, NEW p \in DOMAIN posts, Break(p) \/ Settle(p) PROVE Goal
    <2>1. CASE Break(p)
        <3>1. excuse' = {} => ~AtWork(posts[p]) /\ posts[p].kind = "order"
            BY <2>1, Lost
        <3> QED
            BY <1>6, <1>7, <2>1, <3>1, Lost
    <2>2. CASE Settle(p)
        <3>1. ~AtWork(posts[p]) /\ (posts[p].answer = Succeeded.code => Accepted(p))
            BY <1>0, <2>2, Heard DEF Accepted
        <3> QED
            BY <1>0, <1>6, <1>7, <2>2, <3>1, Heard
    <2> QED
        BY <1>7, <2>1, <2>2
<1>8. ASSUME UNCHANGED shopVars, NEW p \in DOMAIN posts, ServeCancel(p) PROVE Goal
    <2>1. PICK answer \in {Refused("ORDER_CONFLICT").code, Succeeded.code} :
            /\ posts' = [posts EXCEPT ![p].answer = answer]
            /\ answer # Succeeded.code => order' = order
        <3>1. PICK status : 
                /\ posts' = [posts EXCEPT ![p].answer =
                       IF CancelBy(status) = "conflict" THEN Refused("ORDER_CONFLICT").code
                       ELSE Succeeded.code]
                /\ order' = IF posts[p].id = order.by /\ CancelBy(status) = "moved"
                            THEN [order EXCEPT !.status = CancelledTo(status)] ELSE order
            BY <1>8 DEF ServeCancel
        <3>2. CASE CancelBy(status) = "conflict"
            BY <3>1, <3>2
        <3>3. CASE CancelBy(status) # "conflict"
            BY <3>1, <3>3
        <3> QED
            BY <3>2, <3>3
    <2>2. Replies(p, answer) /\ UNCHANGED <<page, render, excuse>>
        BY <1>0, <1>8, <2>1, Replied DEF ServeCancel
    <2>3. posts[p].kind = "cancel" /\ posts[p].answer = Waiting /\ ~AtWork(posts[p])
        BY <1>0, <1>8 DEF ServeCancel, PostsServed, Served, WorkOf
    <2>4. \A q \in DOMAIN posts \ {p} : posts'[q] = posts[q]
        BY <2>2 DEF Replies
    <2>5. DOMAIN posts' = DOMAIN posts /\ posts'[p].kind = "cancel" /\ ~AtWork(posts'[p])
          /\ posts'[p].answer = answer
        BY <2>2, <2>3 DEF Replies, AtWork
    <2>6. WaitInv'
        BY <2>2, <2>4, <2>5 DEF WaitInv
    <2>7. ASSUME excuse = {}, Watched, NEW part \in Parts(page.view)
          PROVE  Fresh(part)' \/ \E q \in DOMAIN posts' : WillReload(posts'[q], part)
        <3>1. CASE Due(part)
            BY <2>3, <2>4, <2>5, <3>1, CodesApart DEF WillReload
        <3>2. CASE ~Due(part) /\ (order' = order \/ part # "order")
            <4>1. Fresh(part)
                BY <2>7, <3>2 DEF FreshInv
            <4>2. CurrentPrices' = CurrentPrices /\ LinesOf(Shopper)' = LinesOf(Shopper) /\ books' = books
                BY <1>8 DEF CurrentPrices, LinesOf, shopVars
            <4>3. Current(part)' = Current(part)
                BY <2>7, <3>2, <4>2 DEF Current, Parts
            <4> QED
                BY <2>2, <4>1, <4>3 DEF Fresh, Shown
        <3>3. CASE order' # order /\ part = "order"
            BY <2>1, <2>5, <3>3, CodesApart DEF WillReload
        <3> QED
            BY <3>1, <3>2, <3>3
    <2>8. Watched' = Watched
        BY <2>2 DEF Watched
    <2> QED
        BY <2>2, <2>6, <2>7, <2>8 DEF FreshInv
<1>9. CASE RefundEnds
    BY <1>9 DEF RefundEnds, FreshInv, WaitInv
<1>10. ASSUME UNCHANGED shopVars, NEW a, Pick(a) PROVE Goal
    <2>1. page' = CartPage(page.lines, page.book, a, page.reason) /\ page.view = "cart"
        BY <1>0, <1>10, CartFields DEF Pick, OnCart, PageInv
    <2>2. page'.view = page.view /\ page'.lines = page.lines /\ page'.book = page.book
        BY <2>1, NewPages
    <2>3. \A part : Current(part)' = Current(part)
        BY <1>10, SameCurrent DEF Pick, shopVars
    <2>4. \A part \in Parts(page.view) : Fresh(part)' = Fresh(part)
        BY <1>10, <2>1, <2>2, <2>3 DEF Pick, Fresh, Shown, Parts
    <2> QED
        BY <1>10, <2>1, <2>2, <2>4 DEF Pick, FreshInv, WaitInv, Watched
<1>11. CASE Leave
    BY <1>11, NewPages DEF Leave, FreshInv, WaitInv, Watched, Drawn
<1>12. CASE Visit
    <2>1. render' # NoRender /\ DOMAIN render'.got = {}
        BY <1>12, NewRenders DEF Visit
    <2>2. \A part : Fresh(part)'
        BY <2>1 DEF Fresh
    <2> QED
        BY <1>12, <2>2 DEF Visit, FreshInv, WaitInv
<1>13. ASSUME UNCHANGED shopVars, Show PROVE Goal
    <2>1. UNCHANGED <<posts, order, excuse>>
        BY <1>0, <1>13, Shows
    <2>2. Parts(page'.view) = Parts(page.view) /\ Watched
        BY <1>0, <1>13, Shows, NewPages DEF Parts, Watched
    <2>3. ASSUME NEW part \in Parts(page.view), Fresh(part) PROVE Fresh(part)'
        <3>1. CASE render.again
            <4>1. render' = Rendering(NothingYet, FALSE)
                BY <1>0, <1>13, <3>1, Shows
            <4>2. render' # NoRender /\ DOMAIN render'.got = {}
                BY <4>1, NewRenders
            <4> QED
                BY <4>2 DEF Fresh
        <3>2. CASE ~render.again
            <4>1. render' = NoRender
                BY <1>0, <1>13, <3>2, Shows
            <4>2. render.got[part] = Current(part)
                BY <1>0, <1>13, <2>3, <3>2, Shows DEF Fresh
            <4>3. Shown(part)' = render.got[part]
                BY <1>0, <1>13, <2>3, Shows, NewPages DEF Shown, Parts
            <4>4. Current(part)' = Current(part)
                BY <1>13, <2>1, SameCurrent DEF shopVars
            <4> QED
                BY <4>1, <4>2, <4>3, <4>4 DEF Fresh
        <3> QED
            BY <3>1, <3>2
    <2> QED
        BY <2>1, <2>2, <2>3 DEF FreshInv, WaitInv
<1>14. ASSUME UNCHANGED shopVars, NEW new, Fetch(new) PROVE Goal
    <2>1. UNCHANGED <<page, posts, order, excuse>>
        BY <1>0, <1>14, Fetches
    <2>2. ASSUME NEW part, Fresh(part) PROVE Fresh(part)'
        <3>1. Current(part)' = Current(part)
            BY <1>14, <2>1, SameCurrent DEF shopVars
        <3>2. CASE part = new
            BY <1>0, <1>14, <3>1, <3>2, Fetches DEF Fresh
        <3>3. CASE part # new
            BY <1>0, <1>14, <2>2, <3>1, <3>3, Fetches DEF Fresh
        <3> QED
            BY <3>2, <3>3
    <2>3. Watched' => Watched
        BY <1>0, <1>14, Fetches DEF Watched
    <2> QED
        BY <2>1, <2>2, <2>3 DEF FreshInv, WaitInv
<1>15. CASE FetchFails
    <2>1. page'.view = "opening" /\ UNCHANGED <<posts, excuse>>
          /\ (render' = NoRender \/ render' = Rendering(NothingYet, FALSE))
        BY <1>0, <1>15, Failures
    <2>2. CASE render' = NoRender
        BY <2>1, <2>2 DEF FreshInv, WaitInv, Watched
    <2>3. CASE render' = Rendering(NothingYet, FALSE)
        <3>1. render' # NoRender /\ DOMAIN render'.got = {}
            BY <2>3, NewRenders
        <3>2. \A part : Fresh(part)'
            BY <3>1 DEF Fresh
        <3> QED
            BY <2>1, <3>2 DEF FreshInv, WaitInv
    <2> QED
        BY <2>1, <2>2, <2>3
<1> QED
    BY <1>2, <1>3, <1>4, <1>5, <1>7, <1>8, <1>9, <1>10, <1>11, <1>12, <1>13, <1>14, <1>15, TabSteps
       DEF TabMoves

\* When all is quiet the screen shows what the server has, whatever overtook
\* what, unless an answer was lost or a refund came through.
THEOREM ScreenIsUpToDate == ShopSpec => []ScreenIsCurrent
<1>1. ShopInit => StoreInv /\ TabInv /\ FreshInv /\ WaitInv
    <2> SUFFICES ASSUME ShopInit PROVE FreshInv /\ WaitInv
        BY StoreInit, TabBegins DEF ShopInit
    <2>1. /\ posts = <<>> /\ render = NoRender
          /\ \/ page = Closed
             \/ page = CartPage(Current("cart"), Current("book"),
                                Preselected(Current("book")), NoReason)
        BY DEF ShopInit, TabInit
    <2>2. CASE page = Closed
        BY <2>1, <2>2 DEF FreshInv, WaitInv, Watched, Closed, Drawn
    <2>3. CASE page # Closed
        <3>1. page.view = "cart" /\ page.lines = Current("cart") /\ page.book = Current("book")
            BY <2>1, <2>3, NewPages
        <3> QED
            BY <2>1, <3>1 DEF FreshInv, WaitInv, Fresh, Shown, Parts
    <2> QED
        BY <2>2, <2>3
<1>2. /\ StoreInv /\ TabInv /\ FreshInv /\ WaitInv /\ [ShopNext]_allVars
      => StoreInv' /\ TabInv' /\ FreshInv' /\ WaitInv'
    BY StoreStep, TabGoesOn, NextFresh DEF StoreInv
<1>3. FreshInv => ScreenIsCurrent
    <2> SUFFICES ASSUME FreshInv, Quiet, excuse = {}
                 PROVE  /\ page.view = "cart" =>
                             page.lines = Current("cart") /\ page.book = Current("book")
                        /\ page.view = "order" => page.order = order
        BY DEF ScreenIsCurrent
    <2>1. render = NoRender /\ \A p \in DOMAIN posts : posts[p].answer = Taken
        BY DEF Quiet, Settled
    <2>2. page.view \in {"cart", "order"} =>
            \A part \in Parts(page.view) : Shown(part) = Current(part)
        BY <2>1 DEF FreshInv, Fresh, WillReload, Watched, Drawn
    <2>3. Current("order") = order
        BY DEF Current
    <2> QED
        BY <2>2, <2>3 DEF Parts, Shown
<1> QED
    BY <1>1, <1>2, <1>3, PTL DEF ShopSpec

-----------------------------------------------------------------------------
(* The tab: a shopper who stays orders a cart once.                         *)

\* The tab that nothing got lost for and that only checks out.
Calm == page # Closed /\ "lost" \notin excuse /\ \A p \in DOMAIN posts : ~SavesCart(p)

\* A checkout has the shopper's cart, unless another one has ordered it.
CartAtStake ==
    \A r \in Slot :
        req[r].pc \in {"address", "prices", "place"} => carts[Shopper] \in {req[r].cart, NoCart}

\* A page without lines, and one that is about to come, is right.
EmptyIsEmpty ==
    /\ page.view = "cart" /\ page.lines = {} => Current("cart") = {}
    /\ render # NoRender /\ page.view # "order" /\ "cart" \in DOMAIN render.got =>
        /\ render.got["cart"] = {} => Current("cart") = {}
        /\ page.view = "cart" /\ page.lines = {} => render.got["cart"] = {}

\* Checkouts of this page: while one is at work there is no button for another.
OneAtATime ==
    /\ \A p \in here : Placed(p) => carts[Shopper] = NoCart
    /\ \A p \in here :
        posts[p].kind = "order" /\ AtWork(posts[p]) => p \in busy \/ page.lines = {}
    /\ \A p, q \in here :
        /\ p # q /\ posts[p].kind = "order" /\ posts[q].kind = "order" /\ AtWork(posts[p])
        => ~AtWork(posts[q]) /\ ~Placed(q)
    /\ \A p, q \in here : Placed(p) /\ Placed(q) => p = q

StayInv == Calm => CartAtStake /\ EmptyIsEmpty /\ OneAtATime

\* Requests differ from before in their answers only.
SamePosts ==
    /\ DOMAIN posts' = DOMAIN posts
    /\ \A p \in DOMAIN posts : /\ posts'[p].kind = posts[p].kind
                               /\ posts'[p].slot = posts[p].slot
                               /\ posts'[p].ordered = posts[p].ordered

LEMMA SameAtStake ==
    ASSUME SamePosts, UNCHANGED shopVars, CartAtStake, OneAtATime, PageInv,
           \/ here' = {}
           \/ /\ here' = here
              /\ \A p \in here : AtWork(posts[p]) /\ p \in busy => p \in busy' \/ page'.lines = {}
              /\ page.lines = {} => page'.lines = {}
    PROVE  CartAtStake' /\ OneAtATime'
<1>1. CartAtStake'
    BY DEF CartAtStake, shopVars
<1>2. CASE here' = {}
    BY <1>1, <1>2 DEF OneAtATime
<1>3. CASE here' # {}
    <2>1. here' = here /\ here \subseteq DOMAIN posts /\ carts' = carts
        BY <1>3 DEF PageInv, shopVars
    <2>2. \A p \in here : /\ Placed(p)' = Placed(p)
                          /\ AtWork(posts'[p]) = AtWork(posts[p])
                          /\ posts'[p].kind = posts[p].kind
        BY <2>1 DEF SamePosts, Placed, AtWork
    <2> QED
        BY <1>1, <1>3, <2>1, <2>2 DEF OneAtATime
<1> QED
    BY <1>2, <1>3

\* A checkout is all that changes the shopper's cart, and empties it.
LEMMA CartEmptied ==
    ASSUME StateInv, TabInv, Calm, CartAtStake, DoneInv',
           NEW r \in Slot, Proceed(r), Answered(r, posts)
    PROVE  /\ carts'[Shopper] \in {carts[Shopper], NoCart}
           /\ req[r].pc = "place" => carts'[Shopper] = NoCart
           /\ products' = products
<1>1. Goes(r) /\ Shopper \in DOMAIN carts
    BY ServedPosts, TabAssumption DEF StateInv
<1>2. PICK p \in DOMAIN posts : req[r].pc \in WorkOf(posts[p].kind) /\ OwnerOf(req[r]) = Shopper
    BY ServedPosts DEF Calm
<1>3. req[r].pc \notin {"cart", "price"}
    BY <1>2 DEF Calm, SavesCart, WorkOf
<1>4. ASSUME req[r].pc = "place" PROVE carts'[Shopper] = NoCart
    <2>1. carts' = [carts EXCEPT ![Shopper] = Emptied(carts[Shopper], req[r].cart.id)]
        BY <1>1, <1>2, <1>4 DEF Goes
    <2>2. carts[Shopper] \in {req[r].cart, NoCart}
        BY <1>4 DEF CartAtStake
    <2> QED
        BY <1>1, <2>1, <2>2 DEF Emptied
<1> QED
    BY <1>1, <1>3, <1>4 DEF Goes

LEMMA NextStay ==
    ASSUME StateInv, TabInv, StayInv, [ShopNext]_allVars
    PROVE  StayInv'
<1> DEFINE Goal == CartAtStake' /\ EmptyIsEmpty' /\ OneAtATime'
<1>0. PostsServed /\ PageInv /\ OwnInv /\ here \subseteq DOMAIN posts /\ DoneInv'
      /\ (page' = Closed <=> page = Closed) /\ (here # {} => page.view = "cart")
    BY StoreSteps, NextDone, NextPage DEF TabInv, PageInv
<1>1. ASSUME Calm', DOMAIN posts \subseteq DOMAIN posts', excuse \subseteq excuse',
             \A p \in DOMAIN posts : posts'[p].kind = posts[p].kind
      PROVE  Calm /\ CartAtStake /\ EmptyIsEmpty /\ OneAtATime
    <2>1. Calm
        BY <1>0, <1>1 DEF Calm, SavesCart
    <2> QED
        BY <2>1 DEF StayInv
<1>2. ASSUME UNCHANGED tabVars, page = Closed \/ UNCHANGED shopVars PROVE StayInv'
    <2>1. CASE page = Closed
        BY <1>0, <2>1 DEF StayInv, Calm
    <2>2. CASE UNCHANGED shopVars
        <3>1. \A part : Current(part)' = Current(part)
            BY <1>2, <2>2, SameCurrent DEF tabVars, screenVars, shopVars
        <3> QED
            BY <1>2, <2>2, <3>1 DEF tabVars, screenVars, shopVars, StayInv, Calm, SavesCart,
                                    CartAtStake, EmptyIsEmpty, OneAtATime, Placed
    <2> QED
        BY <1>2, <2>1, <2>2
<1>3. ASSUME NEW r \in Slot, Touch(r), Calm' PROVE Goal
    <2> DEFINE n == Len(posts) + 1
    <2>1. PICK kind, skus, id, x :
            Pressed(r, kind, x) /\ Sent(r, kind, skus, id) /\ (kind = "order" => skus = {})
        BY <1>3, Presses
    <2>2. NewPost(r, kind, skus, x) /\ SlotsKept(r) /\ req'[r] = x
        BY <1>0, <2>1, PressedPosts
    <2>3. UNCHANGED <<page, render, order, excuse, carts, books, products>>
        BY <2>1 DEF Pressed, Sent
    <2>4. /\ DOMAIN posts' = DOMAIN posts \cup {n} /\ n \notin DOMAIN posts
          /\ \A p \in DOMAIN posts : posts'[p] = posts[p]
          /\ posts'[n].kind = kind /\ posts'[n].ordered = NoCart.id
          /\ AtWork(posts'[n]) => x.pc # "done"
          /\ busy' = busy \cup {n} /\ here' \subseteq here \cup {n}
        BY <2>1, <2>2 DEF NewPost, Sent
    <2> HIDE DEF n
    <2>5. Calm /\ CartAtStake /\ EmptyIsEmpty /\ OneAtATime
        BY <1>1, <1>3, <2>3, <2>4
    <2>6. kind \notin {"add", "remove"}
        BY <1>3, <2>4 DEF Calm, SavesCart
    <2>7. x.pc \in {"address", "prices", "place"} => kind = "order" /\ x.cart = carts[Shopper]
        BY <2>1, <2>6 DEF Pressed, WorkOf
    <2>8. CartAtStake'
        BY <2>2, <2>3, <2>5, <2>7 DEF CartAtStake, SlotsKept, Idle
    <2>9. EmptyIsEmpty'
        <3>1. Current("cart")' = Current("cart")
            BY <2>3, SameCurrent
        <3> QED
            BY <2>3, <2>5, <3>1 DEF EmptyIsEmpty
    <2>10. \A p \in DOMAIN posts : Placed(p)' = Placed(p)
        BY <2>4 DEF Placed
    <2>11. \A p \in here' : Placed(p)' => p \in here /\ Placed(p)
        BY <1>0, <2>4, <2>10 DEF Placed
    <2>12. ASSUME kind = "order", NEW q \in here, posts[q].kind = "order"
           PROVE  ~AtWork(posts[q]) /\ (x.pc # "done" => ~Placed(q))
        <3>1. q \notin busy /\ page.lines # {}
            <4>1. posts[q].skus = {} /\ ~Disabled(kind, skus) /\ skus = {} /\ OnCart
                BY <1>0, <2>1, <2>12 DEF PostsServed, IsPost, Sent, Pressed
            <4> QED
                BY <2>12, <4>1 DEF Disabled, OnCart
        <3>2. x.pc # "done" => carts[Shopper] # NoCart
            BY <2>1, <2>12 DEF Pressed
        <3> QED
            BY <2>5, <2>12, <3>1, <3>2 DEF OneAtATime
    <2>13. OneAtATime'
        <3>1. \A p \in here' : posts'[p].kind = "order" /\ AtWork(posts'[p])
                               => p \in busy' \/ page'.lines = {}
            BY <1>0, <2>3, <2>4, <2>5 DEF OneAtATime
        <3>2. ASSUME NEW p \in here', NEW q \in here', p # q, posts'[p].kind = "order",
                     posts'[q].kind = "order", AtWork(posts'[p])
              PROVE  ~AtWork(posts'[q]) /\ ~Placed(q)'
            <4>1. CASE p = n
                <5>1. q \in here /\ posts'[q] = posts[q] /\ kind = "order" /\ x.pc # "done"
                    BY <1>0, <2>4, <3>2, <4>1
                <5> QED
                    BY <1>0, <2>10, <2>12, <3>2, <5>1
            <4>2. CASE q = n
                <5>1. p \in here /\ posts'[p] = posts[p] /\ kind = "order"
                    BY <1>0, <2>4, <3>2, <4>2
                <5> QED
                    BY <2>12, <3>2, <5>1
            <4>3. CASE p # n /\ q # n
                <5>1. p \in here /\ q \in here /\ posts'[p] = posts[p] /\ posts'[q] = posts[q]
                    BY <1>0, <2>4, <4>3
                <5> QED
                    BY <1>0, <2>5, <2>10, <3>2, <5>1 DEF OneAtATime
            <4> QED
                BY <4>1, <4>2, <4>3
        <3> QED
            BY <2>3, <2>5, <2>11, <3>1, <3>2 DEF OneAtATime
    <2> QED
        BY <2>8, <2>9, <2>13
<1>4. ASSUME NEW r \in Slot, Proceed(r), Answered(r, posts), UNCHANGED screenVars, Calm'
      PROVE  Goal
    <2>1. /\ Goes(r) /\ DOMAIN posts' = DOMAIN posts
          /\ \A p \in DOMAIN posts : posts'[p] = posts[p] \/ AnsweredNow(r, p)
        BY <1>0, <1>4, ServedPosts
    <2>2. UNCHANGED <<page, busy, here, render, excuse>>
        BY <1>4 DEF screenVars
    <2>3. Calm /\ CartAtStake /\ EmptyIsEmpty /\ OneAtATime
        BY <1>1, <1>4, <2>1, <2>2 DEF AnsweredNow
    <2>4. /\ carts'[Shopper] \in {carts[Shopper], NoCart}
          /\ req[r].pc = "place" => carts'[Shopper] = NoCart
          /\ products' = products
        BY <1>0, <1>4, <2>3, CartEmptied
    <2>5. CartAtStake'
        <3>1. ASSUME NEW s \in Slot, req'[s].pc \in {"address", "prices", "place"}
              PROVE  req[s].pc \in {"address", "prices", "place"} /\ req'[s].cart = req[s].cart
            <4>1. CASE s # r
                BY <2>1, <3>1, <4>1 DEF Goes
            <4>2. CASE s = r
                BY <2>1, <3>1, <4>2, Endings DEF Goes, Ended
            <4> QED
                BY <4>1, <4>2
        <3> QED
            BY <2>3, <2>4, <3>1 DEF CartAtStake
    <2>6. EmptyIsEmpty'
        <3>1. Current("cart")' = Current("cart") \/ Current("cart")' = {}
            <4> DEFINE ForSale(cart) == DOMAIN Priced(cart.lines, CurrentPrices)
            <4>1. CurrentPrices' = CurrentPrices
                BY <2>4 DEF CurrentPrices
            <4>2. Current("cart") = ForSale(carts[Shopper]) /\ Current("cart")' = ForSale(carts'[Shopper])
                BY <4>1 DEF Current, LinesOf
            <4>3. ForSale(NoCart) = {}
                BY DEF NoCart, Cart, NoLines, Priced, Restrict
            <4> HIDE DEF ForSale
            <4> QED
                BY <2>4, <4>2, <4>3
        <3> QED
            BY <2>2, <2>3, <3>1 DEF EmptyIsEmpty
    <2>7. \A p \in here : AtWork(posts'[p]) => posts'[p] = posts[p]
        BY <1>0, <2>1 DEF AnsweredNow
    <2>8. \A p \in here : posts'[p].kind = posts[p].kind
        BY <1>0, <2>1 DEF AnsweredNow
    <2>9. ASSUME NEW p \in here, Placed(p)'
          PROVE  \/ Placed(p)
                 \/ posts[p].kind = "order" /\ AtWork(posts[p]) /\ posts[p].slot = r /\ req[r].pc = "place"
        BY <1>0, <2>1, <2>9 DEF AnsweredNow, Placed
    <2>10. \A p \in here : Placed(p) => posts[p].kind = "order"
        BY <1>0 DEF Placed, PostsServed, IsPost
    <2>11. OneAtATime'
        <3>1. \A p \in here' : Placed(p)' => carts'[Shopper] = NoCart
            BY <2>2, <2>3, <2>4, <2>9 DEF OneAtATime
        <3>2. \A p \in here' : posts'[p].kind = "order" /\ AtWork(posts'[p])
                               => p \in busy' \/ page'.lines = {}
            BY <2>2, <2>3, <2>7 DEF OneAtATime
        <3>3. ASSUME NEW p \in here, NEW q \in here, p # q, posts'[p].kind = "order",
                     posts'[q].kind = "order", AtWork(posts'[p])
              PROVE  ~AtWork(posts'[q]) /\ ~Placed(q)'
            <4>1. posts[p].kind = "order" /\ posts[q].kind = "order" /\ AtWork(posts[p])
                BY <2>7, <2>8, <3>3
            <4>2. ~AtWork(posts[q]) /\ ~Placed(q)
                BY <2>3, <3>3, <4>1 DEF OneAtATime
            <4> QED
                BY <2>7, <2>9, <4>2
        <3>4. ASSUME NEW p \in here, NEW q \in here, Placed(p)', Placed(q)' PROVE p = q
            <4>1. posts[p].kind = "order" /\ posts[q].kind = "order"
                BY <2>9, <2>10, <3>4
            <4> QED
                BY <2>3, <2>9, <3>4, <4>1 DEF OneAtATime
        <3> QED
            BY <2>2, <3>1, <3>2, <3>3, <3>4 DEF OneAtATime
    <2> QED
        BY <2>5, <2>6, <2>11
<1>5. ASSUME UNCHANGED shopVars, PressCancel, Calm' PROVE Goal
    <2>1. /\ DOMAIN posts \subseteq DOMAIN posts'
          /\ \A p \in DOMAIN posts : posts'[p] = posts[p]
        BY <1>0, <1>5, OneMore DEF PressCancel, PostsServed
    <2>2. page.view = "order" /\ UNCHANGED <<page, here, render, excuse>>
        BY <1>5 DEF PressCancel
    <2>3. CartAtStake /\ here = {}
        BY <1>0, <1>1, <1>5, <2>1, <2>2
    <2> QED
        BY <1>5, <2>2, <2>3 DEF CartAtStake, EmptyIsEmpty, OneAtATime, shopVars
<1>6. ASSUME UNCHANGED shopVars, SamePosts, Calm', excuse \subseteq excuse'
      PROVE  Calm /\ CartAtStake /\ EmptyIsEmpty /\ OneAtATime /\ Current("cart")' = Current("cart")
    <2>1. carts' = carts /\ products' = products
        BY <1>6 DEF shopVars
    <2>2. Current("cart")' = Current("cart")
        BY <2>1 DEF Current, LinesOf, CurrentPrices
    <2> QED
        BY <1>1, <1>6, <2>2 DEF SamePosts
<1>7. ASSUME UNCHANGED shopVars, NEW p \in DOMAIN posts, NEW accepted, NEW code,
             Conclude(p, accepted, code), excuse \subseteq excuse', Calm', ~AtWork(posts[p])
      PROVE  Goal
    <2>1. SamePosts
        <3>1. Replies(p, Taken)
            BY <1>0, <1>7, Concluded
        <3> QED
            BY <3>1 DEF Replies, SamePosts
    <2>2. Calm /\ CartAtStake /\ EmptyIsEmpty /\ OneAtATime /\ Current("cart")' = Current("cart")
        BY <1>6, <1>7, <2>1
    <2>3. CASE SentToOrder(p, code)
        <3>1. here' = {} /\ page'.view = "order"
            BY <2>3, NewPages DEF SentToOrder
        <3>2. EmptyIsEmpty'
            BY <3>1 DEF EmptyIsEmpty
        <3> QED
            BY <1>0, <1>7, <2>1, <2>2, <3>1, <3>2, SameAtStake
    <2>4. CASE /\ StaysOn(p, code)
               /\ IF Reloads(posts[p].kind, accepted) THEN Refresh ELSE render' = render
        <3>1. /\ page'.view = page.view /\ (page.view = "cart" => page'.lines = page.lines)
              /\ here' = here /\ busy' = busy \ {p}
            BY <2>4 DEF StaysOn
        <3>2. \/ render' = render
              \/ DOMAIN render'.got = {}
              \/ render # NoRender /\ render'.got = render.got
            BY <1>0, <2>4, Refreshed DEF PageInv
        <3>3. EmptyIsEmpty'
            BY <2>2, <3>1, <3>2 DEF EmptyIsEmpty
        <3>4. \/ here' = {}
              \/ /\ here' = here
                 /\ \A q \in here : AtWork(posts[q]) /\ q \in busy => q \in busy' \/ page'.lines = {}
                 /\ page.lines = {} => page'.lines = {}
            BY <1>0, <1>7, <3>1
        <3> QED
            BY <1>0, <1>7, <2>1, <2>2, <3>3, <3>4, SameAtStake
    <2> QED
        BY <1>0, <1>7, <2>3, <2>4, Concluded
<1>8. ASSUME UNCHANGED shopVars, NEW p \in DOMAIN posts, Break(p) \/ Settle(p), Calm' PROVE Goal
    <2>1. CASE Break(p)
        BY <1>7, <1>8, <2>1, Lost DEF Calm
    <2>2. CASE Settle(p)
        BY <1>0, <1>7, <1>8, <2>2, Heard
    <2> QED
        BY <1>8, <2>1, <2>2
<1>9. ASSUME UNCHANGED shopVars, SamePosts, UNCHANGED <<busy, here, render>>,
             excuse \subseteq excuse', Calm',
             page'.view = page.view /\ (page.view = "cart" => page'.lines = page.lines)
      PROVE  Goal
    <2>1. Calm /\ CartAtStake /\ EmptyIsEmpty /\ OneAtATime /\ Current("cart")' = Current("cart")
        BY <1>6, <1>9
    <2>2. EmptyIsEmpty'
        BY <1>9, <2>1 DEF EmptyIsEmpty
    <2>3. \/ here' = {}
          \/ /\ here' = here
             /\ \A q \in here : AtWork(posts[q]) /\ q \in busy => q \in busy' \/ page'.lines = {}
             /\ page.lines = {} => page'.lines = {}
        BY <1>0, <1>9
    <2> QED
        BY <1>0, <1>9, <2>1, <2>2, <2>3, SameAtStake
<1>10. ASSUME UNCHANGED shopVars, NEW p \in DOMAIN posts, ServeCancel(p), Calm' PROVE Goal
    <2>1. PICK answer : posts' = [posts EXCEPT ![p].answer = answer]
        BY <1>10 DEF ServeCancel
    <2>2. SamePosts
        BY <1>0, <2>1, Replied DEF Replies, SamePosts
    <2> QED
        BY <1>9, <1>10, <2>2 DEF ServeCancel
<1>11. ASSUME UNCHANGED shopVars, RefundEnds, Calm' PROVE Goal
    BY <1>9, <1>11 DEF RefundEnds, SamePosts
<1>12. ASSUME UNCHANGED shopVars, NEW a, Pick(a), Calm' PROVE Goal
    <2>1. page' = CartPage(page.lines, page.book, a, page.reason) /\ page.view = "cart"
        BY <1>0, <1>12, CartFields DEF Pick, OnCart, PageInv
    <2>2. page'.view = page.view /\ page'.lines = page.lines
        BY <2>1, NewPages
    <2> QED
        BY <1>9, <1>12, <2>2 DEF Pick, SamePosts
<1>13. ASSUME UNCHANGED shopVars, Leave \/ Visit \/ FetchFails, Calm' PROVE Goal
    <2>1. /\ SamePosts /\ excuse' = excuse /\ here' = {} /\ page'.view \in {"product", "opening"}
          /\ render' = NoRender \/ render' = Rendering(NothingYet, FALSE)
        <3>1. CASE Leave \/ Visit
            BY <1>0, <3>1, NewPages DEF Leave, Visit, SamePosts
        <3>2. CASE FetchFails
            BY <1>0, <3>2, Failures DEF SamePosts
        <3> QED
            BY <1>13, <3>1, <3>2
    <2>2. EmptyIsEmpty'
        BY <2>1, NewRenders DEF EmptyIsEmpty
    <2> QED
        BY <1>0, <1>6, <1>13, <2>1, <2>2, SameAtStake
<1>14. ASSUME UNCHANGED shopVars, Show, Calm' PROVE Goal
    <2>1. /\ SamePosts /\ excuse' = excuse /\ here' = here
          /\ render' = NoRender \/ render' = Rendering(NothingYet, FALSE)
        BY <1>0, <1>14, Shows DEF SamePosts
    <2>2. CartAtStake /\ EmptyIsEmpty /\ OneAtATime /\ Current("cart")' = Current("cart")
        BY <1>6, <1>14, <2>1
    <2>3. CASE page.view = "order"
        <3>1. page'.view = "order" /\ here' = {}
            BY <1>0, <1>14, <2>1, <2>3, Shows, NewPages
        <3>2. EmptyIsEmpty'
            BY <3>1 DEF EmptyIsEmpty
        <3> QED
            BY <1>0, <1>14, <2>1, <2>2, <3>1, <3>2, SameAtStake
    <2>4. CASE page.view # "order"
        <3>1. /\ render # NoRender /\ "cart" \in DOMAIN render.got
              /\ page'.view = "cart" /\ page'.lines = render.got["cart"]
              /\ busy' = {p \in busy : Mounted(p, page'.lines)}
            BY <1>0, <1>14, <2>4, Shows DEF Parts
        <3>2. EmptyIsEmpty'
            <4>1. render' = NoRender \/ DOMAIN render'.got = {}
                BY <2>1, NewRenders
            <4>2. render.got["cart"] = {} => Current("cart")' = {}
                BY <2>2, <2>4, <3>1 DEF EmptyIsEmpty
            <4> QED
                BY <3>1, <4>1, <4>2 DEF EmptyIsEmpty
        <3>3. \/ here' = {}
              \/ /\ here' = here
                 /\ \A q \in here : AtWork(posts[q]) /\ q \in busy => q \in busy' \/ page'.lines = {}
                 /\ page.lines = {} => page'.lines = {}
            <4>1. \A q \in here : q \in busy => q \in busy' \/ page'.lines = {}
                <5>1. \A q \in DOMAIN posts : posts[q].kind # "remove"
                    BY <1>14, <2>1 DEF Calm, SavesCart, SamePosts
                <5> QED
                    BY <1>0, <3>1, <5>1 DEF Mounted
            <4> QED
                BY <1>0, <2>1, <2>2, <2>4, <3>1, <4>1 DEF EmptyIsEmpty
        <3> QED
            BY <1>0, <1>14, <2>1, <2>2, <3>2, <3>3, SameAtStake
    <2> QED
        BY <2>3, <2>4
<1>15. ASSUME UNCHANGED shopVars, NEW part, Fetch(part), Calm' PROVE Goal
    <2>1. SamePosts /\ UNCHANGED <<page, busy, here, excuse>>
        BY <1>0, <1>15, Fetches DEF SamePosts
    <2>2. CartAtStake /\ EmptyIsEmpty /\ OneAtATime /\ Current("cart")' = Current("cart")
        BY <1>6, <1>15, <2>1
    <2>3. CartAtStake' /\ OneAtATime'
        BY <1>0, <1>15, <2>1, <2>2, SameAtStake
    <2>4. EmptyIsEmpty'
        <3>1. CASE part = "cart"
            BY <1>0, <1>15, <2>1, <2>2, <3>1, Fetches DEF EmptyIsEmpty
        <3>2. CASE part # "cart"
            BY <1>0, <1>15, <2>1, <2>2, <3>2, Fetches DEF EmptyIsEmpty
        <3> QED
            BY <3>1, <3>2
    <2> QED
        BY <2>3, <2>4
<1> QED
    <2> SUFFICES ASSUME Calm' PROVE Goal \/ StayInv'
        BY DEF StayInv
    <2> QED
        BY <1>2, <1>3, <1>4, <1>5, <1>8, <1>10, <1>11, <1>12, <1>13, <1>14, <1>15, TabSteps
           DEF TabMoves

\* A shopper who stays on a page and presses again after a failure orders a
\* cart there once, unless an answer was lost or the tab changed the cart.
THEOREM StayOrdersOnce == ShopSpec => []OrderedOncePerStay
<1>1. ShopInit => StoreInv /\ TabInv /\ StayInv
    <2> SUFFICES ASSUME ShopInit PROVE StayInv
        BY StoreInit, TabBegins DEF ShopInit
    <2>1. /\ here = {} /\ render = NoRender
          /\ page = Closed \/ page.lines = Current("cart")
        BY NewPages DEF ShopInit, TabInit
    <2>2. \A r \in Slot : req[r].pc = "idle"
        BY DEF ShopInit, Init, Idle
    <2> QED
        BY <2>1, <2>2 DEF StayInv, Calm, CartAtStake, EmptyIsEmpty, OneAtATime
<1>2. StoreInv /\ TabInv /\ StayInv /\ [ShopNext]_allVars => StoreInv' /\ TabInv' /\ StayInv'
    BY StoreStep, TabGoesOn, NextStay DEF StoreInv
<1>3. TabInv /\ StayInv => OrderedOncePerStay
    <2> SUFFICES ASSUME TabInv, StayInv, "lost" \notin excuse, \A p \in DOMAIN posts : ~SavesCart(p),
                        NEW p \in here, NEW q \in here, Placed(p), posts[p].ordered = posts[q].ordered
                 PROVE  p = q
        BY DEF OrderedOncePerStay
    <2>1. page # Closed
        BY DEF TabInv, PageInv
    <2> QED
        BY <2>1 DEF StayInv, Calm, OneAtATime, Placed
<1> QED
    BY <1>1, <1>2, <1>3, PTL DEF ShopSpec
-----------------------------------------------------------------------------
(* Sums.  FoldFunction is a function on the parts of the domain, chosen by   *)
(* its recursive equation: that there is one takes an induction, by the      *)
(* least size of a part that would have none.                                *)

\* The sum over a part of f that takes one element after the other.
First(s) == CHOOSE x \in s : TRUE
SumStep(f, s, rest) == f[First(s)] + rest[s \ {First(s)}]
SumsUp(f, sum, parts) == sum = [s \in parts |-> IF s = {} THEN 0 ELSE SumStep(f, s, sum)]
PartsUpTo(S, n) == {s \in SUBSET S : Cardinality(s) <= n}

\* A set of numbers has a least one.
LEMMA Least ==
    ASSUME NEW T, T \subseteq Nat, T # {}
    PROVE  \E n \in T : \A m \in T : n <= m
<1> DEFINE R == OpToRel(<, Nat)
<1>1. IsWellFoundedOn(R, Nat)
    BY NatLessThanWellFounded
<1>2. PICK n \in T : \A m \in T : <<m, n>> \notin R
    BY <1>1, WFMin
<1>3. \A m \in T : <<m, n>> \in R <=> m < n
    BY DEF OpToRel
<1> HIDE DEF R
<1>4. \A m \in T : ~(m < n)
    BY <1>2, <1>3
<1> QED
    BY <1>4

\* Parts of a finite set, and what is left of them when an element goes.
LEMMA Part ==
    ASSUME NEW S, IsFiniteSet(S), NEW s \in SUBSET S
    PROVE  /\ Cardinality(s) \in Nat /\ Cardinality(s) <= Cardinality(S)
           /\ (s = {} <=> Cardinality(s) = 0)
           /\ s # {} => /\ First(s) \in S
                        /\ s \ {First(s)} \in SUBSET S
                        /\ Cardinality(s \ {First(s)}) = Cardinality(s) - 1
<1>1. IsFiniteSet(s) /\ Cardinality(s) <= Cardinality(S)
    BY FS_Subset
<1>2. Cardinality(s) \in Nat /\ (Cardinality(s) = 0 <=> s = {})
    BY <1>1, FS_CardinalityType, FS_EmptySet
<1>3. ASSUME s # {} PROVE First(s) \in s
    BY <1>3 DEF First
<1>4. \A x \in s : Cardinality(s \ {x}) = Cardinality(s) - 1
    BY <1>1, FS_RemoveElement
<1> QED
    BY <1>1, <1>2, <1>3, <1>4

\* The sum that FoldFunction chooses exists.
LEMMA SumsExist ==
    ASSUME NEW f, IsFiniteSet(DOMAIN f), \A x \in DOMAIN f : f[x] \in Nat
    PROVE  \E sum : SumsUp(f, sum, SUBSET DOMAIN f)
<1> DEFINE S == DOMAIN f
           T == {n \in Nat : ~\E sum : SumsUp(f, sum, PartsUpTo(S, n))}
<1>0. \A s \in SUBSET S :
        /\ Cardinality(s) \in Nat /\ Cardinality(s) <= Cardinality(S)
        /\ (s = {} <=> Cardinality(s) = 0)
        /\ s # {} => /\ s \ {First(s)} \in SUBSET S
                     /\ Cardinality(s \ {First(s)}) = Cardinality(s) - 1
    BY Part
<1>1. SUFFICES T = {}
    <2>1. Cardinality(S) \in Nat
        BY <1>0
    <2>2. PartsUpTo(S, Cardinality(S)) = SUBSET S
        BY <1>0 DEF PartsUpTo
    <2>3. Cardinality(S) \notin T
        BY <1>1
    <2> QED
        BY <2>1, <2>2, <2>3
<1>2. SUFFICES ASSUME T # {} PROVE FALSE
    OBVIOUS
<1>3. PICK n \in T : \A m \in T : n <= m
    BY <1>2, Least
<1>4. CASE n = 0
    <2> DEFINE sum == [s \in PartsUpTo(S, 0) |-> 0]
    <2>1. ASSUME NEW s \in PartsUpTo(S, 0) PROVE s = {}
        <3>1. s \in SUBSET S /\ Cardinality(s) <= 0
            BY DEF PartsUpTo
        <3>2. Cardinality(s) \in Nat /\ (s = {} <=> Cardinality(s) = 0)
            BY <1>0, <3>1
        <3> QED
            BY <3>1, <3>2
    <2>2. SumsUp(f, sum, PartsUpTo(S, 0))
        BY <2>1 DEF SumsUp
    <2> QED
        BY <1>3, <1>4, <2>2
<1>5. CASE n # 0
    <2>1. n - 1 \in Nat /\ n \in Nat /\ n - 1 \notin T
        BY <1>3, <1>5
    <2>2. PICK sum : SumsUp(f, sum, PartsUpTo(S, n - 1))
        BY <2>1
    <2> DEFINE next == [s \in PartsUpTo(S, n) |-> IF s = {} THEN 0 ELSE SumStep(f, s, sum)]
    <2>3. \A s \in PartsUpTo(S, n - 1) : next[s] = sum[s]
        <3>1. ASSUME NEW s \in PartsUpTo(S, n - 1) PROVE s \in PartsUpTo(S, n)
            <4>1. s \in SUBSET S /\ Cardinality(s) <= n - 1
                BY DEF PartsUpTo
            <4>2. Cardinality(s) \in Nat
                BY <1>0, <4>1
            <4> QED
                BY <2>1, <4>1, <4>2 DEF PartsUpTo
        <3> QED
            BY <2>2, <3>1 DEF SumsUp
    <2> HIDE DEF next
    <2>4. ASSUME NEW s \in PartsUpTo(S, n), s # {} PROVE SumStep(f, s, sum) = SumStep(f, s, next)
        <3>1. s \ {First(s)} \in PartsUpTo(S, n - 1)
            BY <2>1, <2>4, <1>0 DEF PartsUpTo
        <3> QED
            BY <2>3, <3>1 DEF SumStep
    <2>5. SumsUp(f, next, PartsUpTo(S, n))
        BY <2>4 DEF SumsUp, next
    <2> QED
        BY <1>3, <2>5
<1> QED
    BY <1>3, <1>4, <1>5

\* Sums of positive numbers are positive.
LEMMA SumsArePositive ==
    ASSUME NEW f, IsFiniteSet(DOMAIN f), \A x \in DOMAIN f : f[x] \in Nat \ {0},
           NEW sum, SumsUp(f, sum, SUBSET DOMAIN f)
    PROVE  \A s \in SUBSET DOMAIN f : sum[s] \in Nat /\ (s # {} => sum[s] > 0)
<1> DEFINE S == DOMAIN f
           Good(s) == sum[s] \in Nat /\ (s # {} => sum[s] > 0)
           T == {n \in Nat : \E s \in SUBSET S : Cardinality(s) = n /\ ~Good(s)}
<1>1. SUFFICES ASSUME T # {} PROVE FALSE
    BY Part
<1>2. PICK n \in T : \A m \in T : n <= m
    BY <1>1, Least
<1>3. PICK s \in SUBSET S : Cardinality(s) = n /\ ~Good(s)
    BY <1>2
<1>4. CASE s = {}
    BY <1>3, <1>4 DEF SumsUp
<1>5. CASE s # {}
    <2> DEFINE x == First(s)
    <2>1. x \in S /\ s \ {x} \in SUBSET S /\ Cardinality(s \ {x}) = n - 1 /\ n \in Nat /\ n - 1 \in Nat
        BY <1>3, <1>5, Part
    <2>2. n - 1 \notin T
        BY <1>2, <2>1
    <2>3. Good(s \ {x})
        BY <2>1, <2>2
    <2>4. sum[s] = f[x] + sum[s \ {x}]
        BY <1>5 DEF SumsUp, SumStep
    <2> QED
        BY <1>3, <2>1, <2>3, <2>4
<1> QED
    BY <1>4, <1>5

\* So is what FoldFunction comes to.
LEMMA FoldIsPositive ==
    ASSUME NEW f, IsFiniteSet(DOMAIN f), DOMAIN f # {}, \A x \in DOMAIN f : f[x] \in Nat \ {0}
    PROVE  FoldFunction(+, 0, f) \in Nat \ {0}
<1> DEFINE sum == CHOOSE g : g = [s \in SUBSET DOMAIN f |->
                     IF s = {} THEN 0
                     ELSE f[CHOOSE x \in s : TRUE] + g[s \ {CHOOSE x \in s : TRUE}]]
<1>1. FoldFunction(+, 0, f) = sum[DOMAIN f]
    BY DEF FoldFunction, FoldFunctionOnSet, MapThenFoldSet
<1>2. SumsUp(f, sum, SUBSET DOMAIN f)
    BY SumsExist DEF SumsUp, SumStep, First
<1> HIDE DEF sum
<1>3. sum[DOMAIN f] \in Nat /\ sum[DOMAIN f] > 0
    BY <1>2, SumsArePositive
<1>4. sum[DOMAIN f] \in Nat \ {0}
    BY <1>3
<1> QED
    BY <1>1, <1>4, Zenon
-----------------------------------------------------------------------------
(* The stock desk again: none of its rows is oversold.                      *)

DeskCovered == \A s \in registered : stock[s].reserved \in 0..stock[s].onHand

\* What OptimisticProofs shows of the rows of the adapter.
LEMMA DeskStaysCovered == ShopSpec => []DeskCovered
<1>1. Adapter!Spec => []Adapter!RowsCovered
    BY DeskIsAdapter, Adapter!RowsStayCovered
<1>2. Adapter!RowsCovered => DeskCovered
    BY DEF Adapter!RowsCovered, DeskCovered
<1> QED
    BY <1>1, <1>2, DeskIsAdapter, PTL DEF ShopSpec, Adapter!Spec
-----------------------------------------------------------------------------
(* The rows of the storefront: all that its requests read can be read back. *)

GoodLines(lines) ==
    /\ DOMAIN lines \subseteq Skus
    /\ IsFiniteSet(DOMAIN lines)
    /\ Cardinality(DOMAIN lines) <= MaxLines
    /\ \A s \in DOMAIN lines : lines[s] \in Nat \ {0}
GoodBook(book) == \A a \in DOMAIN book : DetailsAccepted(book[a].details)
GoodProduct(product) ==
    /\ DOMAIN product.prices # {}
    /\ \A c \in DOMAIN product.prices : product.prices[c].amount \in Nat \ {0}
GoodOrder(o) == o.lines # NoLines /\ o.total.amount > 0

\* What a request is about to save.
GoodWork(x) ==
    /\ x.pc \in {"cart", "address", "prices"} => GoodLines(x.cart.lines)
    /\ x.pc = "place" => GoodOrder(x.order)
    /\ x.pc \in {"prune", "write"} => GoodBook(x.book)
    /\ x.pc = "price" => GoodProduct(x.product)

GoodsInv ==
    /\ \A k \in Customer : GoodLines(LinesOf(k)) /\ GoodBook(books[k])
    /\ \A p \in DOMAIN products : GoodProduct(products[p])
    /\ \A i \in DOMAIN orders : GoodOrder(orders[i].order)
    /\ \A r \in Slot : GoodWork(req[r])

\* An accepted change of a cart leaves it within its limit and every line with
\* at least one unit.
LEMMA GoodCart ==
    ASSUME NEW lines, GoodLines(lines), NEW op \in CartOps, QuantityAccepted(op),
           CartVerdict(lines, op, MaxLines) = "OK"
    PROVE  GoodLines(CartAfter(lines, op))
<1>0. /\ op.kind \in {"add", "change", "remove"} /\ op.sku \in Skus
      /\ op.kind # "remove" => op.quantity \in Nat \ {0}
    BY StorefrontAssumption DEF CartOps, CartOp, QuantityAccepted
<1>1. Cardinality(DOMAIN lines) \in Nat /\ MaxLines \in Nat
    BY FS_CardinalityType, StorefrontAssumption DEF GoodLines
<1>2. ASSUME NEW q \in Nat \ {0}, op.kind # "remove" PROVE GoodLines(WithLine(lines, op.sku, q))
    <2> DEFINE more == WithLine(lines, op.sku, q)
    <2>1. DOMAIN more = DOMAIN lines \cup {op.sku} /\ \A s \in DOMAIN more : more[s] \in Nat \ {0}
        BY <1>2 DEF WithLine, GoodLines
    <2> SUFFICES GoodLines(more)
        OBVIOUS
    <2> HIDE DEF more
    <2>2. CASE op.sku \in DOMAIN lines
        <3>1. DOMAIN more = DOMAIN lines
            BY <2>1, <2>2
        <3> QED
            BY <2>1, <3>1 DEF GoodLines
    <2>3. CASE op.sku \notin DOMAIN lines
        <3>1. Cardinality(DOMAIN lines) < MaxLines
            BY <1>0, <1>1, <1>2, <2>3 DEF CartVerdict, HasLine
        <3>2. IsFiniteSet(DOMAIN more) /\ Cardinality(DOMAIN more) = Cardinality(DOMAIN lines) + 1
            BY <2>1, <2>3, FS_AddElement DEF GoodLines
        <3> QED
            BY <1>0, <1>1, <2>1, <3>1, <3>2 DEF GoodLines
    <2> QED
        BY <2>2, <2>3
<1>3. CASE op.kind = "add"
    <2> DEFINE q == IF HasLine(lines, op.sku) THEN lines[op.sku] + op.quantity ELSE op.quantity
    <2>1. q \in Nat \ {0}
        BY <1>0, <1>3 DEF GoodLines, HasLine
    <2>2. CartAfter(lines, op) = WithLine(lines, op.sku, q)
        BY <1>3 DEF CartAfter, Added
    <2> HIDE DEF q
    <2> QED
        BY <1>2, <1>3, <2>1, <2>2
<1>4. CASE op.kind = "change"
    BY <1>0, <1>2, <1>4 DEF CartAfter
<1>5. CASE op.kind = "remove"
    <2> DEFINE less == Removed(lines, op.sku)
    <2>1. DOMAIN less = DOMAIN lines \ {op.sku} /\ \A s \in DOMAIN less : less[s] = lines[s]
        BY DEF Removed, Restrict
    <2>2. CartAfter(lines, op) = less
        BY <1>5 DEF CartAfter
    <2> HIDE DEF less
    <2>3. IsFiniteSet(DOMAIN less) /\ Cardinality(DOMAIN less) <= Cardinality(DOMAIN lines)
        BY <2>1, FS_Subset DEF GoodLines
    <2>4. Cardinality(DOMAIN less) \in Nat
        BY <2>3, FS_CardinalityType
    <2> QED
        BY <1>1, <2>1, <2>2, <2>3, <2>4 DEF GoodLines
<1> QED
    BY <1>0, <1>3, <1>4, <1>5

\* A cart that does not exist yet has no lines.
LEMMA GoodNothing == GoodLines(NoLines)
<1>1. DOMAIN NoLines = {}
    BY DEF NoLines
<1>2. IsFiniteSet({}) /\ Cardinality({}) = 0
    BY FS_EmptySet
<1> QED
    BY <1>1, <1>2, StorefrontAssumption DEF GoodLines

\* What a save makes of a book says what addresses say.
LEMMA GoodBooks ==
    /\ \A book, op : /\ GoodBook(book)
                     /\ op.kind \in {"add", "update"} => DetailsAccepted(op.details)
                     => GoodBook(BookAfter(book, op))
    /\ \A book, pruned, memory :
          GoodBook(book) /\ GoodBook(memory) => GoodBook(Merged(book, pruned, memory))
<1>1. ASSUME NEW book, NEW id, NEW d, NEW b, GoodBook(book), DetailsAccepted(d)
      PROVE  GoodBook(WithAddress(book, id, Saved(d, b)))
    BY <1>1 DEF GoodBook, WithAddress, Saved
<1>2. ASSUME NEW book, NEW op, GoodBook(book),
             op.kind \in {"add", "update"} => DetailsAccepted(op.details)
      PROVE  GoodBook(BookAfter(book, op))
    <2>1. CASE op.kind \in {"add", "update"}
        BY <1>1, <1>2, <2>1 DEF BookAfter
    <2>2. CASE op.kind = "remove"
        BY <1>2, <2>2 DEF BookAfter, GoodBook, Restrict
    <2>3. CASE op.kind \notin {"add", "update", "remove"}
        BY <1>2, <2>3 DEF BookAfter, GoodBook, Saved
    <2> QED
        BY <2>1, <2>2, <2>3
<1>3. ASSUME NEW book, NEW pruned, NEW memory, GoodBook(book), GoodBook(memory)
      PROVE  GoodBook(Merged(book, pruned, memory))
    BY <1>3 DEF GoodBook, Merged
<1> QED
    BY <1>2, <1>3

\* Prices that were accepted.
LEMMA GoodPrices ==
    /\ \A m \in NewPrices : PriceAccepted(m) => m.amount \in Nat \ {0}
    /\ \A skus \in NewSkus : RegisterVerdict(skus) = "OK" => GoodProduct(RegisteredProduct(skus))
    /\ \A product, code : \A m \in NewPrices :
          GoodProduct(product) /\ PriceAccepted(m) => GoodProduct(Repriced(product, code, m))
    /\ \A status : GoodProduct(Opening(status))
<1>1. \A m \in NewPrices : PriceAccepted(m) => m.amount \in Nat \ {0}
    BY GoodsAssumption DEF PriceAccepted
<1>2. ASSUME NEW skus \in NewSkus, RegisterVerdict(skus) = "OK"
      PROVE  GoodProduct(RegisteredProduct(skus))
    <2>1. skus \in Seq([code : Code, price : NewPrices]) /\ skus # <<>>
          /\ \A i \in DOMAIN skus : PriceAccepted(skus[i].price)
        BY <1>2, GoodsAssumption DEF RegisterVerdict
    <2>2. 1 \in DOMAIN skus
        BY <2>1
    <2>3. Codes(skus) # {}
        BY <2>2 DEF Codes
    <2>4. ASSUME NEW c \in Codes(skus)
          PROVE  (CHOOSE i \in Range(skus) : i.code = c).price.amount \in Nat \ {0}
        <3>1. \E i \in Range(skus) : i.code = c
            BY DEF Codes, Range
        <3>2. PICK i \in Range(skus) : i = CHOOSE j \in Range(skus) : j.code = c
            BY <3>1
        <3>3. i.price \in NewPrices /\ PriceAccepted(i.price)
            <4>1. PICK j \in DOMAIN skus : i = skus[j]
                BY DEF Range
            <4>2. PriceAccepted(skus[j].price)
                BY <2>1, <4>1
            <4>3. skus \in Seq([code : Code, price : NewPrices])
                BY <2>1
            <4>4. \A S : skus \in Seq(S) => skus[j] \in S
                BY <4>1
            <4>5. skus[j] \in [code : Code, price : NewPrices]
                BY <4>3, <4>4, Zenon
            <4> QED
                BY <4>1, <4>2, <4>5
        <3> QED
            BY <1>1, <3>2, <3>3
    <2> QED
        BY <2>3, <2>4 DEF GoodProduct, RegisteredProduct, Product
<1>3. ASSUME NEW product, NEW code, NEW m \in NewPrices, GoodProduct(product), PriceAccepted(m)
      PROVE  GoodProduct(Repriced(product, code, m))
    BY <1>1, <1>3 DEF GoodProduct, Repriced, Product
<1>4. ASSUME NEW status PROVE GoodProduct(Opening(status))
    <2>1. PICK m \in NewPrices : PriceAccepted(m) /\ m = CHOOSE n \in NewPrices : PriceAccepted(n)
        BY GoodsAssumption
    <2> QED
        BY <1>1, <2>1, GoodsAssumption DEF GoodProduct, Opening, Product
<1> QED
    BY <1>1, <1>2, <1>3, <1>4

\* An order costs something, whatever its lines.
LEMMA GoodTotal ==
    ASSUME NEW x, GoodLines(x.cart.lines), x.cart.lines # NoLines,
           OrderVerdict(x.cart.lines, CurrentPrices) = "OK",
           \A p \in DOMAIN products : GoodProduct(products[p])
    PROVE  GoodOrder(PlacedOrder(x.customer, x.cart, CurrentPrices, x.to))
<1> DEFINE lines == x.cart.lines
           priced == Priced(lines, CurrentPrices)
           f == [s \in DOMAIN Subtotals(lines, priced) |-> Subtotals(lines, priced)[s].amount]
<1>1. DOMAIN lines # {} /\ DOMAIN lines \subseteq DOMAIN CurrentPrices
    BY DEF OrderVerdict, Missing
<1>2. \A s \in DOMAIN CurrentPrices : CurrentPrices[s].amount \in Nat \ {0}
    <2> SUFFICES ASSUME NEW s \in OnSale(products)
                 PROVE  products[s.product].prices[s.code].amount \in Nat \ {0}
        BY DEF CurrentPrices, PriceList
    <2>1. PICK p \in DOMAIN products : \E c \in DOMAIN products[p].prices : s = SkuOf(p, c)
        BY DEF OnSale
    <2> QED
        BY <2>1 DEF SkuOf, GoodProduct
<1>3. DOMAIN priced = DOMAIN lines /\ \A s \in DOMAIN lines : priced[s] = CurrentPrices[s]
    BY <1>1 DEF Priced, Restrict
<1>4. \A a, b \in Nat \ {0} : a * b \in Nat \ {0}
    OBVIOUS
<1> HIDE DEF priced
<1>5. /\ DOMAIN Subtotals(lines, priced) = DOMAIN lines
      /\ \A s \in DOMAIN lines : Subtotals(lines, priced)[s].amount = CurrentPrices[s].amount * lines[s]
    BY <1>3 DEF Subtotals, Times, Money
<1>6. DOMAIN f = DOMAIN lines /\ IsFiniteSet(DOMAIN f) /\ \A s \in DOMAIN f : f[s] \in Nat \ {0}
    BY <1>1, <1>2, <1>4, <1>5 DEF GoodLines
<1> HIDE DEF f
<1>7. FoldFunction(+, 0, f) \in Nat \ {0}
    BY <1>1, <1>6, FoldIsPositive
<1>8. SumOf(Subtotals(lines, priced)).amount = FoldFunction(+, 0, f)
    BY <1>1, <1>5, Zenon DEF SumOf, Money, f
<1> DEFINE o == PlacedOrder(x.customer, x.cart, CurrentPrices, x.to)
<1>9. o.lines = lines /\ o.total = SumOf(Subtotals(lines, priced))
    BY DEF PlacedOrder, priced
<1> HIDE DEF o
<1> DEFINE sum == FoldFunction(+, 0, f)
<1> HIDE DEF sum
<1>a. o.total.amount = sum
    BY <1>8, <1>9, Zenon DEF sum
<1>b. sum \in Nat \ {0}
    BY <1>7, Zenon DEF sum
<1>10. o.total.amount > 0
    BY <1>a, <1>b
<1>11. GoodOrder(o)
    BY <1>9, <1>10 DEF GoodOrder
<1> QED
    BY <1>11 DEF o

\* Requests begin with what is committed.
LEMMA GoodBeginnings ==
    ASSUME GoodsInv
    PROVE  /\ \A k \in Customer, op \in CartOps : GoodWork(CartState(k, op))
           /\ \A k \in Customer : \A address : GoodWork(CheckoutState(k, address))
           /\ \A k \in Customer, op \in AddressOps : GoodWork(BookState(k, op))
           /\ \A p \in ProductId, c \in Code, m \in NewPrices : GoodWork(PriceState(p, c, m))
<1>0. /\ \A x : x.pc = "done" => GoodWork(x)
      /\ \A error : Refused(error).pc = "done"
    BY DEF GoodWork, Refused, Done
<1>1. ASSUME NEW k \in Customer, NEW op \in CartOps PROVE GoodWork(CartState(k, op))
    <2> DEFINE cart == IF carts[k] # NoCart THEN carts[k] ELSE NewCart(lastId + 1)
    <2>1. GoodLines(cart.lines)
        BY GoodNothing DEF GoodsInv, LinesOf, NewCart, Cart
    <2> HIDE DEF cart
    <2>2. \/ \E error : CartState(k, op) = Refused(error)
          \/ /\ QuantityAccepted(op)
             /\ CartVerdict(cart.lines, op, MaxLines) = "OK"
             /\ CartState(k, op) = [pc |-> "cart", customer |-> k, op |-> op, seen |-> carts[k],
                                    cart |-> Cart(cart.id, CartAfter(cart.lines, op))]
        BY DEF CartState, cart
    <2>3. QuantityAccepted(op) /\ CartVerdict(cart.lines, op, MaxLines) = "OK"
            => GoodLines(CartAfter(cart.lines, op))
        BY <2>1, GoodCart
    <2>4. \A id, lines, x : x = Cart(id, lines) => x.lines = lines
        BY DEF Cart
    <2> QED
        BY <1>0, <2>2, <2>3, <2>4 DEF GoodWork
<1>2. ASSUME NEW k \in Customer, NEW address PROVE GoodWork(CheckoutState(k, address))
    <2>1. GoodLines(carts[k].lines)
        BY DEF GoodsInv, LinesOf
    <2> QED
        BY <1>0, <2>1 DEF CheckoutState, GoodWork
<1>3. ASSUME NEW k \in Customer, NEW op \in AddressOps PROVE GoodWork(BookState(k, op))
    <2>1. \/ \E error : BookState(k, op) = Refused(error)
          \/ /\ op.kind \in {"add", "update"} => DetailsAccepted(op.details)
             /\ BookState(k, op) = [pc |-> "prune", customer |-> k, op |-> Asked(op),
                                    seen |-> books[k], book |-> BookAfter(books[k], Asked(op))]
        BY DEF BookState
    <2>2. Asked(op).kind = op.kind /\ Asked(op).details = op.details
        BY DEF Asked, AddressOp
    <2>3. GoodBook(books[k])
        BY DEF GoodsInv
    <2>4. (op.kind \in {"add", "update"} => DetailsAccepted(op.details))
            => GoodBook(BookAfter(books[k], Asked(op)))
        BY <2>2, <2>3, GoodBooks
    <2> QED
        BY <1>0, <2>1, <2>4 DEF GoodWork
<1>4. ASSUME NEW p \in ProductId, NEW c \in Code, NEW m \in NewPrices
      PROVE  GoodWork(PriceState(p, c, m))
    <2>1. \/ \E error : PriceState(p, c, m) = Refused(error)
          \/ /\ PriceAccepted(m) /\ p \in DOMAIN products
             /\ PriceState(p, c, m) = [pc |-> "price", id |-> p, op |-> NewSku(c, m),
                                       seen |-> products[p], product |-> Repriced(products[p], c, m)]
        BY DEF PriceState
    <2>2. PriceAccepted(m) /\ p \in DOMAIN products => GoodProduct(Repriced(products[p], c, m))
        BY GoodPrices DEF GoodsInv
    <2> QED
        BY <1>0, <2>1, <2>2 DEF GoodWork
<1> QED
    BY <1>1, <1>2, <1>3, <1>4

\* An empty shop, or one with a product, a line in a cart and an address.
LEMMA GoodsBegin == Init => GoodsInv
<1> SUFFICES ASSUME Init PROVE GoodsInv
    OBVIOUS
<1>1. NoCart.lines = NoLines /\ GoodLines(NoLines) /\ GoodBook(NoAddresses)
    BY GoodNothing DEF NoCart, Cart, GoodBook, NoAddresses
<1>2. orders = <<>> /\ \A r \in Slot : req[r].pc = "idle"
    BY DEF Init, Idle
<1>3. (\A i \in DOMAIN orders : GoodOrder(orders[i].order)) /\ \A r \in Slot : GoodWork(req[r])
    BY <1>2 DEF GoodWork
<1>4. CASE /\ products = [p \in {} |-> Product("ACTIVE", NoLines)]
           /\ carts = [k \in Customer |-> NoCart]
           /\ books = [k \in Customer |-> NoAddresses]
    BY <1>1, <1>3, <1>4 DEF GoodsInv, LinesOf
<1>5. ASSUME NEW p \in ProductId, NEW k \in Customer, NEW status \in {"ACTIVE", "ARCHIVED"},
             products = [q \in {p} |-> Opening(status)],
             carts = [j \in Customer |-> IF j # k THEN NoCart
                                         ELSE Cart(1, WithLine(NoLines, SkuOf(p, AnyCode), 1))],
             books = [j \in Customer |-> IF j # k THEN NoAddresses
                        ELSE WithAddress(NoAddresses, 2,
                                         Saved(AnyDetails, TRUE))]
      PROVE  GoodsInv
    <2> DEFINE sku == SkuOf(p, AnyCode)
               lines == WithLine(NoLines, sku, 1)
               d == AnyDetails
               book == WithAddress(NoAddresses, 2, Saved(d, TRUE))
    <2>1. sku \in Skus
        <3>1. AnyCode \in Code
            BY GoodsAssumption DEF AnyCode
        <3> QED
            BY <3>1 DEF Skus
    <2> HIDE DEF sku
    <2>2. DOMAIN lines = {sku} /\ \A s \in DOMAIN lines : lines[s] = 1
        BY DEF WithLine, NoLines
    <2>3. IsFiniteSet({sku}) /\ Cardinality({sku}) = 1
        BY FS_Singleton
    <2> HIDE DEF lines
    <2>4. GoodLines(lines)
        BY <2>1, <2>2, <2>3, StorefrontAssumption DEF GoodLines
    <2>5. DetailsAccepted(d)
        BY GoodsAssumption DEF AnyDetails
    <2> HIDE DEF d
    <2>6. GoodBook(book)
        BY <2>5 DEF GoodBook, WithAddress, Saved, NoAddresses
    <2> HIDE DEF book
    <2>7. \A j \in Customer : LinesOf(j) \in {NoLines, lines} /\ books[j] \in {NoAddresses, book}
        BY <1>1, <1>5 DEF LinesOf, Cart, lines, sku, book, d
    <2>8. \A q \in DOMAIN products : GoodProduct(products[q])
        BY <1>5, GoodPrices
    <2> QED
        BY <1>1, <1>3, <2>4, <2>6, <2>7, <2>8 DEF GoodsInv
<1> QED
    BY <1>4, <1>5 DEF Init

\* No step saves what could not be read back.
LEMMA NextGoods ==
    ASSUME StateInv, CarryInv, GoodsInv, [StoreNext]_shopVars
    PROVE  GoodsInv'
<1> DEFINE Rest == /\ \A k \in Customer : GoodLines(carts'[k].lines) /\ GoodBook(books'[k])
                   /\ \A p \in DOMAIN products' : GoodProduct(products'[p])
                   /\ \A i \in DOMAIN orders' : GoodOrder(orders'[i].order)
           Work2 == \A r \in Slot : GoodWork(req'[r])
<1>0. SUFFICES Rest /\ Work2
    BY DEF GoodsInv, LinesOf
<1>a. UNCHANGED <<carts, books, products, orders>> => Rest
    BY DEF GoodsInv, LinesOf
<1>b. ASSUME NEW r \in Slot, GoodWork(req'[r]),
             \A s \in Slot : s # r => req'[s] = req[s] \/ req'[s] = Idle
      PROVE  Work2
    <2>1. GoodWork(Idle)
        BY DEF GoodWork, Idle
    <2> QED
        BY <1>b, <2>1 DEF GoodsInv
<1>c. ASSUME NEW r \in Slot, NEW x, Become(r, x), GoodWork(x) PROVE Work2
    BY <1>b, <1>c, Became
<1>d. GoodWork(Succeeded) /\ GoodWork(Failed) /\ \A error : GoodWork(Refused(error))
    BY DEF GoodWork, Succeeded, Failed, Refused, Done
<1>1. ASSUME NEW r \in Slot, OpensSave(r) PROVE Rest /\ Work2
    <2>1. PICK x : Opens(r, x) /\ GoodWork(x)
        BY <1>1, GoodBeginnings DEF OpensSave
    <2>2. req'[r] = x /\ \A s \in Slot : s # r => req'[s] = req[s] \/ req'[s] = Idle
        BY <2>1, Arrived DEF Opens
    <2>3. Work2
        BY <1>b, <2>1, <2>2
    <2>4. Rest
        BY <1>a, <2>1 DEF Opens
    <2> QED
        BY <2>3, <2>4
<1>2. ASSUME NEW r \in Slot, NEW p \in ProductId, NEW skus \in NewSkus, RegisterProduct(r, p, skus)
      PROVE  Rest /\ Work2
    <2>1. PICK x : Arrives(r, x) /\ GoodWork(x)
        BY <1>2, <1>d DEF RegisterProduct
    <2>2. req'[r] = x /\ \A s \in Slot : s # r => req'[s] = req[s] \/ req'[s] = Idle
        BY <2>1, Arrived
    <2>3. Work2
        BY <1>b, <2>1, <2>2
    <2>4. UNCHANGED <<carts, books, orders>>
        BY <1>2 DEF RegisterProduct
    <2>5. \A q \in DOMAIN products' : GoodProduct(products'[q])
        BY <1>2, GoodPrices DEF RegisterProduct, GoodsInv
    <2> QED
        BY <2>3, <2>4, <2>5 DEF GoodsInv, LinesOf
<1>3. ASSUME NEW r \in Slot, FinishCart(r) PROVE Rest /\ Work2
    <2>1. CartSave(req[r]) /\ GoodLines(req[r].cart.lines)
        BY <1>3 DEF FinishCart, CarryInv, Carried, GoodsInv, GoodWork
    <2>2. Work2
        BY <1>3, <1>c, <1>d DEF FinishCart, Accept, Fail
    <2>3. UNCHANGED <<books, products, orders>>
        BY <1>3 DEF FinishCart
    <2>4. carts' = carts \/ carts' = [carts EXCEPT ![req[r].customer] = req[r].cart]
        BY <1>3 DEF FinishCart, SavedCart
    <2>5. \A k \in Customer : GoodLines(carts'[k].lines)
        BY <2>1, <2>4 DEF StateInv, GoodsInv, LinesOf
    <2> QED
        BY <2>2, <2>3, <2>5 DEF GoodsInv
<1>4. ASSUME NEW r \in Slot, FindAddress(r) PROVE Rest /\ Work2
    <2>1. GoodLines(req[r].cart.lines)
        BY <1>4 DEF FindAddress, GoodsInv, GoodWork
    <2>2. PICK x : Become(r, x) /\ GoodWork(x)
        <3>1. CASE req[r].address \notin DOMAIN books[req[r].customer]
            BY <1>4, <1>d, <3>1 DEF FindAddress
        <3>2. CASE req[r].address \in DOMAIN books[req[r].customer]
            <4>1. PICK x : Become(r, x) /\ x.pc = "prices" /\ x.cart = req[r].cart
                BY <1>4, <3>2 DEF FindAddress
            <4> QED
                BY <2>1, <4>1 DEF GoodWork
        <3> QED
            BY <3>1, <3>2
    <2>3. Work2
        BY <1>c, <2>2
    <2>4. Rest
        BY <1>4, <1>a DEF FindAddress
    <2> QED
        BY <2>3, <2>4
<1>5. ASSUME NEW r \in Slot, FindPrices(r) PROVE Rest /\ Work2
    <2> DEFINE x == req[r]
               o == PlacedOrder(x.customer, x.cart, CurrentPrices, x.to)
    <2>1. GoodLines(x.cart.lines) /\ x.cart.lines # NoLines
        BY <1>5 DEF FindPrices, GoodsInv, GoodWork, CarryInv, Carried
    <2>2. PICK y : Become(r, y) /\ GoodWork(y)
        <3>1. CASE OrderVerdict(x.cart.lines, CurrentPrices) # "OK"
            BY <1>5, <1>d, <3>1 DEF FindPrices
        <3>2. CASE OrderVerdict(x.cart.lines, CurrentPrices) = "OK"
            <4>1. GoodOrder(o)
                BY <2>1, <3>2, GoodTotal DEF GoodsInv
            <4>2. PICK y : Become(r, y) /\ y.pc = "place" /\ y.order = o
                BY <1>5, <3>2 DEF FindPrices
            <4> HIDE DEF o
            <4> QED
                BY <4>1, <4>2 DEF GoodWork
        <3> QED
            BY <3>1, <3>2
    <2>3. Work2
        BY <1>c, <2>2
    <2>4. Rest
        BY <1>5, <1>a DEF FindPrices
    <2> QED
        BY <2>3, <2>4
<1>6. ASSUME NEW r \in Slot, PlaceOrder(r) PROVE Rest /\ Work2
    <2> DEFINE k == req[r].order.customer
               placed == [order |-> req[r].order, since |-> req[r].since]
    <2>1. GoodOrder(req[r].order)
        BY <1>6 DEF PlaceOrder, GoodsInv, GoodWork
    <2>2. Work2
        BY <1>6, <1>c, <1>d DEF PlaceOrder, Accept
    <2>3. UNCHANGED <<books, products>> /\ orders' = Append(orders, placed)
        BY <1>6 DEF PlaceOrder
    <2>4. \A i \in DOMAIN orders' : GoodOrder(orders'[i].order)
        <3>1. placed.order = req[r].order
            OBVIOUS
        <3> HIDE DEF placed
        <3>2. DOMAIN orders = 1..Len(orders) /\ Len(orders) \in Nat
              /\ DOMAIN orders' = 1..Len(orders) + 1 /\ orders'[Len(orders) + 1] = placed
              /\ \A i \in 1..Len(orders) : orders'[i] = orders[i]
            BY <2>3, OneMore DEF StateInv
        <3>3. ASSUME NEW i \in DOMAIN orders' PROVE GoodOrder(orders'[i].order)
            <4>1. CASE i = Len(orders) + 1
                BY <2>1, <3>1, <3>2, <4>1
            <4>2. CASE i # Len(orders) + 1
                <5>1. i \in DOMAIN orders /\ orders'[i] = orders[i]
                    BY <3>2, <4>2
                <5> QED
                    BY <5>1 DEF GoodsInv
            <4> QED
                BY <4>1, <4>2
        <3> QED
            BY <3>3
    <2>5. \A j \in Customer : carts'[j] \in {carts[j], NoCart}
        BY <1>6 DEF PlaceOrder, Emptied, StateInv
    <2>6. GoodLines(NoCart.lines)
        BY GoodNothing DEF NoCart, Cart
    <2> QED
        BY <2>2, <2>3, <2>4, <2>5, <2>6 DEF GoodsInv, LinesOf
<1>e. ASSUME NEW r \in Slot, NEW pruned, NEW held, TurnsTo(r, req[r], pruned, held),
             req[r].pc \in {"prune", "write"}
      PROVE  Work2
    <2>1. GoodBook(req[r].book)
        BY <1>e DEF GoodsInv, GoodWork
    <2>2. PICK y : Become(r, y) /\ y.pc = "write" /\ y.book = req[r].book
        BY <1>e, Turned
    <2>3. GoodWork(y)
        BY <2>1, <2>2 DEF GoodWork
    <2> QED
        BY <1>c, <2>2, <2>3
<1>7. ASSUME NEW r \in Slot, Prune(r) PROVE Rest /\ Work2
    <2>1. Work2
        BY <1>7, <1>e DEF Prune
    <2>2. Rest
        BY <1>7, <1>a DEF Prune
    <2> QED
        BY <2>1, <2>2
<1>12. ASSUME NEW r \in Slot, WriteRow(r) PROVE Rest /\ Work2
    <2>1. Rest
        BY <1>12, <1>a DEF WriteRow
    <2>2. CASE Clash(r)
        BY <1>12, <1>c, <1>d, <2>1, <2>2 DEF WriteRow, Fail
    <2>3. CASE ~Clash(r)
        BY <1>12, <1>e, <2>1, <2>3 DEF WriteRow
    <2> QED
        BY <2>2, <2>3
<1>8. ASSUME NEW r \in Slot, CommitBook(r) PROVE Rest /\ Work2
    <2> DEFINE x == req[r]
               merged == Merged(books[x.customer], x.pruned, x.book)
    <2>1. BookSave(x) /\ GoodBook(x.book)
        BY <1>8 DEF CommitBook, GoodsInv, GoodWork, CarryInv, Carried
    <2>2. GoodBook(merged)
        BY <2>1, GoodBooks DEF BookSave, GoodsInv
    <2>3. Work2
        BY <1>8, <1>c, <1>d DEF CommitBook, Accept
    <2>4. UNCHANGED <<carts, products, orders>>
        BY <1>8 DEF CommitBook
    <2>5. books' = [books EXCEPT ![x.customer] = merged]
        BY <1>8 DEF CommitBook
    <2> HIDE DEF merged
    <2>6. \A j \in Customer : GoodBook(books'[j])
        BY <2>1, <2>2, <2>5 DEF StateInv, GoodsInv, BookSave
    <2> QED
        BY <2>3, <2>4, <2>6 DEF GoodsInv, LinesOf
<1>9. ASSUME NEW r \in Slot, Victim(r) PROVE Rest /\ Work2
    BY <1>9, <1>a, <1>c, <1>d DEF Victim, Fail
<1>10. ASSUME NEW r \in Slot, FinishUpdatePrice(r) PROVE Rest /\ Work2
    <2>1. GoodProduct(req[r].product)
        BY <1>10 DEF FinishUpdatePrice, GoodsInv, GoodWork
    <2>2. Work2
        BY <1>10, <1>c, <1>d DEF FinishUpdatePrice, Accept
    <2>3. UNCHANGED <<carts, books, orders>>
          /\ products' = [products EXCEPT ![req[r].id] = req[r].product]
        BY <1>10 DEF FinishUpdatePrice
    <2>4. \A p \in DOMAIN products' : GoodProduct(products'[p])
        BY <2>1, <2>3 DEF GoodsInv
    <2> QED
        BY <2>2, <2>3, <2>4 DEF GoodsInv, LinesOf
<1>11. CASE UNCHANGED shopVars
    <2>1. Work2
        BY <1>11 DEF shopVars, GoodsInv
    <2> QED
        BY <1>11, <1>a, <2>1 DEF shopVars
<1> QED
    BY <1>1, <1>2, <1>3, <1>4, <1>5, <1>6, <1>7, <1>8, <1>9, <1>10, <1>11, <1>12, Steps DEF Proceed

\* Whatever requests overlap, every row can be read back: no cart beyond its
\* limit or with a line of nothing (cart.ts rehydrate), no address without what
\* it needs (address-details.ts), no product without SKUs or a price of nothing
\* (product.ts, price.ts), no order without lines or for nothing (order.ts), no
\* stock row oversold (stock-item.ts rehydrate).
THEOREM ShopTypeCorrect == ShopSpec => []TypeOK
<1>1. ShopInit => GoodsInv
    BY GoodsBegin DEF ShopInit
<1>2. StoreInv /\ GoodsInv /\ [ShopNext]_allVars => GoodsInv'
    BY StoreSteps, NextGoods DEF StoreInv
<1>3. StoreInv /\ GoodsInv => ShopTypeOK
    <2> SUFFICES ASSUME StoreInv, GoodsInv PROVE ShopTypeOK
        OBVIOUS
    <2>1. ASSUME NEW k \in Customer PROVE DOMAIN books[k] \subseteq AddressId
        <3>1. DOMAIN books[k] \subseteq 1..lastId /\ lastId \in Nat
              /\ requests \in 0..MaxRequests /\ lastId <= requests + 2
            BY DEF StoreInv, BooksInv, RowsInv, StateInv
        <3> QED
            BY <3>1, StorefrontAssumption DEF AddressId
    <2>2. \A k \in Customer : \A s \in DOMAIN LinesOf(k) : LinesOf(k)[s] >= 1
        BY DEF GoodsInv, GoodLines
    <2> QED
        BY <2>1, <2>2 DEF GoodsInv, GoodLines, GoodBook, GoodProduct, GoodOrder, PriceAccepted, ShopTypeOK
<1>4. ShopTypeOK /\ TabTypeOK /\ DeskCovered => TypeOK
    BY DEF TypeOK, DeskCovered
<1> QED
    BY <1>1, <1>2, <1>3, <1>4, ShopKeepsStore, TabFitsTogether, DeskStaysCovered, PTL DEF ShopSpec

=============================================================================
