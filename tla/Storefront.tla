----------------------------- MODULE Storefront -----------------------------
(***************************************************************************)
(* The requests of the API that change carts, orders, address books and    *)
(* products, each with the reads and writes its use case makes:            *)
(* ManageCartService, the first transaction of PlaceOrderService,          *)
(* ManageAddressesService, RegisterProductService and UpdatePriceService.  *)
(*                                                                         *)
(* All of them read a whole aggregate, change it in memory and save all of *)
(* it, at READ COMMITTED and without a version or a lock on what was read. *)
(* A checkout reads the address book and the price list outside of its     *)
(* transaction.  A save of a cart and one of a product begin by locking    *)
(* their row and take effect as one.  The save of an address book has no   *)
(* such row: it deletes and writes its rows one after the other, keeps     *)
(* each locked until the commit, and waits for rows that another save has. *)
(***************************************************************************)
EXTENDS CartDomain, AddressDomain, CatalogDomain, HttpErrors

CONSTANTS
    Customer,     \* signed-in customers
    ProductId,    \* ids of products
    Code,         \* codes that a SKU has within its product
    Quantity,     \* quantities that requests ask for
    NewPrices,    \* prices that requests ask for
    NewSkus,      \* SKUs that registrations ask for
    Details,      \* what addresses say
    Slot,         \* slots of requests that the API is working on, taken in order
    MaxLines,     \* MAX_LINES of cart.ts
    MaxRequests   \* bound: requests ever sent

ASSUME StorefrontAssumption ==
    /\ Quantity \subseteq Nat
    /\ Slot \subseteq Nat
    /\ MaxLines \in Nat \ {0}
    /\ MaxRequests \in Nat

\* Amounts are whole, every SKU of a registration has a code and a price, and
\* there is something that can be sold and somewhere to send it.
ASSUME GoodsAssumption ==
    /\ \A m \in NewPrices : m.amount \in Int
    /\ NewSkus \subseteq Seq([code : Code, price : NewPrices])
    /\ Code # {}
    /\ \E m \in NewPrices : PriceAccepted(m)
    /\ \E d \in Details : DetailsAccepted(d)

VARIABLES
    carts,     \* carts rows with their lines, by the unique customer_id
    books,     \* saved_addresses rows
    products,  \* products rows with their SKUs
    orders,    \* orders rows with their lines, in the order of insertion
    lastId,    \* ids generated so far
    req,       \* what each slot is doing
    requests,  \* requests sent so far
    last,      \* history: the last request answered with success
    raced,     \* history: what was saved over a change not seen
    lists      \* history: every price list there has been

shopVars == <<carts, books, products, orders, lastId, req, requests, last, raced, lists>>

Skus == {SkuOf(p, c) : p \in ProductId, c \in Code}
CartOps ==
    {CartOp(kind, s, q) : kind \in {"add", "change"}, s \in Skus, q \in Quantity}
    \cup {CartOp("remove", s, 0) : s \in Skus}
AddressId == 1..(MaxRequests + 2)
AddressOps ==
    {AddressOp("update", a, d) : a \in AddressId, d \in Details}
    \cup {AddressOp(kind, a, Blank) : kind \in {"remove", "default"}, a \in AddressId}
    \cup {AddressOp("add", a, d) : a \in AddressId, d \in Details}
AnyDetails == CHOOSE d \in Details : DetailsAccepted(d)

\* What a request names: the id of a new address is not up to it, one id that
\* nobody has stands for all, and so does one content of a new address.  An
\* update that changes nothing is left out.
AskedOps ==
    {op \in AddressOps :
        /\ op.id \in 1..(lastId + 1)
        /\ op.kind = "add" => op.id = 1 /\ op.details \in {AnyDetails, Blank}
        /\ op.kind = "update" =>
            \A k \in Customer : op.id \in DOMAIN books[k] => op.details # books[k][op.id].details}
NoCart == Cart(0, NoLines)
NoRow == 0
LinesOf(k) == carts[k].lines

OfCart(k) == <<"cart", k>>
OfBook(k) == <<"book", k>>
OfProduct(p) == <<"product", p>>

-----------------------------------------------------------------------------
(* Requests.                                                                *)

Idle == [pc |-> "idle"]
Done(status, code) == [pc |-> "done", status |-> status, code |-> code]

\* What the BFF hands on to the browser.
Succeeded == Done(200, "none")
Refused(error) == Done(BffStatus(Resolve(error).code), Resolve(error).code)
Failed == Done(BffStatus(Internal.code), Internal.code)

Free(r) == req[r].pc \in {"idle", "done"}
Become(r, state) == req' = [req EXCEPT ![r] = state]
Entry(n, what, op) == [count |-> n, what |-> what, op |-> op]
Succeeds(what, op) == last' = Entry(last.count + 1, what, op)
Accept(r, what, op) == Become(r, Succeeded) /\ Succeeds(what, op)
Fail(r) == Become(r, Failed) /\ UNCHANGED last

\* A request arrives when earlier answers have been taken.
Arrives(r, state) ==
    /\ Free(r)
    /\ \A s \in Slot : s < r => ~Free(s)
    /\ requests < MaxRequests
    /\ requests' = requests + 1
    /\ req' = [s \in Slot |-> IF s = r THEN state ELSE IF Free(s) THEN Idle ELSE req[s]]

\* It takes as many new ids as it needs.
Start(r, ids, state) ==
    /\ Arrives(r, state)
    /\ lastId' = lastId + ids
    /\ UNCHANGED <<carts, books, products, orders, last, raced, lists>>

\* What was read is not what the save overwrites.
Races(what, seen, now) == raced' = IF seen = now THEN raced ELSE raced \cup {what}

-----------------------------------------------------------------------------
(* Init: an empty shop, or one that has a product, a customer with a line   *)
(* in the cart and an address.                                              *)

AnyCode == CHOOSE c \in Code : TRUE
Opening(status) ==
    Product(status, [c \in Code |-> CHOOSE m \in NewPrices : PriceAccepted(m)])

Init ==
    /\ \/ /\ products = [p \in {} |-> Product("ACTIVE", NoLines)]
          /\ carts = [k \in Customer |-> NoCart]
          /\ books = [k \in Customer |-> NoAddresses]
       \/ \E p \in ProductId, k \in Customer, status \in {"ACTIVE", "ARCHIVED"} :
            /\ products = [q \in {p} |-> Opening(status)]
            /\ carts = [j \in Customer |-> IF j # k THEN NoCart
                                           ELSE Cart(1, WithLine(NoLines, SkuOf(p, AnyCode), 1))]
            /\ books = [j \in Customer |-> IF j # k THEN NoAddresses
                         ELSE WithAddress(NoAddresses, 2,
                                          Saved(AnyDetails, TRUE))]
    /\ orders = <<>>
    /\ lastId = 2
    /\ req = [r \in Slot |-> Idle]
    /\ requests = 0
    /\ last = Entry(0, <<>>, [none |-> 0])
    /\ raced = {}
    /\ lists = << PriceList(products) >>

-----------------------------------------------------------------------------
(* ManageCartService.                                                       *)

\* addItem makes a cart for a customer who has none, the others refuse.
BeginCart(r, k, op) ==
    LET found == carts[k] # NoCart
        cart == IF found THEN carts[k] ELSE NewCart(lastId + 1)
    IN Start(r, IF ~found /\ op.kind = "add" /\ QuantityAccepted(op) THEN 1 ELSE 0,
             IF ~QuantityAccepted(op) THEN Refused("QUANTITY_BELOW_MINIMUM")
             ELSE IF ~found /\ op.kind # "add" THEN Refused("CART_NOT_FOUND")
             ELSE IF CartVerdict(cart.lines, op, MaxLines) # "OK"
             THEN Refused(CartVerdict(cart.lines, op, MaxLines))
             ELSE [pc |-> "cart", customer |-> k, op |-> op, seen |-> carts[k],
                   cart |-> Cart(cart.id, CartAfter(cart.lines, op))])

\* MUTANT of SavedCart: lines that are gone from memory stay.
SavedCartUpserted(row, cart) ==
    Cart(cart.id, [s \in DOMAIN row.lines \cup DOMAIN cart.lines |->
                      IF s \in DOMAIN cart.lines THEN cart.lines[s] ELSE row.lines[s]])

\* PrismaCartRepository.save replaces every line.
SavedCart(row, cart) == cart

\* The upsert goes by the id: the unique customer_id refuses a second cart.
FinishCart(r) ==
    LET x == req[r] k == x.customer IN
    /\ x.pc = "cart"
    /\ IF carts[k] \notin {NoCart} /\ carts[k].id # x.cart.id
       THEN Fail(r) /\ UNCHANGED <<carts, raced>>
       ELSE /\ carts' = [carts EXCEPT ![k] = SavedCart(carts[k], x.cart)]
            /\ Races(OfCart(k), x.seen, carts[k])
            /\ Accept(r, OfCart(k), x.op)
    /\ UNCHANGED <<books, products, orders, lastId, requests, lists>>

-----------------------------------------------------------------------------
(* PlaceOrderService.assemble.                                              *)

BeginCheckout(r, k, address) ==
    Start(r, 0, IF LinesOf(k) = NoLines THEN Refused("EMPTY_CART")
                ELSE [pc |-> "address", customer |-> k, cart |-> carts[k],
                      address |-> address, since |-> Len(lists)])

\* GetAddressBookService, over a connection of its own.
FindAddress(r) ==
    LET x == req[r] IN
    /\ x.pc = "address"
    /\ Become(r, IF x.address \notin DOMAIN books[x.customer]
                 THEN Refused("SHIPPING_ADDRESS_NOT_FOUND")
                 ELSE [pc |-> "prices", customer |-> x.customer, cart |-> x.cart,
                       address |-> x.address, since |-> x.since,
                       to |-> books[x.customer][x.address].details])
    /\ UNCHANGED <<carts, books, products, orders, lastId, requests, last, raced, lists>>

\* MUTANT of CurrentPrices: the first price list there was.
CachedPrices == lists[1]

\* FindSkuPricesService, over a connection of its own.
CurrentPrices == PriceList(products)

FindPrices(r) ==
    LET x == req[r] verdict == OrderVerdict(x.cart.lines, CurrentPrices) IN
    /\ x.pc = "prices"
    /\ Become(r, IF verdict # "OK" THEN Refused(verdict)
                 ELSE [pc |-> "place", cart |-> x.cart, address |-> x.address, since |-> x.since,
                       order |-> PlacedOrder(x.customer, x.cart, CurrentPrices, x.to)])
    /\ UNCHANGED <<carts, books, products, orders, lastId, requests, last, raced, lists>>

\* MUTANT of Emptied: the cart is left as it was.
NotEmptied(row, id) == row

\* PrismaCartRepository.delete: no error when there is no such cart.
Emptied(row, id) == IF row.id = id THEN NoCart ELSE row

\* Order, event and the deletion of the cart commit together.
PlaceOrder(r) ==
    LET x == req[r] k == x.order.customer IN
    /\ x.pc = "place"
    /\ orders' = Append(orders, [order |-> x.order, since |-> x.since])
    /\ carts' = [carts EXCEPT ![k] = Emptied(carts[k], x.cart.id)]
    /\ Races(OfCart(k), x.cart, carts[k])
    /\ Accept(r, OfCart(k), [ship |-> x.address])
    /\ UNCHANGED <<books, products, lastId, requests, lists>>

-----------------------------------------------------------------------------
(* ManageAddressesService and PrismaCustomerRepository.save.                *)

BeginBook(r, k, op) ==
    LET asked == IF op.kind = "add" THEN AddressOp("add", lastId + 1, op.details) ELSE op IN
    Start(r, IF op.kind = "add" /\ DetailsAccepted(op.details) THEN 1 ELSE 0,
          IF op.kind \in {"add", "update"} /\ ~DetailsAccepted(op.details)
          THEN Refused("INVALID_ADDRESS")
          ELSE IF BookVerdict(books[k], asked) # "OK" THEN Refused(BookVerdict(books[k], asked))
          ELSE [pc |-> "prune", customer |-> k, op |-> asked, seen |-> books[k],
                book |-> BookAfter(books[k], asked)])

\* Saves of one book that hold locks.
Saving(k) == {w \in Slot : req[w].pc = "write" /\ req[w].customer = k}

\* The save holds some rows and turns to the next one, if there is any.
TurnsTo(r, x, pruned, held) ==
    LET rows == Upcoming(x.book, pruned, held) IN
    \E row \in IF rows = {} THEN {NoRow} ELSE rows :
        Become(r, [pc |-> "write", customer |-> x.customer, op |-> x.op, seen |-> x.seen,
                   book |-> x.book, pruned |-> pruned, held |-> held, row |-> row])

\* The DELETE takes its snapshot.
Prune(r) ==
    LET x == req[r] IN
    /\ x.pc = "prune"
    /\ TurnsTo(r, x, Strangers(books[x.customer], x.book), {})
    /\ UNCHANGED <<carts, books, products, orders, lastId, requests, last, raced, lists>>

\* The row becomes a default, and the unique index wants to know of others.
MakesDefault(x) == x.row \in Defaults(x.book)

\* Whom a save waits for: who has deleted or written its row, and, where the
\* row becomes a default, who has written a default or changed the one there is.
Blockers(r) ==
    LET x == req[r] k == x.customer
        contested(w) ==
            {x.row} \cup (IF MakesDefault(x) THEN Defaults(books[k]) \cup Defaults(req[w].book)
                          ELSE {})
    IN IF x.pc # "write" THEN {}
       ELSE {w \in Saving(k) \ {r} : contested(w) \cap req[w].held # {}}

\* Nobody is in the way any more but a default that was committed.
Clash(r) ==
    LET x == req[r] IN
    /\ x.pc = "write"
    /\ Blockers(r) = {}
    /\ MakesDefault(x)
    /\ IndexRefuses(books[x.customer], x.held, x.row)

\* The row is deleted or written.  A row to delete may be gone by now, and a
\* second default fails on the index.
WriteRow(r) ==
    LET x == req[r] gone == ({x.row} \cap x.pruned) \ DOMAIN books[x.customer] IN
    /\ x.pc = "write"
    /\ x.row # NoRow
    /\ Blockers(r) = {}
    /\ IF Clash(r) THEN Fail(r)
       ELSE TurnsTo(r, x, x.pruned \ gone, x.held \cup ({x.row} \ gone)) /\ UNCHANGED last
    /\ UNCHANGED <<carts, books, products, orders, lastId, requests, raced, lists>>

CommitBook(r) ==
    LET x == req[r] k == x.customer IN
    /\ x.pc = "write"
    /\ x.row = NoRow
    /\ books' = [books EXCEPT ![k] = Merged(books[k], x.pruned, x.book)]
    /\ Races(OfBook(k), x.seen, books[k])
    /\ Accept(r, OfBook(k), x.op)
    /\ UNCHANGED <<carts, products, orders, lastId, requests, lists>>

\* A save waits in a circle: it is among those it waits for, those they wait
\* for, and so on.
Deadlocked(r) ==
    \A S \in SUBSET Slot :
        Blockers(r) \subseteq S /\ (\A w \in S : Blockers(w) \subseteq S) => r \in S

\* PostgreSQL aborts one of them.
Victim(r) ==
    /\ Deadlocked(r)
    /\ Fail(r)
    /\ UNCHANGED <<carts, books, products, orders, lastId, requests, raced, lists>>

-----------------------------------------------------------------------------
(* RegisterProductService and UpdatePriceService.                           *)

\* New ids are nobody else's: the transaction that inserts them is one step.
RegisterProduct(r, p, skus) ==
    LET verdict == RegisterVerdict(skus)
        registered == [q \in DOMAIN products \cup {p} |->
                          IF q = p THEN RegisteredProduct(skus) ELSE products[q]]
    IN
    /\ p \notin DOMAIN products
    /\ IF verdict # "OK"
       THEN Arrives(r, Refused(verdict)) /\ UNCHANGED <<products, lists, last>>
       ELSE /\ Arrives(r, Succeeded)
            /\ products' = registered
            /\ lists' = Append(lists, PriceList(registered))
            /\ Succeeds(OfProduct(p), [skus |-> skus])
    /\ UNCHANGED <<carts, books, orders, lastId, raced>>

BeginUpdatePrice(r, p, code, price) ==
    Start(r, 0, IF ~PriceAccepted(price) THEN Refused("INVALID_PRICE")
                ELSE IF p \notin DOMAIN products THEN Refused("PRODUCT_NOT_FOUND")
                ELSE IF PriceVerdict(products[p], code) # "OK"
                THEN Refused(PriceVerdict(products[p], code))
                ELSE [pc |-> "price", id |-> p, op |-> NewSku(code, price), seen |-> products[p],
                      product |-> Repriced(products[p], code, price)])

\* PrismaProductRepository.save writes the price of every SKU.
FinishUpdatePrice(r) ==
    LET x == req[r] repriced == [products EXCEPT ![x.id] = x.product] IN
    /\ x.pc = "price"
    /\ products' = repriced
    /\ lists' = Append(lists, PriceList(repriced))
    /\ Races(OfProduct(x.id), x.seen, products[x.id])
    /\ Accept(r, OfProduct(x.id), x.op)
    /\ UNCHANGED <<carts, books, orders, lastId, requests>>

-----------------------------------------------------------------------------
Begin(r) ==
    \/ \E k \in Customer :
          \/ \E op \in CartOps : BeginCart(r, k, op)
          \/ \E a \in AddressId : BeginCheckout(r, k, a)
          \/ \E op \in AskedOps : BeginBook(r, k, op)
    \/ \E p \in ProductId :
          \/ \E skus \in NewSkus : RegisterProduct(r, p, skus)
          \/ \E c \in Code, price \in NewPrices : BeginUpdatePrice(r, p, c, price)

Proceed(r) ==
    \/ FinishCart(r) \/ FindAddress(r) \/ FindPrices(r) \/ PlaceOrder(r)
    \/ Prune(r) \/ WriteRow(r) \/ CommitBook(r) \/ Victim(r) \/ FinishUpdatePrice(r)

-----------------------------------------------------------------------------
(* Properties.                                                              *)

\* Rows are what the mappers can read back: no cart beyond its limit, no book
\* with two defaults, no price of nothing, no order without lines.
ShopTypeOK ==
    /\ \A k \in Customer :
        /\ DOMAIN LinesOf(k) \subseteq Skus
        /\ Cardinality(DOMAIN LinesOf(k)) <= MaxLines
        /\ \A s \in DOMAIN LinesOf(k) : LinesOf(k)[s] >= 1
        /\ DOMAIN books[k] \subseteq AddressId
        /\ \A a \in DOMAIN books[k] : DetailsAccepted(books[k][a].details)
    /\ \A p \in DOMAIN products : /\ DOMAIN products[p].prices # {}
                                   /\ \A c \in DOMAIN products[p].prices :
                                        PriceAccepted(products[p].prices[c])
    /\ \A i \in DOMAIN orders : /\ orders[i].order.lines # NoLines
                                 /\ orders[i].order.total.amount > 0

\* Saves of one book lock, delete and write its rows in turns and never commit
\* two defaults between them, which AddressBook.rehydrate would refuse for ever
\* (prisma-customer.repository.ts 39-60 and the partial unique index).
OneDefault == \A k \in Customer : Readable(books[k])

\* A save comes upon a second default only when the book has changed since it
\* was read: within one save there never are two, as its order of deletes and
\* writes is meant to see to (prisma-customer.repository.ts 35-37 and 53).
OnlyRacesClash == \A r \in Slot : Clash(r) => req[r].seen # books[req[r].customer]

\* A cart is ordered once, although every checkout reads it before any deletes
\* it (place-order.service.ts 140-142), except when two requests for that cart
\* overlapped.
OneOrderPerCart ==
    \A i, j \in DOMAIN orders :
        /\ orders[i].order.cart = orders[j].order.cart
        /\ OfCart(orders[i].order.customer) \notin raced
        => i = j

\* All prices of an order were in force together at a moment of its checkout,
\* whatever price changes came meanwhile.
OrdersArePriced ==
    \A i \in DOMAIN orders :
        LET o == orders[i].order IN
        \E l \in orders[i].since..Len(lists) :
            DOMAIN o.lines \subseteq DOMAIN lists[l] /\ o.unit = Restrict(lists[l], DOMAIN o.lines)

LinesOfOrder(i) == [customer |-> orders[i].order.customer, lines |-> orders[i].order.lines]

\* Requests that do not overlap act one after the other on a cart, a book or a
\* product, whatever their saves delete and write on the way.
Promise == INSTANCE ShopPromise WITH
    carts <- [k \in Customer |-> LinesOf(k)],
    orders <- [i \in DOMAIN orders |-> LinesOfOrder(i)]
PromiseSpec == Promise!Spec

=============================================================================
