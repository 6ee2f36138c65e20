----------------------------- MODULE ShopPromise -----------------------------
(***************************************************************************)
(* What the use cases of cart, checkout, address book and catalog promise: *)
(* a request that is answered with success is one step, which reads and    *)
(* writes one cart, book or product, and any other one is none.  What is   *)
(* in "raced" was saved over a change that the save had not seen; of what  *)
(* becomes of it nothing is said.                                          *)
(***************************************************************************)
EXTENDS CartDomain, AddressDomain, CatalogDomain

CONSTANTS
    CartOps,     \* what a request may ask of a cart,
    AddressOps,  \* of an address book,
    AddressId,   \* of an address to ship to,
    NewPrices,   \* of a price
    NewSkus,     \* and of a registration
    MaxLines     \* lines that a cart may have

VARIABLES
    carts,     \* the lines in the cart of each customer
    books,     \* the address book of each customer
    products,  \* the registered products
    orders,    \* the orders, in the order they were placed
    raced,     \* carts, books and products saved over a change
    last       \* the last request that was answered with success

promiseVars == <<carts, books, products, orders, raced, last>>

OfCart(k) == <<"cart", k>>
OfBook(k) == <<"book", k>>
OfProduct(p) == <<"product", p>>

\* Request number n of those that succeeded.
Entry(n, what, op) == [count |-> n, what |-> what, op |-> op]
Succeeds(what, op) == last' = Entry(last.count + 1, what, op)

\* The step changes f at x only, as it should or in a race about "what".
At(f, x, what, should) ==
    /\ f' = [f EXCEPT ![x] = f'[x]]
    /\ raced' \in {raced, raced \cup {what}}
    /\ what \in raced' \/ should

Init == raced = {} /\ orders = <<>> /\ last.count = 0

ChangeCart(k, op) ==
    /\ Succeeds(OfCart(k), op)
    /\ At(carts, k, OfCart(k), /\ CartVerdict(carts[k], op, MaxLines) = "OK"
                               /\ carts'[k] = CartAfter(carts[k], op))
    /\ UNCHANGED <<books, products, orders>>

\* All that was in the cart is ordered, and nothing is in the cart any more.
Checkout(k, address) ==
    LET order == orders'[Len(orders) + 1] IN
    /\ Succeeds(OfCart(k), [ship |-> address])
    /\ Len(orders') = Len(orders) + 1
    /\ orders' = Append(orders, order)
    /\ order.customer = k
    /\ At(carts, k, OfCart(k), order.lines = carts[k] /\ carts[k] # NoLines /\ carts'[k] = NoLines)
    /\ UNCHANGED <<books, products>>

ChangeBook(k, op) ==
    /\ Succeeds(OfBook(k), op)
    /\ At(books, k, OfBook(k), /\ BookVerdict(books[k], op) = "OK"
                               /\ books'[k] = BookAfter(books[k], op))
    /\ UNCHANGED <<carts, products, orders>>

UpdatePrice(p, code, price) ==
    /\ Succeeds(OfProduct(p), NewSku(code, price))
    /\ At(products, p, OfProduct(p), /\ PriceVerdict(products[p], code) = "OK"
                                     /\ products'[p] = Repriced(products[p], code, price))
    /\ UNCHANGED <<carts, books, orders>>

RegisterProduct(skus) ==
    /\ RegisterVerdict(skus) = "OK"
    /\ \E p \in DOMAIN products' \ DOMAIN products :
          /\ Succeeds(OfProduct(p), [skus |-> skus])
          /\ products' = [q \in DOMAIN products \cup {p} |->
                             IF q = p THEN RegisteredProduct(skus) ELSE products[q]]
    /\ UNCHANGED <<carts, books, orders, raced>>

Next ==
    \/ \E k \in DOMAIN carts :
          \/ \E op \in CartOps : ChangeCart(k, op)
          \/ \E a \in AddressId : Checkout(k, a)
          \/ \E op \in AddressOps : ChangeBook(k, op)
    \/ \E p \in DOMAIN products :
          \E code \in DOMAIN products[p].prices, price \in NewPrices : UpdatePrice(p, code, price)
    \/ \E skus \in NewSkus : RegisterProduct(skus)

Spec == Init /\ [][Next]_promiseVars

=============================================================================
