----------------------------- MODULE CartDomain -----------------------------
(***************************************************************************)
(* The pure rules of the shopping side: the cart (cart.ts), what of it is  *)
(* for sale (get-cart.service.ts), how it becomes an order (assemble in    *)
(* place-order.service.ts, order.ts, order-line.ts) and money (money.ts).  *)
(*                                                                         *)
(* The lines of a cart or an order are a function from SKUs to quantities: *)
(* the tables have one row per SKU and keep no order.                      *)
(***************************************************************************)
EXTENDS Integers, FiniteSets, Functions

Money(amount, currency) == [amount |-> amount, currency |-> currency]

\* multiply: the amount is a bigint and never wraps.
Times(money, n) == Money(money.amount * n, money.currency)

Currencies(unit) == {unit[s].currency : s \in DOMAIN unit}

\* sum: no amounts are zero won.  The caller has seen to the currency.
SumOf(money) ==
    IF DOMAIN money = {} THEN Money(0, "KRW")
    ELSE Money(FoldFunction(+, 0, [s \in DOMAIN money |-> money[s].amount]),
               CHOOSE c \in Currencies(money) : TRUE)

-----------------------------------------------------------------------------
(* The cart.                                                                *)

NoLines == [s \in {} |-> 0]
Cart(id, lines) == [id |-> id, lines |-> lines]

\* Cart.create, for a customer who has none.
NewCart(id) == Cart(id, NoLines)

CartOp(kind, sku, quantity) == [kind |-> kind, sku |-> sku, quantity |-> quantity]

\* MUTANT of QuantityAccepted: Quantity.of, which accepts none.
QuantityOfAccepted(op) == op.kind = "remove" \/ op.quantity >= 0

\* Quantity.positive, before the transaction.
QuantityAccepted(op) == op.kind = "remove" \/ op.quantity >= 1

\* requireIndexOf
HasLine(lines, sku) == sku \in DOMAIN lines

\* addItem looks for the line before it counts them; the others want a line.
CartVerdict(lines, op, maxLines) ==
    IF HasLine(lines, op.sku) THEN "OK"
    ELSE IF op.kind # "add" THEN "CART_LINE_NOT_FOUND"
    ELSE IF Cardinality(DOMAIN lines) >= maxLines THEN "CART_LINE_LIMIT_EXCEEDED" ELSE "OK"

WithLine(lines, sku, quantity) ==
    [s \in DOMAIN lines \cup {sku} |-> IF s = sku THEN quantity ELSE lines[s]]

\* addItem: one line per SKU, quantities add up.
Added(lines, sku, quantity) ==
    WithLine(lines, sku, IF HasLine(lines, sku) THEN lines[sku] + quantity ELSE quantity)

Removed(lines, sku) == Restrict(lines, DOMAIN lines \ {sku})

CartAfter(lines, op) ==
    IF op.kind = "add" THEN Added(lines, op.sku, op.quantity)
    ELSE IF op.kind = "change" THEN WithLine(lines, op.sku, op.quantity)
    ELSE Removed(lines, op.sku)

-----------------------------------------------------------------------------
(* What of a cart is for sale.  unit is the price list the catalog answered *)
(* with: SKUs it does not know or no longer sells are not in it.            *)

Missing(lines, unit) == DOMAIN lines \ DOMAIN unit
Priced(lines, unit) == Restrict(unit, DOMAIN lines \cap DOMAIN unit)

\* OrderLine.subtotal
Subtotals(lines, unit) == [s \in DOMAIN unit |-> Times(unit[s], lines[s])]

\* assemble() and Order.place: unknown SKUs first, then the currency.
OrderVerdict(lines, unit) ==
    IF Missing(lines, unit) # {} THEN "UNKNOWN_SKU"
    ELSE IF DOMAIN lines = {} THEN "EMPTY_ORDER"
    ELSE IF Cardinality(Currencies(Priced(lines, unit))) > 1 THEN "MIXED_CURRENCY_ORDER"
    ELSE "OK"

\* Order.place: prices and address are snapshots, the total is fixed.
PlacedOrder(customer, cart, unit, to) ==
    LET priced == Priced(cart.lines, unit) IN
    [customer |-> customer, cart |-> cart.id, lines |-> cart.lines, unit |-> priced,
     total |-> SumOf(Subtotals(cart.lines, priced)), to |-> to]

=============================================================================
