---------------------------- MODULE StockLedger ----------------------------
(***************************************************************************)
(* What a StockRepository promises its callers, whatever its locking       *)
(* strategy (application/ports/out/stock.repository.ts): the counters of a *)
(* SKU change one accepted domain operation at a time, each applied to the *)
(* counters the previous one left behind.  No update is lost and none is   *)
(* applied to counters that somebody else has changed since.               *)
(***************************************************************************)
EXTENDS StockDomain

CONSTANTS
    Sku,          \* the stock-keeping units
    Quantity,     \* the amounts an operation may ask for
    OpeningStock  \* the units a row may be registered with

VARIABLES
    registered,  \* the SKUs that have a stock_items row
    stock        \* the committed counters of each row

Init ==
    /\ registered = {}
    /\ stock = [s \in Sku |-> NewRow(0)]

Register(s) ==
    /\ s \notin registered
    /\ registered' = registered \cup {s}
    /\ \E units \in OpeningStock : stock' = [stock EXCEPT ![s] = NewRow(units)]

Mutate(s) ==
    /\ s \in registered
    /\ \E op \in StockOperations, q \in Quantity :
        /\ ChangeAccepted(op, stock[s], q)
        /\ stock' = [stock EXCEPT ![s] = Changed(op, stock[s], q)]
    /\ UNCHANGED registered

Next == \E s \in Sku : Register(s) \/ Mutate(s)

Spec == Init /\ [][Next]_<<registered, stock>>

=============================================================================
