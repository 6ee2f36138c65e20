---------------------------- MODULE StockDomain ----------------------------
(***************************************************************************)
(* The pure domain rules of the inventory module: the stock row            *)
(* (domain/stock-item.ts) and the reservation state machine                *)
(* (domain/reservation.ts).  Nothing here knows about transactions: the    *)
(* same rules are driven by Inventory, one database step at a time, and by *)
(* OrderSaga, one transaction at a time.                                   *)
(***************************************************************************)
EXTENDS Integers

ReservationStatus == {"PENDING", "CONFIRMED", "RELEASED", "EXPIRED", "RESTORED"}

(***************************************************************************)
(* A transition method answers "moved" (true in the code), "noop" (false)  *)
(* or "conflict" (it throws ReservationConflictError).                     *)
(***************************************************************************)
\* MUTANT of ConfirmVerdict: a second delivery counts again.
ConfirmTwiceVerdict(status) ==
    IF status \in {"PENDING", "CONFIRMED"} THEN "moved" ELSE "conflict"

ConfirmVerdict(status) ==
    IF status = "CONFIRMED" THEN "noop"
    ELSE IF status = "PENDING" THEN "moved" ELSE "conflict"

ReleaseVerdict(status) ==
    IF status \in {"RELEASED", "EXPIRED"} THEN "noop"
    ELSE IF status = "PENDING" THEN "moved" ELSE "conflict"

ExpireVerdict(status) ==
    IF status = "PENDING" THEN "moved" ELSE "noop"

RestoreVerdict(status) ==
    IF status = "RESTORED" THEN "noop"
    ELSE IF status = "CONFIRMED" THEN "moved" ELSE "conflict"

Transitions == {"confirm", "release", "restore", "expire"}

Verdict(op, status) ==
    IF op = "confirm" THEN ConfirmVerdict(status)
    ELSE IF op = "release" THEN ReleaseVerdict(status)
    ELSE IF op = "restore" THEN RestoreVerdict(status)
    ELSE ExpireVerdict(status)

\* The status a transition that moves leaves behind.
Target(op) ==
    IF op = "confirm" THEN "CONFIRMED"
    ELSE IF op = "release" THEN "RELEASED"
    ELSE IF op = "restore" THEN "RESTORED"
    ELSE "EXPIRED"

\* The cells of the transition table in reservation.ts that move a row.
TransitionTable ==
    { <<"PENDING", "CONFIRMED">>, <<"PENDING", "RELEASED">>,
      <<"PENDING", "EXPIRED">>, <<"CONFIRMED", "RESTORED">> }

-----------------------------------------------------------------------------

Counters(onHand, reserved) == [onHand |-> onHand, reserved |-> reserved]

\* StockItem.create: a new row holds no reservation.
NewRow(units) == Counters(units, 0)

\* StockItem.rehydrate refuses a row whose counters break reserved <= onHand.
Rehydratable(row) == row.reserved <= row.onHand

Available(row) == row.onHand - row.reserved

\* reserve() checks before it counts; onHand is left alone.
\* MUTANT of CanReserve: the check forgets what is already reserved.
CanReserveOnHand(row, q) == q <= row.onHand

CanReserve(row, q) == q <= Available(row)
AfterReserve(row, q) == Counters(row.onHand, row.reserved + q)

\* MUTANT of ReservedCovers: the assertion is gone.
AlwaysCovers(row, q) == TRUE

\* assertReservedCovers: a counter smaller than the reservation is an error.
ReservedCovers(row, q) == q <= row.reserved
\* MUTANT of AfterConfirm: the units leave, the reservation stays counted.
AfterConfirmOnHand(row, q) == Counters(row.onHand - q, row.reserved)

AfterConfirm(row, q) == Counters(row.onHand - q, row.reserved - q)
AfterRelease(row, q) == Counters(row.onHand, row.reserved - q)

\* restock() and restore() only add to the units on hand.
AfterRestock(row, q) == Counters(row.onHand + q, row.reserved)
AfterRestore(row, q) == Counters(row.onHand + q, row.reserved)

StockOperations == Transitions \cup {"reserve", "restock"}

\* What StockRepository.mutate and the change callback given to it accept.
ChangeAccepted(op, row, q) ==
    /\ Rehydratable(row)
    /\ op = "reserve" => CanReserve(row, q)
    /\ op \in {"confirm", "release", "expire"} => ReservedCovers(row, q)

\* The counters the callback leaves behind.
Changed(op, row, q) ==
    IF op = "reserve" THEN AfterReserve(row, q)
    ELSE IF op = "confirm" THEN AfterConfirm(row, q)
    ELSE IF op \in {"release", "expire"} THEN AfterRelease(row, q)
    ELSE IF op = "restore" THEN AfterRestore(row, q)
    ELSE AfterRestock(row, q)

=============================================================================
