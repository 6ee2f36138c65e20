----------------------------- MODULE OrderSaga -----------------------------
(***************************************************************************)
(* The order pipeline: PlaceOrderService and PaymentService running as a   *)
(* process per order, the outbox relay handing events to the subscribers   *)
(* of Inventory, Payment and Ordering, the cancel request, the PG webhook  *)
(* and the expiry of reservations, all interleaved and all stopped by a    *)
(* crash of the process.                                                   *)
(*                                                                         *)
(* A transaction is one step where it reads what it changes.  It is two    *)
(* steps, with the value read kept in between, where the code decides on   *)
(* an unlocked read: the cancel request, the expiry subscriber and the     *)
(* webhook.  The checkout keeps the order and the payment it created in    *)
(* memory and saves them without reading them again.  The transactions of  *)
(* Inventory are atomic here; Inventory has their steps.                   *)
(*                                                                         *)
(* OrderPlaced is left out: it has no subscriber.  Each line of an order   *)
(* asks for one unit, and an order has one line per SKU.                   *)
(***************************************************************************)
EXTENDS Outbox, OrderDomain, StockDomain

CONSTANTS
    Order,          \* order ids
    Sku,
    CancelRequest,  \* cancel requests; each is sent at most once
    Opening,        \* bound: units on hand of a SKU when it all begins
    CancelEarly,    \* TRUE if a customer cancels while the checkout runs
    ExpireEarly,    \* TRUE if the TTL may pass before the saga has settled
    MaxFaults,      \* bound: errors of the database and of the PG
    MaxCrashes      \* bound: restarts of the process

ASSUME SagaAssumption ==
    /\ Opening \in Nat
    /\ CancelEarly \in BOOLEAN
    /\ ExpireEarly \in BOOLEAN
    /\ MaxFaults \in Nat
    /\ MaxCrashes \in Nat

VARIABLES
    order,        \* orders.status, "none" before the order exists
    payment,      \* payments.status, "none" before the row exists
    reservation,  \* reservations.status of each line, "none" before the insert
    stock,        \* the stock_items row of each SKU
    checkout,     \* what the PlaceOrder request of the order is doing
    cancel,       \* what each cancel request is doing
    webhook,      \* orders whose webhook has read a payment not yet settled
    charged,      \* external: what the PG decided about the order's charge
    refunded,     \* external: orders whose charge the PG has given back
    work,         \* what the subscribers have still to do
    rejected,     \* a subscriber of the row being sent has rejected
    faults,
    crashes

ledgers == <<reservation, stock>>
pg == <<charged, refunded>>
trouble == <<faults, crashes>>
subscribers == <<work, rejected>>
vars == <<order, payment, ledgers, checkout, cancel, webhook, pg, subscribers,
          trouble, outboxVars>>

Fault == faults < MaxFaults /\ faults' = faults + 1 /\ UNCHANGED crashes

-----------------------------------------------------------------------------
(* The checkout: PlaceOrderService.execute with PaymentService.execute.     *)

\* todo: lines still to reserve, or to release; answer: what the PG said.
Step(pc, todo, answer) == [pc |-> pc, todo |-> todo, answer |-> answer]
NotBegun == Step("idle", {}, "none")
Ended == Step("done", {}, "none")

Running(o) == checkout[o] \notin {NotBegun, Ended}
Held(o) == {s \in Sku : reservation[o][s] # "none"}

Init ==
    /\ order = [o \in Order |-> "none"]
    /\ payment = [o \in Order |-> "none"]
    /\ reservation = [o \in Order |-> [s \in Sku |-> "none"]]
    /\ stock \in [Sku -> {NewRow(units) : units \in 0..Opening}]
    /\ checkout = [o \in Order |-> NotBegun]
    /\ cancel = [c \in CancelRequest |-> [pc |-> "unsent"]]
    /\ webhook = {}
    /\ charged = [o \in Order |-> "none"]
    /\ refunded = {}
    /\ work = {}
    /\ rejected = FALSE
    /\ faults = 0
    /\ crashes = 0
    /\ OutboxInit

\* Both repositories write the status they are given, whatever the row says by now.
SaveOrder(o, status) == order' = [order EXCEPT ![o] = status]
SavePayment(o, status) == payment' = [payment EXCEPT ![o] = status]

Proceed(o, step) == checkout' = [checkout EXCEPT ![o] = step]

\* assemble: the order is created from the cart.
Assemble(o, lines) ==
    /\ checkout[o] = NotBegun
    /\ SaveOrder(o, "PENDING_PAYMENT")
    /\ Proceed(o, Step("reserve", lines, "none"))
    /\ UNCHANGED <<payment, ledgers, cancel, webhook, pg, subscribers, trouble,
                   outboxVars>>

\* reserveAll, one line.  A SKU without a stock row answers like one that is
\* sold out: what is held is released and the order fails.
ReserveLine(o, s) ==
    /\ checkout[o].pc = "reserve"
    /\ s \in checkout[o].todo
    /\ IF CanReserve(stock[s], 1)
       THEN /\ stock' = [stock EXCEPT ![s] = AfterReserve(@, 1)]
            /\ reservation' = [reservation EXCEPT ![o][s] = "PENDING"]
            /\ Proceed(o, Step("reserve", checkout[o].todo \ {s}, "none"))
       ELSE /\ Proceed(o, Step("undo", Held(o), "soldout"))
            /\ UNCHANGED ledgers
    /\ UNCHANGED <<order, payment, cancel, webhook, pg, subscribers, trouble,
                   outboxVars>>

\* Any other error leaves execute() at once: nothing is released.
ReserveFails(o) ==
    /\ Fault
    /\ checkout[o].pc = "reserve"
    /\ checkout[o].todo # {}
    /\ Proceed(o, Ended)
    /\ UNCHANGED <<order, payment, ledgers, cancel, webhook, pg, subscribers,
                   outboxVars>>

OpenPayment(o) ==
    /\ checkout[o].pc = "reserve"
    /\ checkout[o].todo = {}
    /\ SavePayment(o, "PENDING")
    /\ Proceed(o, Step("charge", {}, "none"))
    /\ UNCHANGED <<order, ledgers, cancel, webhook, pg, subscribers, trouble,
                   outboxVars>>

\* MUTANT of Charge: what is not an approval is not looked at.
ChargeUnread(o) ==
    /\ checkout[o].pc = "charge"
    /\ \E decision \in {"approved", "declined"} :
          charged' = [charged EXCEPT ![o] = decision]
    /\ Proceed(o, Step("record", {}, "approved"))
    /\ UNCHANGED <<order, payment, ledgers, cancel, webhook, refunded,
                   subscribers, trouble, outboxVars>>

\* The PG decides and its answer arrives.
Charge(o) ==
    /\ checkout[o].pc = "charge"
    /\ \E decision \in {"approved", "declined"} :
          /\ charged' = [charged EXCEPT ![o] = decision]
          /\ Proceed(o, Step("record", {}, decision))
    /\ UNCHANGED <<order, payment, ledgers, cancel, webhook, refunded,
                   subscribers, trouble, outboxVars>>

\* The call fails, whatever the PG did: the reservations are released and
\* the order is left as it is.
ChargeFails(o) ==
    /\ Fault
    /\ checkout[o].pc = "charge"
    /\ \E decision \in {"none", "approved", "declined"} :
          charged' = [charged EXCEPT ![o] = decision]
    /\ Proceed(o, Step("undo", Held(o), "unknown"))
    /\ UNCHANGED <<order, payment, ledgers, cancel, webhook, refunded,
                   subscribers, outboxVars>>

\* authorize()/decline() on the payment opened before the call, then save.
Record(o) ==
    /\ checkout[o].pc = "record"
    /\ SavePayment(o, AfterAnswer(checkout[o].answer))
    /\ Proceed(o, [checkout[o] EXCEPT !.pc = "settle"])
    /\ UNCHANGED <<order, ledgers, cancel, webhook, pg, subscribers, trouble,
                   outboxVars>>

\* Either transaction of PaymentService fails: authorize() throws.
PaymentFails(o) ==
    /\ Fault
    /\ \/ checkout[o].pc = "reserve" /\ checkout[o].todo = {}
       \/ checkout[o].pc = "record"
    /\ Proceed(o, Step("undo", Held(o), "unknown"))
    /\ UNCHANGED <<order, payment, ledgers, cancel, webhook, pg, subscribers,
                   outboxVars>>

Message(type, o, wasPaid) == [type |-> type, order |-> o, wasPaid |-> wasPaid]

\* Transaction 3: the order in memory is still PENDING_PAYMENT, and save()
\* writes its status over whatever the row says.
Settle(o) ==
    LET paid == checkout[o].answer = "approved" IN
    /\ checkout[o].pc = "settle"
    /\ SaveOrder(o, AfterPayment(checkout[o].answer))
    /\ Publish(Message(IF paid THEN "OrderPaid" ELSE "OrderPaymentFailed", o, FALSE))
    /\ Proceed(o, Ended)
    /\ UNCHANGED <<payment, ledgers, cancel, webhook, pg, subscribers, trouble>>

\* failOrder, after the last release.
FailOrder(o) ==
    /\ checkout[o] = Step("undo", {}, "soldout")
    /\ SaveOrder(o, "PAYMENT_FAILED")
    /\ Publish(Message("OrderPaymentFailed", o, FALSE))
    /\ Proceed(o, Ended)
    /\ UNCHANGED <<payment, ledgers, cancel, webhook, pg, subscribers, trouble>>

\* The request ends in an error; so does it when its last transaction fails.
GiveUp(o) ==
    /\ \/ checkout[o] = Step("undo", {}, "unknown") /\ UNCHANGED trouble
       \/ checkout[o] = Step("undo", {}, "soldout") /\ Fault
       \/ checkout[o].pc = "settle" /\ Fault
    /\ Proceed(o, Ended)
    /\ UNCHANGED <<order, payment, ledgers, cancel, webhook, pg, subscribers,
                   outboxVars>>

-----------------------------------------------------------------------------
(* Reservations.                                                            *)

\* One transaction of Inventory on one reservation.  An answer "noop" or
\* "conflict" changes nothing.
Transition(op, o, s) ==
    IF Verdict(op, reservation[o][s]) = "moved"
    THEN /\ stock' = [stock EXCEPT ![s] = Changed(op, @, 1)]
         /\ reservation' = [reservation EXCEPT ![o][s] = Target(op)]
    ELSE UNCHANGED ledgers

\* releaseAll, one reservation: a failure is logged and the next one follows.
ReleaseLine(o, s) ==
    /\ checkout[o].pc = "undo"
    /\ s \in checkout[o].todo
    /\ Proceed(o, [checkout[o] EXCEPT !.todo = @ \ {s}])
    /\ \/ Transition("release", o, s) /\ UNCHANGED trouble
       \/ Fault /\ UNCHANGED ledgers
    /\ UNCHANGED <<order, payment, cancel, webhook, pg, subscribers, outboxVars>>

Drained == sending = NoRow /\ work = {} /\ \A i \in Rows : i \notin Due /\ ~rows[i].cooling

\* MUTANT of Expire: an order whose payment has begun is left alone.
ExpireUnpaid(o, s) ==
    /\ reservation[o][s] = "PENDING"
    /\ payment[o] = "none"
    /\ ExpireEarly \/ (~Running(o) /\ Drained)
    /\ Transition("expire", o, s)
    /\ Publish(Message("StockReservationExpired", o, FALSE))
    /\ UNCHANGED <<order, payment, checkout, cancel, webhook, pg, subscribers,
                   trouble>>

\* ExpireReservationsService on one reservation whose time has come.  Unless
\* ExpireEarly, the TTL (15 minutes) outlasts the checkout and its events.
Expire(o, s) ==
    /\ reservation[o][s] = "PENDING"
    /\ ExpireEarly \/ (~Running(o) /\ Drained)
    /\ Transition("expire", o, s)
    /\ Publish(Message("StockReservationExpired", o, FALSE))
    /\ UNCHANGED <<order, payment, checkout, cancel, webhook, pg, subscribers,
                   trouble>>

-----------------------------------------------------------------------------
(* The customer and the PG.                                                 *)

\* CancelOrderService: findById, cancelBy.
CancelRead(c, o) ==
    /\ cancel[c].pc = "unsent"
    /\ CancelBy(order[o]) = "moved"
    /\ CancelEarly \/ ~Running(o)
    /\ cancel' = [cancel EXCEPT ![c] = [pc |-> "read", order |-> o, seen |-> order[o]]]
    /\ UNCHANGED <<order, payment, ledgers, checkout, webhook, pg, subscribers,
                   trouble, outboxVars>>

\* ... save, publish and commit.
CancelCommit(c) ==
    /\ cancel[c].pc = "read"
    /\ SaveOrder(cancel[c].order, CancelledTo(cancel[c].seen))
    /\ Publish(Message("OrderCancelled", cancel[c].order, WasPaid(cancel[c].seen)))
    /\ cancel' = [cancel EXCEPT ![c] = [pc |-> "answered"]]
    /\ UNCHANGED <<payment, ledgers, checkout, webhook, pg, subscribers, trouble>>

\* handleCallback: findByOrderId; a payment that has settled stays as it is.
WebhookRead(o) ==
    /\ o \notin webhook
    /\ charged[o] # "none"
    /\ payment[o] = "PENDING"
    /\ webhook' = webhook \cup {o}
    /\ UNCHANGED <<order, payment, ledgers, checkout, cancel, pg, subscribers,
                   trouble, outboxVars>>

WebhookCommit(o) ==
    /\ o \in webhook
    /\ webhook' = webhook \ {o}
    /\ SavePayment(o, AfterCallback("PENDING", charged[o] = "approved"))
    /\ UNCHANGED <<order, ledgers, checkout, cancel, pg, subscribers, trouble,
                   outboxVars>>

-----------------------------------------------------------------------------
(* The relay and the subscribers.                                           *)

NoSku == "-"
Task(i, op, s) == [row |-> i, op |-> op, order |-> rows[i].event.order, sku |-> s]

\* The transition an event asks of every reservation of its order.
Asked(event) ==
    IF event.type = "OrderPaid" THEN "confirm"
    ELSE IF event.type = "OrderCancelled" /\ event.wasPaid THEN "restore"
    ELSE "release"

\* InventoryEventSubscriber: findByOrderId, then one transaction for each.
ForInventory(i) ==
    IF rows[i].event.type \in {"OrderPaid", "OrderPaymentFailed", "OrderCancelled"}
    THEN {Task(i, Asked(rows[i].event), s) : s \in Held(rows[i].event.order)}
    ELSE {}

\* MUTANT of ForOthers: nobody subscribes to StockReservationExpired.
ForOthersButExpiry(i) ==
    IF rows[i].event.type = "OrderCancelled" /\ rows[i].event.wasPaid
    THEN {Task(i, "refund", NoSku)}
    ELSE IF rows[i].event.type = "PaymentRefunded" THEN {Task(i, "markRefunded", NoSku)}
    ELSE {}

\* PaymentEventSubscriber and OrderingEventSubscriber.
ForOthers(i) ==
    IF rows[i].event.type = "OrderCancelled" /\ rows[i].event.wasPaid
    THEN {Task(i, "refund", NoSku)}
    ELSE IF rows[i].event.type = "PaymentRefunded" THEN {Task(i, "markRefunded", NoSku)}
    ELSE IF rows[i].event.type = "StockReservationExpired" THEN {Task(i, "failOrder", NoSku)}
    ELSE {}

Tick ==
    /\ Fetch
    /\ UNCHANGED <<order, payment, ledgers, checkout, cancel, webhook, pg,
                   subscribers, trouble>>

\* Every subscriber of the row starts; findByOrderId may throw.
Deliver(i) ==
    /\ Send(i)
    /\ \/ /\ work' = work \cup ForInventory(i) \cup ForOthers(i)
          /\ rejected' = FALSE
          /\ UNCHANGED trouble
       \/ /\ ForInventory(i) # {}
          /\ Fault
          /\ work' = work \cup ForOthers(i)
          /\ rejected' = TRUE
    /\ UNCHANGED <<order, payment, ledgers, checkout, cancel, webhook, pg>>

Done(task) == work' = work \ {task} /\ UNCHANGED rejected
Then(task, op) == work' = (work \ {task}) \cup {[task EXCEPT !.op = op]} /\ UNCHANGED rejected

\* A subscriber throws.  Nobody waits any more for a task of row NoRow.
Throws(task) ==
    /\ work' = work \ {task}
    /\ rejected' = (rejected \/ task.row = sending)

\* applyEach: one reservation; its failure is logged and the others follow.
ApplyOne(task) ==
    /\ task.sku # NoSku
    /\ Done(task)
    /\ \/ Transition(task.op, task.order, task.sku) /\ UNCHANGED trouble
       \/ Fault /\ UNCHANGED ledgers
    /\ UNCHANGED <<order, payment, checkout, cancel, webhook, pg, outboxVars>>

\* MUTANT of RefundTx: the PG is not asked again, and neither is the order.
RefundTxSilent(task) ==
    /\ task.op = "refund"
    /\ IF Refund(payment[task.order]) = "moved"
       THEN /\ SavePayment(task.order, "REFUNDED")
            /\ Then(task, "pgRefund")
       ELSE Done(task) /\ UNCHANGED payment
    /\ UNCHANGED <<order, ledgers, checkout, cancel, webhook, pg, trouble, outboxVars>>

\* PaymentService.refund, the transaction.
RefundTx(task) ==
    /\ task.op = "refund"
    /\ \/ /\ Refund(payment[task.order]) = "moved"
          /\ SavePayment(task.order, "REFUNDED")
          /\ Publish(Message("PaymentRefunded", task.order, FALSE))
          /\ Then(task, "pgRefund")
       \/ /\ Refund(payment[task.order]) = "noop"
          /\ Done(task)
          /\ UNCHANGED <<payment, outboxVars>>
       \/ /\ Refund(payment[task.order]) = "conflict"
          /\ Throws(task)
          /\ UNCHANGED <<payment, outboxVars>>
    /\ UNCHANGED <<order, ledgers, checkout, cancel, webhook, pg, trouble>>

\* ... and the call of the PG after it.
PgRefund(task) ==
    /\ task.op = "pgRefund"
    /\ refunded' = refunded \cup {task.order}
    /\ Done(task)
    /\ UNCHANGED <<order, payment, ledgers, checkout, cancel, webhook, charged,
                   trouble, outboxVars>>

\* OnStockReservationExpiredService: findById; only PENDING_PAYMENT fails.
ExpiredRead(task) ==
    /\ task.op = "failOrder"
    /\ IF order[task.order] = "PENDING_PAYMENT"
       THEN Then(task, "failOrderCommit") ELSE Done(task)
    /\ UNCHANGED <<order, payment, ledgers, checkout, cancel, webhook, pg,
                   trouble, outboxVars>>

\* ... save, publish and commit.
ExpiredCommit(task) ==
    /\ task.op = "failOrderCommit"
    /\ SaveOrder(task.order, "PAYMENT_FAILED")
    /\ Publish(Message("OrderPaymentFailed", task.order, FALSE))
    /\ Done(task)
    /\ UNCHANGED <<payment, ledgers, checkout, cancel, webhook, pg, trouble>>

\* OnPaymentRefundedService.
OnPaymentRefunded(task) ==
    /\ task.op = "markRefunded"
    /\ IF MarkRefunded(order[task.order]) = "conflict"
       THEN Throws(task) /\ UNCHANGED order
       ELSE Done(task) /\ SaveOrder(task.order, "REFUNDED")
    /\ UNCHANGED <<payment, ledgers, checkout, cancel, webhook, pg, trouble,
                   outboxVars>>

\* An error of the database, or of the PG's refund, reaches the relay.
TaskFails(task) ==
    /\ Fault
    /\ task.sku = NoSku
    /\ Throws(task)
    /\ UNCHANGED <<order, payment, ledgers, checkout, cancel, webhook, pg, outboxVars>>

Act(task) ==
    \/ ApplyOne(task)
    \/ RefundTx(task)
    \/ PgRefund(task)
    \/ ExpiredRead(task)
    \/ ExpiredCommit(task)
    \/ OnPaymentRefunded(task)

\* emitAsync resolves when every subscriber has, and rejects with the first:
\* the other one then goes on with nobody waiting for it.
Conclude ==
    /\ \/ /\ ~rejected
          /\ \A task \in work : task.row # sending
          /\ MarkPublished
          /\ UNCHANGED work
       \/ /\ rejected
          /\ RecordFailure
          /\ work' = {IF task.row = sending THEN [task EXCEPT !.row = NoRow] ELSE task :
                         task \in work}
    /\ rejected' = FALSE
    /\ UNCHANGED <<order, payment, ledgers, checkout, cancel, webhook, pg, trouble>>

BackoffEnds(i) ==
    /\ CoolDown(i)
    /\ UNCHANGED <<order, payment, ledgers, checkout, cancel, webhook, pg,
                   subscribers, trouble>>

\* The process stops: what it held in memory is gone, open transactions are
\* rolled back.
Crash ==
    /\ crashes < MaxCrashes
    /\ crashes' = crashes + 1
    /\ checkout' = [o \in Order |-> IF Running(o) THEN Ended ELSE checkout[o]]
    /\ cancel' = [c \in CancelRequest |->
                     IF cancel[c].pc = "read" THEN [pc |-> "answered"] ELSE cancel[c]]
    /\ webhook' = {}
    /\ work' = {}
    /\ rejected' = FALSE
    /\ AbortRun
    /\ UNCHANGED <<order, payment, ledgers, pg, faults>>

-----------------------------------------------------------------------------
Advance(o) ==
    \/ \E s \in Sku : ReserveLine(o, s) \/ ReleaseLine(o, s)
    \/ OpenPayment(o)
    \/ Charge(o)
    \/ Record(o)
    \/ Settle(o)
    \/ FailOrder(o)
    \/ GiveUp(o)

SomeDelivery == \E i \in Rows : Deliver(i)
SomeAct == \E task \in work : Act(task)
SomeBackoffEnds == \E i \in Rows : BackoffEnds(i)

Next ==
    \/ \E o \in Order, lines \in (SUBSET Sku) \ {{}} : Assemble(o, lines)
    \/ \E o \in Order : Advance(o)
    \/ \E o \in Order : ReserveFails(o) \/ ChargeFails(o) \/ PaymentFails(o)
    \/ \E o \in Order, s \in Sku : Expire(o, s)
    \/ \E c \in CancelRequest, o \in Order : CancelRead(c, o)
    \/ \E c \in CancelRequest : CancelCommit(c)
    \/ \E o \in Order : WebhookRead(o) \/ WebhookCommit(o)
    \/ Tick
    \/ SomeDelivery
    \/ SomeAct
    \/ \E task \in work : TaskFails(task)
    \/ Conclude
    \/ SomeBackoffEnds
    \/ Crash

Spec == Init /\ [][Next]_vars

(***************************************************************************)
(* A request that has begun goes on until it ends or the process stops,    *)
(* both schedulers keep ticking, and a subscriber that was called runs.    *)
(* Customers, the PG's webhook, faults and crashes are under no obligation.*)
(***************************************************************************)
Fairness ==
    /\ \A o \in Order : WF_vars(Advance(o))
    /\ \A o \in Order, s \in Sku : WF_vars(Expire(o, s))
    /\ \A c \in CancelRequest : WF_vars(CancelCommit(c))
    /\ WF_vars(Tick)
    /\ WF_vars(SomeDelivery)
    /\ WF_vars(SomeAct)
    /\ WF_vars(Conclude)
    /\ WF_vars(SomeBackoffEnds)

LiveSpec == Spec /\ Fairness

-----------------------------------------------------------------------------
(* Properties.                                                              *)

TaskOps == {"confirm", "release", "restore", "refund", "pgRefund", "failOrder",
            "failOrderCommit", "markRefunded"}
EventTypes == {"OrderPaid", "OrderPaymentFailed", "OrderCancelled",
               "PaymentRefunded", "StockReservationExpired"}
CheckoutPc == {"idle", "reserve", "undo", "charge", "record", "settle", "done"}
Answers == {"none", "approved", "declined", "soldout", "unknown"}

\* Every piece of state has its type; the counters of the stock rows never
\* go below zero although events are delivered twice and out of order.
TypeOK ==
    /\ order \in [Order -> OrderStatus \cup {"none"}]
    /\ payment \in [Order -> PaymentStatus \cup {"none"}]
    /\ reservation \in [Order -> [Sku -> ReservationStatus \cup {"none"}]]
    /\ stock \in [Sku -> [onHand : Nat, reserved : Nat]]
    /\ checkout \in [Order -> [pc : CheckoutPc, todo : SUBSET Sku, answer : Answers]]
    /\ cancel \in [CancelRequest ->
                      [pc : {"unsent", "answered"}]
                      \cup [pc : {"read"}, order : Order, seen : {"PENDING_PAYMENT", "PAID"}]]
    /\ webhook \subseteq Order
    /\ charged \in [Order -> {"none", "approved", "declined"}]
    /\ refunded \subseteq Order
    /\ work \subseteq [row : Rows \cup {NoRow}, op : TaskOps, order : Order,
                       sku : Sku \cup {NoSku}]
    /\ rejected \in BOOLEAN
    /\ \A i \in Rows : /\ rows[i].event.type \in EventTypes
                       /\ rows[i].attempts \in 0..MaxAttempts
    /\ fetched \subseteq Rows
    /\ sending \in Rows \cup {NoRow}

Announced(type, o, wasPaid) == \E i \in Rows : rows[i].event = Message(type, o, wasPaid)

\* Goods leave only for money: a unit is confirmed, and given back later, only
\* if the PG approved the charge, however answers, webhooks, cancellations
\* and redelivered events interleave.
GoodsFollowMoney ==
    \A o \in Order, s \in Sku :
        reservation[o][s] \in {"CONFIRMED", "RESTORED"} => charged[o] = "approved"

\* An order that says it was paid has a payment that says so, and the PG
\* agrees: the three are written by different transactions.
PaidIsAuthorized ==
    \A o \in Order :
        order[o] \in {"PAID", "REFUND_PENDING", "REFUNDED"} =>
            /\ payment[o] \in {"AUTHORIZED", "REFUNDED"}
            /\ charged[o] = "approved"

\* Money is given back only for an order that was paid and then cancelled,
\* and only after the refund was recorded and announced to Ordering.
RefundFollowsCancel ==
    \A o \in Order :
        /\ payment[o] = "REFUNDED" \/ o \in refunded =>
              /\ Announced("OrderPaid", o, FALSE)
              /\ Announced("OrderCancelled", o, TRUE)
        /\ o \in refunded \/ order[o] = "REFUNDED" => Announced("PaymentRefunded", o, FALSE)

\* When nothing is under way for an order any more, its stock agrees with its
\* status: sold if it is PAID, given back if it was refunded,
\* free if it failed or was cancelled.
Quiet(o) ==
    /\ ~Running(o)
    /\ Drained
    /\ \A c \in CancelRequest : cancel[c].pc # "read"
StockFollowsOrder ==
    \A o \in Order : Quiet(o) =>
        LET statuses == {reservation[o][s] : s \in Held(o)} IN
        /\ order[o] = "PAID" => statuses = {"CONFIRMED"}
        /\ order[o] = "REFUNDED" => statuses = {"RESTORED"}
        /\ order[o] \in {"PAYMENT_FAILED", "CANCELLED"} =>
              statuses \subseteq {"RELEASED", "EXPIRED"}

\* The saga's last resort: an order whose request is gone and that still
\* holds units does not wait for its payment for ever (README, step 5).
TtlEndsTheOrder ==
    \A o \in Order :
        /\ order[o] = "PENDING_PAYMENT"
        /\ ~Running(o)
        /\ \E s \in Sku : reservation[o][s] = "PENDING"
        ~> order[o] # "PENDING_PAYMENT"

\* No unit stays reserved: a crash between any two steps leaves it to the
\* expiry of its reservation.
UnitsComeBack ==
    \A o \in Order, s \in Sku : reservation[o][s] = "PENDING" ~> reservation[o][s] # "PENDING"

\* A paid order that is cancelled reaches REFUNDED.
RefundCompletes ==
    \A o \in Order : order[o] = "REFUND_PENDING" ~> order[o] = "REFUNDED"

\* The life cycle drawn in README: PAID is reached from PENDING_PAYMENT and
\* from nowhere else, so a cancelled order is never paid afterwards.
PaidOnlyFromPending ==
    [][\A o \in Order :
          order'[o] = "PAID" /\ order[o] # "PAID" => order[o] = "PENDING_PAYMENT"]_vars

\* README, step 5: whatever step is lost, the expiry scan ends the order.
EveryOrderEnds == \A o \in Order : order[o] = "PENDING_PAYMENT" ~> order[o] # "PENDING_PAYMENT"

\* The comment on recordCallback: a callback that comes late does not bring
\* back the money of a payment that was refunded.
RefundIsFinal == [][\A o \in Order : payment[o] = "REFUNDED" => payment'[o] = "REFUNDED"]_vars

\* The comment in PaymentService.refund: a refund recorded but not yet asked
\* of the PG is made good by the retry.
RefundReachesPg == \A o \in Order : payment[o] = "REFUNDED" ~> o \in refunded

=============================================================================
