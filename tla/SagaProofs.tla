----------------------------- MODULE SagaProofs -----------------------------
(***************************************************************************)
(* Theorems about OrderSaga, for any number of orders, SKUs, cancel        *)
(* requests, units, faults and crashes, whether customers cancel and       *)
(* reservations expire early or late.  Only the last theorem, that stock   *)
(* follows the order, supposes that they do not and that nothing fails but *)
(* the process: Orderly says so.                                           *)
(***************************************************************************)
EXTENDS OrderSaga, OutboxProofs, FiniteSetTheorems

SagaEvent == [type : EventTypes, order : Order, wasPaid : BOOLEAN]

\* Tasks on a reservation, and the others.
LineOps == {"confirm", "release", "restore"}

SagaTypes ==
    /\ order \in [Order -> OrderStatus \cup {"none"}]
    /\ payment \in [Order -> PaymentStatus \cup {"none"}]
    /\ reservation \in [Order -> [Sku -> ReservationStatus \cup {"none"}]]
    /\ checkout \in [Order -> [pc : CheckoutPc, todo : SUBSET Sku, answer : Answers]]
    /\ cancel \in [CancelRequest ->
                      [pc : {"unsent", "answered"}]
                      \cup [pc : {"read"}, order : Order, seen : {"PENDING_PAYMENT", "PAID"}]]
    /\ webhook \subseteq Order
    /\ charged \in [Order -> {"none", "approved", "declined"}]
    /\ refunded \subseteq Order
    /\ work \subseteq [row : Rows \cup {NoRow}, op : TaskOps, order : Order,
                       sku : Sku \cup {NoSku}]
    /\ rejected \in BOOLEAN
    /\ \A task \in work : task.op \in LineOps \/ task.sku = NoSku
    /\ OutboxInv(SagaEvent)

-----------------------------------------------------------------------------
(* Money.                                                                   *)

\* The three facts that different transactions leave behind when an order
\* has been paid.  None of them is ever taken back.
Sold(o) ==
    /\ charged[o] = "approved"
    /\ payment[o] \in {"AUTHORIZED", "REFUNDED"}
    /\ checkout[o].pc = "done"
    /\ Announced("OrderPaid", o, FALSE)

\* A paid order was cancelled; its payment was given back.
Cancelled(o) == Announced("OrderCancelled", o, TRUE)
Repaid(o) == Announced("PaymentRefunded", o, FALSE)

SoldOrders == {o \in Order : Sold(o)}
CancelledOrders == {o \in Order : Cancelled(o)}
RepaidOrders == {o \in Order : Repaid(o)}

\* What the PG said and what the checkout holds in memory are the same until
\* the order is saved, and no order is paid for twice.
ChargeInv ==
    \A o \in Order :
        /\ checkout[o].pc \in {"idle", "reserve", "charge"} => charged[o] = "none"
        /\ checkout[o].pc \in {"record", "settle"} =>
              /\ checkout[o].answer \in {"approved", "declined"}
              /\ charged[o] = checkout[o].answer
        /\ checkout[o].pc = "settle" /\ checkout[o].answer = "approved"
              => payment[o] \in {"AUTHORIZED", "REFUNDED"}

\* Every trace of money has its cause in the table of events.
EventBacked(event) ==
    /\ event.type # "OrderCancelled" => event.wasPaid = FALSE
    /\ event.type = "OrderPaid" => event.order \in SoldOrders
    /\ event.type = "OrderCancelled" /\ event.wasPaid => event.order \in SoldOrders
    /\ event.type = "PaymentRefunded" => event.order \in CancelledOrders

TaskBacked(task) ==
    /\ task.op = "confirm" => task.order \in SoldOrders
    /\ task.op \in {"refund", "pgRefund"} => task.order \in CancelledOrders
    /\ task.op \in {"pgRefund", "markRefunded"} => task.order \in RepaidOrders

OrderBacked(o) ==
    /\ order[o] \in {"PAID", "REFUND_PENDING", "REFUNDED"} => o \in SoldOrders
    /\ order[o] = "REFUNDED" => o \in RepaidOrders

PaymentBacked(o) ==
    /\ payment[o] = "REFUNDED" => o \in CancelledOrders
    /\ o \in refunded => o \in RepaidOrders

MoneyInv ==
    /\ ChargeInv
    /\ \A i \in Rows : EventBacked(rows[i].event)
    /\ \A task \in work : TaskBacked(task)
    /\ \A c \in CancelRequest :
          cancel[c].pc = "read" /\ cancel[c].seen = "PAID" => cancel[c].order \in SoldOrders
    /\ \A o \in Order : OrderBacked(o) /\ PaymentBacked(o)
    /\ \A o \in Order, s \in Sku :
          reservation[o][s] \in {"CONFIRMED", "RESTORED"} => o \in SoldOrders

-----------------------------------------------------------------------------
(* Units.                                                                   *)

\* The orders that hold a unit of a SKU.
Holders(reservations, s) == {o \in Order : reservations[o][s] = "PENDING"}

\* A line still to be reserved has no reservation yet.
LinesInv ==
    \A o \in Order, s \in Sku :
        \/ checkout[o].pc = "idle"
        \/ checkout[o].pc = "reserve" /\ s \in checkout[o].todo
        => reservation[o][s] = "none"

\* The counters of a SKU agree with the reservations: a transition always
\* finds the unit it gives back or takes away.
UnitsInv ==
    \A s \in Sku :
        /\ stock[s] \in [onHand : Nat, reserved : Nat]
        /\ IsFiniteSet(Holders(reservation, s))
        /\ stock[s].reserved = Cardinality(Holders(reservation, s))
        /\ stock[s].reserved <= stock[s].onHand

ShelfInv == stock \in [Sku -> [onHand : Nat, reserved : Nat]] /\ LinesInv /\ UnitsInv

SagaInv == SagaTypes /\ MoneyInv /\ ShelfInv

-----------------------------------------------------------------------------
(* Who writes what.                                                         *)

\* Only these steps write orders.status.
LEMMA OrderWriters ==
    ASSUME [Next]_vars
    PROVE  \/ order' = order
           \/ \E o \in Order : \/ \E lines \in (SUBSET Sku) \ {{}} : Assemble(o, lines)
                               \/ Settle(o)
                               \/ FailOrder(o)
           \/ \E c \in CancelRequest : CancelCommit(c)
           \/ \E task \in work : ExpiredCommit(task) \/ OnPaymentRefunded(task)
  BY DEF Next, Advance, SomeDelivery, SomeAct, SomeBackoffEnds, Act, vars, Tick,
         ReserveLine, ReleaseLine, OpenPayment, Charge, Record, GiveUp, ReserveFails,
         ChargeFails, PaymentFails, Expire, CancelRead, WebhookRead, WebhookCommit,
         Deliver, ApplyOne, RefundTx, PgRefund, ExpiredRead, TaskFails, Conclude,
         BackoffEnds, Crash

\* Only these steps write payments.status.
LEMMA PaymentWriters ==
    ASSUME [Next]_vars
    PROVE  \/ payment' = payment
           \/ \E o \in Order : OpenPayment(o) \/ Record(o) \/ WebhookCommit(o)
           \/ \E task \in work : RefundTx(task)
  BY DEF Next, Advance, SomeDelivery, SomeAct, SomeBackoffEnds, Act, vars, Tick,
         ReserveLine, ReleaseLine, Charge, Settle, FailOrder, GiveUp, ReserveFails,
         ChargeFails, PaymentFails, Expire, CancelRead, CancelCommit, WebhookRead,
         Deliver, ApplyOne, PgRefund, ExpiredRead, ExpiredCommit, OnPaymentRefunded,
         TaskFails, Conclude, BackoffEnds, Crash, Assemble

\* Only these steps write reservations and stock rows.
LEMMA LedgerWriters ==
    ASSUME [Next]_vars
    PROVE  \/ reservation' = reservation /\ stock' = stock
           \/ \E o \in Order, s \in Sku :
                 ReserveLine(o, s) \/ ReleaseLine(o, s) \/ Expire(o, s)
           \/ \E task \in work : ApplyOne(task)
  BY DEF Next, Advance, SomeDelivery, SomeAct, SomeBackoffEnds, Act, vars, ledgers, Tick,
         OpenPayment, Charge, Record, Settle, FailOrder, GiveUp, ReserveFails,
         ChargeFails, PaymentFails, CancelRead, CancelCommit, WebhookRead,
         WebhookCommit, Deliver, RefundTx, PgRefund, ExpiredRead, ExpiredCommit,
         OnPaymentRefunded, TaskFails, Conclude, BackoffEnds, Crash, Assemble

\* The steps of the requests, and the crash that ends them.
CheckoutStep(o) ==
    \/ \E lines \in (SUBSET Sku) \ {{}} : Assemble(o, lines)
    \/ \E s \in Sku : ReserveLine(o, s) \/ ReleaseLine(o, s)
    \/ OpenPayment(o) \/ Charge(o) \/ Record(o) \/ Settle(o) \/ FailOrder(o)
    \/ GiveUp(o) \/ ReserveFails(o) \/ ChargeFails(o) \/ PaymentFails(o)

\* Only they move a request on.
LEMMA CheckoutWriters ==
    ASSUME [Next]_vars
    PROVE  \/ checkout' = checkout
           \/ \E o \in Order : CheckoutStep(o)
           \/ Crash
  BY DEF Next, Advance, SomeDelivery, SomeAct, SomeBackoffEnds, Act, vars, Tick,
         CheckoutStep, Expire, CancelRead, CancelCommit, WebhookRead,
         WebhookCommit, Deliver, ApplyOne, RefundTx, PgRefund, ExpiredRead, ExpiredCommit,
         OnPaymentRefunded, TaskFails, Conclude, BackoffEnds

\* Only these steps change what a cancel request or a webhook has read.
LEMMA CancelWriters ==
    ASSUME [Next]_vars
    PROVE  \/ cancel' = cancel
           \/ \E c \in CancelRequest, o \in Order : CancelRead(c, o)
           \/ \E c \in CancelRequest : CancelCommit(c)
           \/ Crash
  BY DEF Next, Advance, SomeDelivery, SomeAct, SomeBackoffEnds, Act, vars, Tick,
         ReserveLine, ReleaseLine, OpenPayment, Charge, Record, Settle, FailOrder,
         GiveUp, ReserveFails, ChargeFails, PaymentFails, Expire, WebhookRead,
         WebhookCommit, Deliver, ApplyOne, RefundTx, PgRefund, ExpiredRead, ExpiredCommit,
         OnPaymentRefunded, TaskFails, Conclude, BackoffEnds, Assemble

\* Only the two transactions of a webhook, and a crash of the API, change which
\* orders have one under way.
LEMMA WebhookWriters ==
    ASSUME [Next]_vars
    PROVE  \/ webhook' = webhook
           \/ \E o \in Order : WebhookRead(o) \/ WebhookCommit(o)
           \/ Crash
  BY DEF Next, Advance, SomeDelivery, SomeAct, SomeBackoffEnds, Act, vars, Tick,
         ReserveLine, ReleaseLine, OpenPayment, Charge, Record, Settle, FailOrder,
         GiveUp, ReserveFails, ChargeFails, PaymentFails, Expire, CancelRead, CancelCommit,
         Deliver, ApplyOne, RefundTx, PgRefund, ExpiredRead, ExpiredCommit,
         OnPaymentRefunded, TaskFails, Conclude, BackoffEnds, Assemble

\* Only these steps are decisions of the PG.
LEMMA PgWriters ==
    ASSUME [Next]_vars
    PROVE  /\ charged' = charged \/ \E o \in Order : Charge(o) \/ ChargeFails(o)
           /\ refunded' = refunded \/ \E task \in work : PgRefund(task)
  <1>1. charged' = charged \/ \E o \in Order : Charge(o) \/ ChargeFails(o)
    BY DEF Next, Advance, SomeDelivery, SomeAct, SomeBackoffEnds, Act, vars, pg, Tick,
           ReserveLine, ReleaseLine, OpenPayment, Record, Settle, FailOrder,
           GiveUp, ReserveFails, PaymentFails, Expire, CancelRead, CancelCommit,
           WebhookRead, WebhookCommit, Deliver, ApplyOne, RefundTx, PgRefund, ExpiredRead,
           ExpiredCommit, OnPaymentRefunded, TaskFails, Conclude, BackoffEnds, Crash,
           Assemble
  <1>2. refunded' = refunded \/ \E task \in work : PgRefund(task)
    BY DEF Next, Advance, SomeDelivery, SomeAct, SomeBackoffEnds, Act, vars, pg, Tick,
           ReserveLine, ReleaseLine, OpenPayment, Charge, Record, Settle, FailOrder,
           GiveUp, ReserveFails, ChargeFails, PaymentFails, Expire, CancelRead, CancelCommit,
           WebhookRead, WebhookCommit, Deliver, ApplyOne, RefundTx, ExpiredRead,
           ExpiredCommit, OnPaymentRefunded, TaskFails, Conclude, BackoffEnds, Crash,
           Assemble
  <1> QED
    BY <1>1, <1>2

\* Only these steps change what the subscribers have still to do.
LEMMA WorkWriters ==
    ASSUME [Next]_vars
    PROVE  \/ work' = work /\ rejected' = rejected
           \/ \E i \in Rows : Deliver(i)
           \/ \E task \in work : Act(task) \/ TaskFails(task)
           \/ Conclude
           \/ Crash
  BY DEF Next, Advance, SomeDelivery, SomeAct, SomeBackoffEnds, vars, subscribers, Tick,
         ReserveLine, ReleaseLine, OpenPayment, Charge, Record, Settle, FailOrder,
         GiveUp, ReserveFails, ChargeFails, PaymentFails, Expire, CancelRead, CancelCommit,
         WebhookRead, WebhookCommit, BackoffEnds, Assemble

\* Only these steps publish, and these events.
Published(event) ==
    \/ \E o \in Order :
          \/ /\ Settle(o)
             /\ event = Message(IF checkout[o].answer = "approved" THEN "OrderPaid"
                                ELSE "OrderPaymentFailed", o, FALSE)
          \/ FailOrder(o) /\ event = Message("OrderPaymentFailed", o, FALSE)
          \/ \E s \in Sku : /\ Expire(o, s)
                            /\ event = Message("StockReservationExpired", o, FALSE)
    \/ \E c \in CancelRequest :
          /\ CancelCommit(c)
          /\ event = Message("OrderCancelled", cancel[c].order, WasPaid(cancel[c].seen))
    \/ \E task \in work :
          \/ /\ RefundTx(task)
             /\ Refund(payment[task.order]) = "moved"
             /\ event = Message("PaymentRefunded", task.order, FALSE)
          \/ /\ ExpiredCommit(task)
             /\ event = Message("OrderPaymentFailed", task.order, FALSE)

\* A step leaves the outbox's rows as they are, or it is the transaction that
\* publishes one event, in the one place of the code that does.
LEMMA OutboxWriters ==
    ASSUME SagaTypes, [Next]_vars
    PROVE  Silent \/ \E event \in SagaEvent : Publish(event) /\ Published(event)
  <1> DEFINE Loud == \E event \in SagaEvent : Publish(event) /\ Published(event)
  <1>1. \/ UNCHANGED outboxVars
        \/ \E o \in Order : Settle(o) \/ FailOrder(o) \/ \E s \in Sku : Expire(o, s)
        \/ \E c \in CancelRequest : CancelCommit(c)
        \/ Tick
        \/ \E i \in Rows : Deliver(i) \/ BackoffEnds(i)
        \/ \E task \in work : RefundTx(task) \/ ExpiredCommit(task)
        \/ Conclude
        \/ Crash
    BY DEF Next, Advance, SomeDelivery, SomeAct, SomeBackoffEnds, Act, vars,
           ReserveLine, ReleaseLine, OpenPayment, Charge, Record,
           GiveUp, ReserveFails, ChargeFails, PaymentFails, CancelRead,
           WebhookRead, WebhookCommit, ApplyOne, PgRefund, ExpiredRead,
           OnPaymentRefunded, TaskFails, Assemble
  <1>2. ASSUME NEW o \in Order, Settle(o) PROVE Loud
    <2> DEFINE event == Message(IF checkout[o].answer = "approved" THEN "OrderPaid"
                                ELSE "OrderPaymentFailed", o, FALSE)
    <2>1. event \in SagaEvent
      BY DEF Message, SagaEvent, EventTypes
    <2>2. Publish(event)
      BY <1>2 DEF Settle
    <2>3. Published(event)
      BY <1>2 DEF Published
    <2> QED
      BY <2>1, <2>2, <2>3
  <1>3. ASSUME NEW o \in Order, FailOrder(o) PROVE Loud
    <2> DEFINE event == Message("OrderPaymentFailed", o, FALSE)
    <2>1. event \in SagaEvent
      BY DEF Message, SagaEvent, EventTypes
    <2>2. Publish(event)
      BY <1>3 DEF FailOrder
    <2>3. Published(event)
      BY <1>3 DEF Published
    <2> QED
      BY <2>1, <2>2, <2>3
  <1>4. ASSUME NEW o \in Order, NEW s \in Sku, Expire(o, s) PROVE Loud
    <2> DEFINE event == Message("StockReservationExpired", o, FALSE)
    <2>1. event \in SagaEvent
      BY DEF Message, SagaEvent, EventTypes
    <2>2. Publish(event)
      BY <1>4 DEF Expire
    <2>3. Published(event)
      BY <1>4 DEF Published
    <2> QED
      BY <2>1, <2>2, <2>3
  <1>5. ASSUME NEW c \in CancelRequest, CancelCommit(c) PROVE Loud
    <2> DEFINE event == Message("OrderCancelled", cancel[c].order, WasPaid(cancel[c].seen))
    <2>1. cancel[c].order \in Order
      BY <1>5 DEF CancelCommit, SagaTypes
    <2>2. event \in SagaEvent
      BY <2>1 DEF Message, SagaEvent, EventTypes, WasPaid
    <2>3. Publish(event)
      BY <1>5 DEF CancelCommit
    <2>4. Published(event)
      BY <1>5 DEF Published
    <2> QED
      BY <2>2, <2>3, <2>4
  <1>6. ASSUME NEW task \in work, RefundTx(task) PROVE Silent \/ Loud
    <2> DEFINE event == Message("PaymentRefunded", task.order, FALSE)
    <2>1. task.order \in Order
      BY DEF SagaTypes
    <2>2. event \in SagaEvent
      BY <2>1 DEF Message, SagaEvent, EventTypes
    <2>3. CASE Refund(payment[task.order]) = "moved" /\ Publish(event)
      <3>1. Published(event)
        BY <1>6, <2>3 DEF Published
      <3> QED
        BY <2>2, <2>3, <3>1
    <2>4. CASE UNCHANGED outboxVars
      BY <2>4 DEF Silent
    <2> QED
      BY <1>6, <2>3, <2>4 DEF RefundTx
  <1>7. ASSUME NEW task \in work, ExpiredCommit(task) PROVE Loud
    <2> DEFINE event == Message("OrderPaymentFailed", task.order, FALSE)
    <2>1. task.order \in Order
      BY DEF SagaTypes
    <2>2. event \in SagaEvent
      BY <2>1 DEF Message, SagaEvent, EventTypes
    <2>3. Publish(event)
      BY <1>7 DEF ExpiredCommit
    <2>4. Published(event)
      BY <1>7 DEF Published
    <2> QED
      BY <2>2, <2>3, <2>4
  <1>8. Tick \/ Conclude \/ Crash \/ (\E i \in Rows : Deliver(i) \/ BackoffEnds(i))
          => Silent
    BY DEF Tick, Conclude, Crash, Deliver, BackoffEnds, Silent
  <1> HIDE DEF Loud
  <1>9. Silent \/ Loud
    BY <1>1, <1>2, <1>3, <1>4, <1>5, <1>6, <1>7, <1>8 DEF Silent
  <1> QED
    BY <1>9 DEF Loud

\* What a step does to the table of events.
LEMMA NextOutbox ==
    ASSUME SagaTypes, [Next]_vars
    PROVE  /\ OutboxInv(SagaEvent)'
           /\ Rows \subseteq Rows'
           /\ \A i \in Rows : rows'[i].event = rows[i].event
           /\ \/ SameEvents
              \/ \E event \in SagaEvent : NewEvent(event) /\ Published(event)
  <1> DEFINE Goal == /\ OutboxInv(SagaEvent)'
                     /\ Rows \subseteq Rows'
                     /\ \A i \in Rows : rows'[i].event = rows[i].event
                     /\ \/ SameEvents
                        \/ \E event \in SagaEvent : NewEvent(event) /\ Published(event)
  <1>1. OutboxInv(SagaEvent)
    BY DEF SagaTypes
  <1>2. ASSUME Silent PROVE Goal
    <2>1. OutboxInv(SagaEvent)' /\ Rows \subseteq Rows' /\ SameEvents
      BY <1>1, <1>2, SilentStep
    <2> QED
      BY <2>1 DEF SameEvents
  <1>3. ASSUME NEW event \in SagaEvent, Publish(event), Published(event) PROVE Goal
    <2>1. /\ OutboxInv(SagaEvent)' /\ Rows \subseteq Rows' /\ NewEvent(event)
          /\ \A i \in Rows : rows'[i].event = rows[i].event
      BY <1>1, <1>3, LoudStep
    <2> QED
      BY <1>3, <2>1
  <1> HIDE DEF Goal
  <1>4. Goal
    BY <1>2, <1>3, OutboxWriters
  <1> QED
    BY <1>4 DEF Goal

\* Events are announced for ever.
LEMMA AnnouncedForEver ==
    ASSUME SagaTypes, [Next]_vars, NEW type, NEW o, NEW wasPaid,
           Announced(type, o, wasPaid)
    PROVE  Announced(type, o, wasPaid)'
  BY NextOutbox DEF Announced, Message

-----------------------------------------------------------------------------
(* Types.                                                                   *)

\* orders.status stays one of its values (save in the order repository).
LEMMA OrderType ==
    ASSUME SagaTypes, [Next]_vars
    PROVE  order' \in [Order -> OrderStatus \cup {"none"}]
  <1>1. order \in [Order -> OrderStatus \cup {"none"}]
    BY DEF SagaTypes
  <1>2. ASSUME NEW o, NEW status \in OrderStatus, SaveOrder(o, status)
        PROVE  order' \in [Order -> OrderStatus \cup {"none"}]
    BY <1>1, <1>2 DEF SaveOrder
  <1>3. ASSUME NEW o \in Order, Settle(o) \/ FailOrder(o)
        PROVE  \E status \in OrderStatus : SaveOrder(o, status)
    BY <1>3 DEF Settle, FailOrder, AfterPayment, OrderStatus
  <1>4. ASSUME NEW o \in Order, NEW lines, Assemble(o, lines)
        PROVE  \E status \in OrderStatus : SaveOrder(o, status)
    BY <1>4 DEF Assemble, OrderStatus
  <1>5. ASSUME NEW c \in CancelRequest, CancelCommit(c)
        PROVE  \E status \in OrderStatus : SaveOrder(cancel[c].order, status)
    BY <1>5 DEF CancelCommit, CancelledTo, OrderStatus
  <1>6. ASSUME NEW task \in work, ExpiredCommit(task)
        PROVE  \E status \in OrderStatus : SaveOrder(task.order, status)
    BY <1>6 DEF ExpiredCommit, OrderStatus
  <1>7. ASSUME NEW task \in work, OnPaymentRefunded(task)
        PROVE  order' = order \/ \E status \in OrderStatus : SaveOrder(task.order, status)
    BY <1>7 DEF OnPaymentRefunded, OrderStatus
  <1> QED
    BY <1>1, <1>2, <1>3, <1>4, <1>5, <1>6, <1>7, OrderWriters

\* payments.status stays one of its values (save in the payment repository).
LEMMA PaymentType ==
    ASSUME SagaTypes, [Next]_vars
    PROVE  payment' \in [Order -> PaymentStatus \cup {"none"}]
  <1>1. payment \in [Order -> PaymentStatus \cup {"none"}]
    BY DEF SagaTypes
  <1>2. ASSUME NEW o, NEW status \in PaymentStatus, SavePayment(o, status)
        PROVE  payment' \in [Order -> PaymentStatus \cup {"none"}]
    BY <1>1, <1>2 DEF SavePayment
  <1>3. ASSUME NEW o \in Order, OpenPayment(o) \/ Record(o) \/ WebhookCommit(o)
        PROVE  \E status \in PaymentStatus : SavePayment(o, status)
    BY <1>3 DEF OpenPayment, Record, WebhookCommit, AfterAnswer, AfterCallback,
                PaymentStatus
  <1>4. ASSUME NEW task \in work, RefundTx(task)
        PROVE  payment' = payment \/ SavePayment(task.order, "REFUNDED")
    BY <1>4 DEF RefundTx
  <1> QED
    BY <1>1, <1>2, <1>3, <1>4, PaymentWriters DEF PaymentStatus

\* A transition that moves leaves one of the statuses of the table, and comes
\* from PENDING, or from CONFIRMED if it is a restore.
LEMMA MovesFrom ==
    ASSUME NEW op, NEW status, Verdict(op, status) = "moved"
    PROVE  /\ Target(op) \in ReservationStatus \ {"PENDING"}
           /\ op = "restore" => status = "CONFIRMED"
           /\ op # "restore" => status = "PENDING"
           /\ Target(op) = "RESTORED" => op = "restore"
           /\ Target(op) = "CONFIRMED" <=> op = "confirm"
  BY DEF Verdict, ConfirmVerdict, ReleaseVerdict, ExpireVerdict, RestoreVerdict,
         Target, ReservationStatus

\* What a step may do to reservations and stock rows.
Reserved(o, s) ==
    /\ checkout[o].pc = "reserve"
    /\ s \in checkout[o].todo
    /\ CanReserve(stock[s], 1)
    /\ stock' = [stock EXCEPT ![s] = AfterReserve(@, 1)]
    /\ reservation' = [reservation EXCEPT ![o][s] = "PENDING"]
    /\ Proceed(o, Step("reserve", checkout[o].todo \ {s}, "none"))
Moved(op, o, s) ==
    /\ Verdict(op, reservation[o][s]) = "moved"
    /\ stock' = [stock EXCEPT ![s] = Changed(op, @, 1)]
    /\ reservation' = [reservation EXCEPT ![o][s] = Target(op)]

\* Inventory moves one reservation and its SKU's counters together, in one
\* transaction: it is made by a checkout or moved by a verdict that allows it,
\* and it is confirmed for the sake of a confirm task only.
LEMMA LedgerSteps ==
    ASSUME SagaTypes, [Next]_vars
    PROVE  \/ reservation' = reservation /\ stock' = stock
           \/ \E o \in Order, s \in Sku :
                 \/ Reserved(o, s)
                 \/ \E op \in LineOps \cup {"expire"} :
                       /\ Moved(op, o, s)
                       /\ op = "confirm" =>
                            \E task \in work : task.op = "confirm" /\ task.order = o
  <1> DEFINE Goal ==
           \/ reservation' = reservation /\ stock' = stock
           \/ \E o \in Order, s \in Sku :
                 \/ Reserved(o, s)
                 \/ \E op \in LineOps \cup {"expire"} :
                       /\ Moved(op, o, s)
                       /\ op = "confirm" =>
                            \E task \in work : task.op = "confirm" /\ task.order = o
  <1>1. ASSUME NEW o \in Order, NEW s \in Sku, ReserveLine(o, s) PROVE Goal
    BY <1>1 DEF ReserveLine, Reserved, ledgers
  <1>2. ASSUME NEW o \in Order, NEW s \in Sku, ReleaseLine(o, s) PROVE Goal
    <2>1. Moved("release", o, s) \/ UNCHANGED ledgers
      BY <1>2 DEF ReleaseLine, Transition, Moved
    <2> QED
      BY <2>1 DEF ledgers, LineOps
  <1>3. ASSUME NEW o \in Order, NEW s \in Sku, Expire(o, s) PROVE Goal
    <2>1. Moved("expire", o, s) \/ UNCHANGED ledgers
      BY <1>3 DEF Expire, Transition, Moved
    <2> QED
      BY <2>1 DEF ledgers, LineOps
  <1>4. ASSUME NEW task \in work, ApplyOne(task) PROVE Goal
    <2>1. /\ task.order \in Order
          /\ task.sku \in Sku
          /\ task.op \in LineOps
      BY <1>4 DEF ApplyOne, SagaTypes
    <2>2. Moved(task.op, task.order, task.sku) \/ UNCHANGED ledgers
      BY <1>4 DEF ApplyOne, Transition, Moved
    <2> QED
      BY <2>1, <2>2 DEF ledgers
  <1> HIDE DEF Goal
  <1>5. (reservation' = reservation /\ stock' = stock) => Goal
    BY DEF Goal
  <1>6. Goal
    BY <1>1, <1>2, <1>3, <1>4, <1>5, LedgerWriters
  <1> QED
    BY <1>6 DEF Goal

\* reservations.status stays one of its values.
LEMMA ReservationType ==
    ASSUME SagaTypes, [Next]_vars
    PROVE  reservation' \in [Order -> [Sku -> ReservationStatus \cup {"none"}]]
  <1> DEFINE Type == [Order -> [Sku -> ReservationStatus \cup {"none"}]]
  <1>1. reservation \in Type
    BY DEF SagaTypes
  <1>2. ASSUME NEW o \in Order, NEW s \in Sku, NEW status \in ReservationStatus,
               reservation' = [reservation EXCEPT ![o][s] = status]
        PROVE  reservation' \in Type
    BY <1>1, <1>2
  <1>3. ASSUME NEW o, NEW s, Reserved(o, s)
        PROVE  \E status \in ReservationStatus :
                  reservation' = [reservation EXCEPT ![o][s] = status]
    BY <1>3 DEF Reserved, ReservationStatus
  <1>4. ASSUME NEW o, NEW s, NEW op, Moved(op, o, s)
        PROVE  \E status \in ReservationStatus :
                  reservation' = [reservation EXCEPT ![o][s] = status]
    BY <1>4, MovesFrom DEF Moved
  <1> QED
    BY <1>1, <1>2, <1>3, <1>4, LedgerSteps

\* A checkout stays at one of the points of PlaceOrderService.
LEMMA CheckoutType ==
    ASSUME SagaTypes, [Next]_vars
    PROVE  checkout' \in [Order -> [pc : CheckoutPc, todo : SUBSET Sku, answer : Answers]]
  <1> DEFINE Steps == [pc : CheckoutPc, todo : SUBSET Sku, answer : Answers]
  <1>1. checkout \in [Order -> Steps]
    BY DEF SagaTypes
  <1>2. ASSUME NEW pc \in CheckoutPc, NEW todo \in SUBSET Sku, NEW answer \in Answers
        PROVE  Step(pc, todo, answer) \in Steps
    BY DEF Step
  <1>3. ASSUME NEW o \in Order, NEW step \in Steps, Proceed(o, step)
        PROVE  checkout' \in [Order -> Steps]
    BY <1>1, <1>3 DEF Proceed
  <1>4. Ended \in Steps
    BY <1>2 DEF Ended, CheckoutPc, Answers
  <1>5. \A o \in Order : Held(o) \in SUBSET Sku
    BY DEF Held
  <1>6. ASSUME NEW o \in Order, CheckoutStep(o)
        PROVE  checkout' = checkout \/ \E step \in Steps : Proceed(o, step)
    <2> DEFINE Goal == \E step \in Steps : Proceed(o, step)
    <2>1. ASSUME NEW lines \in (SUBSET Sku) \ {{}}, Assemble(o, lines) PROVE Goal
      BY <2>1, <1>2 DEF Assemble, CheckoutPc, Answers
    <2>2. ASSUME NEW s \in Sku, ReserveLine(o, s) PROVE Goal
      BY <2>2, <1>1, <1>2, <1>5 DEF ReserveLine, CheckoutPc, Answers
    <2>3. ASSUME NEW s \in Sku, ReleaseLine(o, s) PROVE Goal
      <3>1. [checkout[o] EXCEPT !.todo = @ \ {s}] \in Steps
        BY <1>1
      <3> QED
        BY <2>3, <3>1 DEF ReleaseLine
    <2>4. ASSUME OpenPayment(o) \/ Charge(o) PROVE Goal
      BY <2>4, <1>2 DEF OpenPayment, Charge, CheckoutPc, Answers
    <2>5. ASSUME Record(o) PROVE Goal
      <3>1. [checkout[o] EXCEPT !.pc = "settle"] \in Steps
        BY <1>1 DEF CheckoutPc
      <3> QED
        BY <2>5, <3>1 DEF Record
    <2>6. ASSUME Settle(o) \/ FailOrder(o) \/ GiveUp(o) \/ ReserveFails(o) PROVE Goal
      BY <2>6, <1>4 DEF Settle, FailOrder, GiveUp, ReserveFails
    <2>7. ASSUME ChargeFails(o) \/ PaymentFails(o) PROVE Goal
      BY <2>7, <1>2, <1>5 DEF ChargeFails, PaymentFails, CheckoutPc, Answers
    <2> HIDE DEF Goal
    <2>8. Goal
      BY <1>6, <2>1, <2>2, <2>3, <2>4, <2>5, <2>6, <2>7 DEF CheckoutStep
    <2> QED
      BY <2>8 DEF Goal
  <1>7. ASSUME Crash PROVE checkout' \in [Order -> Steps]
    BY <1>1, <1>4, <1>7 DEF Crash
  <1> QED
    BY <1>1, <1>3, <1>6, <1>7, CheckoutWriters

\* A cancel request holds an order that it read as pending or as paid.
LEMMA CancelType ==
    ASSUME SagaTypes, [Next]_vars
    PROVE  cancel' \in [CancelRequest ->
                      [pc : {"unsent", "answered"}]
                      \cup [pc : {"read"}, order : Order, seen : {"PENDING_PAYMENT", "PAID"}]]
  <1> DEFINE Requests == [pc : {"unsent", "answered"}]
                  \cup [pc : {"read"}, order : Order, seen : {"PENDING_PAYMENT", "PAID"}]
  <1>1. cancel \in [CancelRequest -> Requests]
    BY DEF SagaTypes
  <1>2. ASSUME NEW c \in CancelRequest, NEW o \in Order, CancelRead(c, o)
        PROVE  cancel' \in [CancelRequest -> Requests]
    <2>1. [pc |-> "read", order |-> o, seen |-> order[o]] \in Requests
      BY <1>2 DEF CancelRead, CancelBy
    <2> QED
      BY <1>1, <1>2, <2>1 DEF CancelRead
  <1>3. ASSUME NEW c \in CancelRequest, CancelCommit(c)
        PROVE  cancel' \in [CancelRequest -> Requests]
    <2>1. [pc |-> "answered"] \in Requests
      OBVIOUS
    <2> QED
      BY <1>1, <1>3, <2>1 DEF CancelCommit
  <1>4. ASSUME Crash PROVE cancel' \in [CancelRequest -> Requests]
    <2>1. [pc |-> "answered"] \in Requests
      OBVIOUS
    <2> QED
      BY <1>1, <1>4, <2>1 DEF Crash
  <1> QED
    BY <1>1, <1>2, <1>3, <1>4, CancelWriters

\* Webhooks and decisions of the PG are about orders.
LEMMA ExternalTypes ==
    ASSUME SagaTypes, [Next]_vars
    PROVE  /\ webhook' \subseteq Order
           /\ charged' \in [Order -> {"none", "approved", "declined"}]
           /\ refunded' \subseteq Order
  <1>1. webhook' \subseteq Order
    BY WebhookWriters DEF SagaTypes, WebhookRead, WebhookCommit, Crash
  <1>2. charged' \in [Order -> {"none", "approved", "declined"}]
    BY PgWriters DEF SagaTypes, Charge, ChargeFails
  <1>3. refunded' \subseteq Order
    BY PgWriters DEF SagaTypes, PgRefund
  <1> QED
    BY <1>1, <1>2, <1>3

TaskOf(numbers) == [row : numbers \cup {NoRow}, op : TaskOps, order : Order,
                    sku : Sku \cup {NoSku}]
WellFormed(task) == task.op \in LineOps \/ task.sku = NoSku

\* The tasks of a delivery: one transition per reservation of the order, and
\* at most one task of the other subscribers.
LEMMA DeliveredTasks ==
    ASSUME SagaTypes, NEW i \in Rows, NEW task \in ForInventory(i) \cup ForOthers(i)
    PROVE  /\ task \in TaskOf(Rows)
           /\ WellFormed(task)
           /\ task.order = rows[i].event.order
           /\ task.op = "confirm" => rows[i].event.type = "OrderPaid"
           /\ task.op \in {"refund", "pgRefund"} =>
                 rows[i].event.type = "OrderCancelled" /\ rows[i].event.wasPaid
           /\ task.op # "pgRefund"
           /\ task.op = "markRefunded" => rows[i].event.type = "PaymentRefunded"
  <1>1. rows[i].event \in SagaEvent
    BY RowFacts DEF SagaTypes, OutboxInv, Rows
  <1>2. rows[i].event.order \in Order
    BY <1>1 DEF SagaEvent
  <1>3. CASE task \in ForInventory(i)
    <2>1. PICK s \in Sku : task = Task(i, Asked(rows[i].event), s)
      BY <1>3 DEF ForInventory, Held
    <2>2. /\ Asked(rows[i].event) \in LineOps
          /\ Asked(rows[i].event) = "confirm" => rows[i].event.type = "OrderPaid"
      BY DEF Asked, LineOps
    <2> QED
      BY <1>2, <2>1, <2>2 DEF Task, TaskOf, WellFormed, TaskOps, LineOps
  <1>4. CASE task \in ForOthers(i)
    <2>1. PICK op \in {"refund", "markRefunded", "failOrder"} :
            /\ task = Task(i, op, NoSku)
            /\ op = "refund" => rows[i].event.type = "OrderCancelled" /\ rows[i].event.wasPaid
            /\ op = "markRefunded" => rows[i].event.type = "PaymentRefunded"
      BY <1>4 DEF ForOthers
    <2> QED
      BY <1>2, <2>1 DEF Task, TaskOf, WellFormed, TaskOps
  <1> QED
    BY <1>3, <1>4

\* Where a task that is there after a step comes from: it was there, or it is
\* what a subscriber goes on with, or it was delivered just now.
LEMMA TaskOrigins ==
    ASSUME SagaTypes, [Next]_vars, NEW new \in work'
    PROVE  \/ new \in work
           \/ \E i \in Rows : new \in ForInventory(i) \cup ForOthers(i)
           \/ \E old \in work :
                 /\ new.order = old.order /\ new.sku = old.sku
                 /\ new.row \in {old.row, NoRow}
                 /\ new.op \in TaskOps
                 /\ new \in TaskOf(Rows)
                 /\ \/ new.op = old.op
                    \/ old.op = "refund" /\ new.op = "pgRefund" /\ RefundTx(old)
                          /\ Refund(payment[old.order]) = "moved"
                    \/ old.op = "failOrder" /\ new.op = "failOrderCommit"
  <1> DEFINE Goal ==
           \/ new \in work
           \/ \E i \in Rows : new \in ForInventory(i) \cup ForOthers(i)
           \/ \E old \in work :
                 /\ new.order = old.order /\ new.sku = old.sku
                 /\ new.row \in {old.row, NoRow}
                 /\ new.op \in TaskOps
                 /\ new \in TaskOf(Rows)
                 /\ \/ new.op = old.op
                    \/ old.op = "refund" /\ new.op = "pgRefund" /\ RefundTx(old)
                          /\ Refund(payment[old.order]) = "moved"
                    \/ old.op = "failOrder" /\ new.op = "failOrderCommit"
  <1>1. \A task \in work : task \in TaskOf(Rows)
    BY DEF SagaTypes, TaskOf
  <1>2. ASSUME NEW i \in Rows, Deliver(i) PROVE Goal
    BY <1>2 DEF Deliver
  <1>3. ASSUME NEW task \in work, ApplyOne(task) \/ PgRefund(task)
                  \/ ExpiredCommit(task) \/ OnPaymentRefunded(task) \/ TaskFails(task)
        PROVE Goal
    <2>1. work' = work \ {task}
      BY <1>3 DEF ApplyOne, PgRefund, ExpiredCommit, OnPaymentRefunded, TaskFails,
                  Done, Throws
    <2> QED
      BY <2>1
  <1>4. ASSUME NEW task \in work, RefundTx(task) PROVE Goal
    <2>1. CASE work' = work \ {task}
      BY <2>1
    <2>2. CASE Then(task, "pgRefund") /\ Refund(payment[task.order]) = "moved"
      <3>1. new \in work \/ new = [task EXCEPT !.op = "pgRefund"]
        BY <2>2 DEF Then
      <3>2. CASE new = [task EXCEPT !.op = "pgRefund"]
        <4>1. /\ new.order = task.order /\ new.sku = task.sku /\ new.row = task.row
              /\ new.op = "pgRefund" /\ new \in TaskOf(Rows)
          BY <1>1, <3>2 DEF TaskOf, TaskOps
        <4>2. task.op = "refund"
          BY <1>4 DEF RefundTx
        <4> QED
          BY <1>4, <2>2, <4>1, <4>2 DEF TaskOps
      <3> QED
        BY <3>1, <3>2
    <2> QED
      BY <1>4, <2>1, <2>2 DEF RefundTx, Done, Throws
  <1>5. ASSUME NEW task \in work, ExpiredRead(task) PROVE Goal
    <2>1. CASE work' = work \ {task}
      BY <2>1
    <2>2. CASE Then(task, "failOrderCommit")
      <3>1. new \in work \/ new = [task EXCEPT !.op = "failOrderCommit"]
        BY <2>2 DEF Then
      <3>2. CASE new = [task EXCEPT !.op = "failOrderCommit"]
        <4>1. /\ new.order = task.order /\ new.sku = task.sku /\ new.row = task.row
              /\ new.op = "failOrderCommit" /\ new \in TaskOf(Rows)
          BY <1>1, <3>2 DEF TaskOf, TaskOps
        <4>2. task.op = "failOrder"
          BY <1>5 DEF ExpiredRead
        <4> QED
          BY <4>1, <4>2 DEF TaskOps
      <3> QED
        BY <3>1, <3>2
    <2> QED
      BY <1>5, <2>1, <2>2 DEF ExpiredRead, Done
  <1>6. ASSUME Conclude PROVE Goal
    <2>1. CASE work' = work
      BY <2>1
    <2>2. CASE work' = {IF task.row = sending THEN [task EXCEPT !.row = NoRow] ELSE task :
                           task \in work}
      <3>1. PICK old \in work :
              new = IF old.row = sending THEN [old EXCEPT !.row = NoRow] ELSE old
        BY <2>2
      <3>2. CASE new = [old EXCEPT !.row = NoRow]
        <4>1. /\ new.order = old.order /\ new.sku = old.sku /\ new.row = NoRow
              /\ new.op = old.op /\ new \in TaskOf(Rows) /\ new.op \in TaskOps
          BY <1>1, <3>2 DEF TaskOf
        <4> QED
          BY <4>1
      <3> QED
        BY <3>1, <3>2
    <2> QED
      BY <1>6, <2>1, <2>2 DEF Conclude
  <1>7. ASSUME Crash PROVE Goal
    BY <1>7 DEF Crash
  <1>8. (work' = work) => Goal
    OBVIOUS
  <1> HIDE DEF Goal
  <1>9. Goal
    BY <1>2, <1>3, <1>4, <1>5, <1>6, <1>7, <1>8, WorkWriters DEF Act
  <1> QED
    BY <1>9 DEF Goal

\* Subscribers only hold tasks that come of a row of the outbox, or of no row.
LEMMA WorkType ==
    ASSUME SagaTypes, [Next]_vars
    PROVE  /\ work' \subseteq TaskOf(Rows')
           /\ \A task \in work' : WellFormed(task)
           /\ rejected' \in BOOLEAN
  <1>1. Rows \subseteq Rows'
    BY NextOutbox
  <1>2. ASSUME NEW new \in work'
        PROVE  new \in TaskOf(Rows) /\ WellFormed(new)
    <2>1. CASE new \in work
      BY <2>1 DEF SagaTypes, TaskOf, WellFormed
    <2>2. ASSUME NEW i \in Rows, new \in ForInventory(i) \cup ForOthers(i)
          PROVE  new \in TaskOf(Rows) /\ WellFormed(new)
      BY <2>2, DeliveredTasks
    <2>3. ASSUME NEW old \in work, new.sku = old.sku, new \in TaskOf(Rows),
                 \/ new.op = old.op
                 \/ old.op = "refund" \/ old.op = "failOrder"
          PROVE  new \in TaskOf(Rows) /\ WellFormed(new)
      BY <2>3 DEF SagaTypes, WellFormed, LineOps
    <2> QED
      BY <2>1, <2>2, <2>3, TaskOrigins
  <1>3. TaskOf(Rows) \subseteq TaskOf(Rows')
    BY <1>1 DEF TaskOf
  <1>4. rejected' \in BOOLEAN
    <2>1. rejected \in BOOLEAN
      BY DEF SagaTypes
    <2>2. ASSUME NEW task \in work, Act(task) \/ TaskFails(task) PROVE rejected' \in BOOLEAN
      BY <2>1, <2>2 DEF Act, TaskFails, ApplyOne, RefundTx, PgRefund, ExpiredRead,
                        ExpiredCommit, OnPaymentRefunded, Done, Then, Throws
    <2>3. ASSUME NEW i \in Rows, Deliver(i) PROVE rejected' \in BOOLEAN
      BY <2>3 DEF Deliver
    <2>4. Conclude \/ Crash => rejected' \in BOOLEAN
      BY DEF Conclude, Crash
    <2> QED
      BY <2>1, <2>2, <2>3, <2>4, WorkWriters
  <1> QED
    BY <1>2, <1>3, <1>4

\* Every step preserves the types.
LEMMA NextTypes ==
    ASSUME SagaTypes, [Next]_vars
    PROVE  SagaTypes'
  <1>1. work' \subseteq [row : Rows' \cup {NoRow}, op : TaskOps, order : Order,
                         sku : Sku \cup {NoSku}]
    BY WorkType DEF TaskOf
  <1>2. \A task \in work' : task.op \in LineOps \/ task.sku = NoSku
    BY WorkType DEF WellFormed
  <1> QED
    BY <1>1, <1>2, OrderType, PaymentType, ReservationType, CheckoutType, CancelType,
       ExternalTypes, WorkType, NextOutbox DEF SagaTypes

\* The initial states have the types.
LEMMA InitTypes == Init => SagaTypes
  <1> SUFFICES ASSUME Init PROVE SagaTypes
    OBVIOUS
  <1>1. OutboxInv(SagaEvent)
    BY OutboxStarts DEF Init
  <1>2. /\ order \in [Order -> OrderStatus \cup {"none"}]
        /\ payment \in [Order -> PaymentStatus \cup {"none"}]
        /\ reservation \in [Order -> [Sku -> ReservationStatus \cup {"none"}]]
        /\ checkout \in [Order -> [pc : CheckoutPc, todo : SUBSET Sku, answer : Answers]]
        /\ charged \in [Order -> {"none", "approved", "declined"}]
    BY DEF Init, NotBegun, Step, CheckoutPc, Answers
  <1>3. cancel \in [CancelRequest ->
                      [pc : {"unsent", "answered"}]
                      \cup [pc : {"read"}, order : Order, seen : {"PENDING_PAYMENT", "PAID"}]]
    BY DEF Init
  <1> QED
    BY <1>1, <1>2, <1>3 DEF Init, SagaTypes

-----------------------------------------------------------------------------
(* Money is never taken back.                                               *)

\* How the request of an order goes on.
LEMMA CheckoutMoves ==
    ASSUME SagaTypes, [Next]_vars, NEW o \in Order
    PROVE  /\ \/ checkout'[o] = checkout[o]
              \/ checkout'[o].pc \in {"undo", "done"}
              \/ checkout[o].pc = "idle" /\ checkout'[o].pc = "reserve"
              \/ checkout[o].pc = "reserve" /\ checkout'[o].pc = "reserve"
                    /\ checkout'[o].todo \subseteq checkout[o].todo
              \/ checkout[o].pc = "reserve" /\ checkout'[o].pc = "charge"
              \/ Charge(o)
              \/ Record(o)
           /\ checkout[o].pc = "done" => checkout'[o].pc = "done"
  <1> DEFINE Steps == [pc : CheckoutPc, todo : SUBSET Sku, answer : Answers]
             Goal ==
           /\ \/ checkout'[o] = checkout[o]
              \/ checkout'[o].pc \in {"undo", "done"}
              \/ checkout[o].pc = "idle" /\ checkout'[o].pc = "reserve"
              \/ checkout[o].pc = "reserve" /\ checkout'[o].pc = "reserve"
                    /\ checkout'[o].todo \subseteq checkout[o].todo
              \/ checkout[o].pc = "reserve" /\ checkout'[o].pc = "charge"
              \/ Charge(o)
              \/ Record(o)
           /\ checkout[o].pc = "done" => checkout'[o].pc = "done"
  <1>1. checkout \in [Order -> Steps]
    BY DEF SagaTypes
  <1>2. ASSUME NEW p \in Order, NEW step, Proceed(p, step), p # o PROVE Goal
    BY <1>1, <1>2 DEF Proceed
  <1>3. ASSUME NEW step, Proceed(o, step) PROVE checkout'[o] = step
    BY <1>1, <1>3 DEF Proceed
  <1>4. ASSUME NEW p \in Order, CheckoutStep(p)
        PROVE  checkout' = checkout \/ \E step : Proceed(p, step)
    BY <1>4 DEF CheckoutStep, Assemble, ReserveLine, ReleaseLine, OpenPayment, Charge,
                Record, Settle, FailOrder, GiveUp, ReserveFails, ChargeFails, PaymentFails
  <1>5. ASSUME NEW lines, Assemble(o, lines) PROVE Goal
    BY <1>3, <1>5 DEF Assemble, Step, NotBegun
  <1>6. ASSUME NEW s, ReserveLine(o, s) PROVE Goal
    BY <1>3, <1>6 DEF ReserveLine, Step
  <1>7. ASSUME NEW s, ReleaseLine(o, s) PROVE Goal
    <2>1. checkout'[o] = [checkout[o] EXCEPT !.todo = @ \ {s}] /\ checkout[o].pc = "undo"
      BY <1>3, <1>7 DEF ReleaseLine
    <2>2. checkout'[o].pc = "undo"
      BY <1>1, <2>1
    <2> QED
      BY <2>1, <2>2
  <1>8. ASSUME OpenPayment(o) PROVE Goal
    BY <1>3, <1>8 DEF OpenPayment, Step
  <1>9. ASSUME Charge(o) PROVE Goal
    BY <1>9 DEF Charge
  <1>10. ASSUME Record(o) PROVE Goal
    BY <1>10 DEF Record
  <1>11. ASSUME Settle(o) \/ FailOrder(o) \/ GiveUp(o) \/ ReserveFails(o) PROVE Goal
    <2>1. Proceed(o, Ended)
      BY <1>11 DEF Settle, FailOrder, GiveUp, ReserveFails
    <2>2. checkout'[o] = Ended
      BY <1>3, <2>1
    <2> QED
      BY <2>2 DEF Ended, Step
  <1>12. ASSUME ChargeFails(o) \/ PaymentFails(o) PROVE Goal
    BY <1>3, <1>12 DEF ChargeFails, PaymentFails, Step
  <1>13. ASSUME Crash PROVE Goal
    <2>1. checkout'[o] = IF Running(o) THEN Ended ELSE checkout[o]
      BY <1>13 DEF Crash
    <2> QED
      BY <2>1 DEF Ended, Step
  <1>14. (checkout' = checkout) => Goal
    OBVIOUS
  <1>15. ASSUME CheckoutStep(o) PROVE Goal
    <2> HIDE DEF Goal
    <2> QED
      BY <1>5, <1>6, <1>7, <1>8, <1>9, <1>10, <1>11, <1>12, <1>15 DEF CheckoutStep
  <1> HIDE DEF Goal
  <1>16. Goal
    BY <1>2, <1>4, <1>13, <1>14, <1>15, CheckoutWriters
  <1> QED
    BY <1>16 DEF Goal

\* The PG decides once about an order, while its request waits for it.
LEMMA ChargedOnce ==
    ASSUME SagaTypes, [Next]_vars, NEW o \in Order
    PROVE  charged'[o] = charged[o] \/ Charge(o) \/ ChargeFails(o)
  BY PgWriters DEF SagaTypes, Charge, ChargeFails

\* Once the PG has approved, no late webhook and no refund takes the payment
\* out of the statuses of a payment that was authorized.
LEMMA PaymentKept ==
    ASSUME SagaTypes, [Next]_vars, NEW o \in Order,
           charged[o] = "approved", checkout[o].pc \notin {"reserve", "record"},
           payment[o] \in {"AUTHORIZED", "REFUNDED"}
    PROVE  payment'[o] \in {"AUTHORIZED", "REFUNDED"}
  <1> DEFINE Goal == payment'[o] \in {"AUTHORIZED", "REFUNDED"}
  <1>1. payment \in [Order -> PaymentStatus \cup {"none"}]
    BY DEF SagaTypes
  <1>2. ASSUME NEW p, NEW status, SavePayment(p, status), p # o PROVE Goal
    BY <1>1, <1>2 DEF SavePayment
  <1>3. ASSUME NEW status \in {"AUTHORIZED", "REFUNDED"}, SavePayment(o, status)
        PROVE Goal
    BY <1>1, <1>3 DEF SavePayment
  <1>4. ASSUME NEW p \in Order, OpenPayment(p) \/ Record(p) PROVE Goal
    <2>1. p # o
      BY <1>4 DEF OpenPayment, Record
    <2>2. \E status : SavePayment(p, status)
      BY <1>4 DEF OpenPayment, Record
    <2> QED
      BY <1>2, <2>1, <2>2
  <1>5. ASSUME NEW p \in Order, WebhookCommit(p) PROVE Goal
    <2>1. SavePayment(p, AfterCallback("PENDING", charged[p] = "approved"))
      BY <1>5 DEF WebhookCommit
    <2>2. CASE p = o
      <3>1. SavePayment(o, "AUTHORIZED")
        BY <2>1, <2>2 DEF AfterCallback
      <3> QED
        BY <1>3, <3>1
    <2> QED
      BY <1>2, <2>1, <2>2
  <1>6. ASSUME NEW task \in work, RefundTx(task) PROVE Goal
    <2>1. payment' = payment \/ SavePayment(task.order, "REFUNDED")
      BY <1>6 DEF RefundTx
    <2> QED
      BY <1>2, <1>3, <2>1
  <1> QED
    BY <1>4, <1>5, <1>6, PaymentWriters

\* No later step takes an approved charge, a payment row, an ended checkout or
\* the OrderPaid event away from a sold order.
LEMMA SoldForEver ==
    ASSUME SagaTypes, [Next]_vars, NEW o \in Order, Sold(o)
    PROVE  Sold(o)'
  <1>1. /\ charged[o] = "approved"
        /\ payment[o] \in {"AUTHORIZED", "REFUNDED"}
        /\ checkout[o].pc = "done"
        /\ Announced("OrderPaid", o, FALSE)
    BY DEF Sold
  <1>2. charged'[o] = "approved"
    BY <1>1, ChargedOnce DEF Charge, ChargeFails
  <1>3. payment'[o] \in {"AUTHORIZED", "REFUNDED"}
    BY <1>1, PaymentKept
  <1>4. checkout'[o].pc = "done"
    BY <1>1, CheckoutMoves
  <1>5. Announced("OrderPaid", o, FALSE)'
    BY <1>1, AnnouncedForEver
  <1> QED
    BY <1>2, <1>3, <1>4, <1>5 DEF Sold

\* Every step keeps what a checkout believes of its charge in agreement with
\* what the PG decided.
LEMMA NextCharge ==
    ASSUME SagaTypes, ChargeInv, [Next]_vars
    PROVE  ChargeInv'
  <1> SUFFICES ASSUME NEW o \in Order
               PROVE
        /\ checkout'[o].pc \in {"idle", "reserve", "charge"} => charged'[o] = "none"
        /\ checkout'[o].pc \in {"record", "settle"} =>
              /\ checkout'[o].answer \in {"approved", "declined"}
              /\ charged'[o] = checkout'[o].answer
        /\ checkout'[o].pc = "settle" /\ checkout'[o].answer = "approved"
              => payment'[o] \in {"AUTHORIZED", "REFUNDED"}
    BY DEF ChargeInv
  <1>1. /\ checkout[o].pc \in {"idle", "reserve", "charge"} => charged[o] = "none"
        /\ checkout[o].pc \in {"record", "settle"} =>
              /\ checkout[o].answer \in {"approved", "declined"}
              /\ charged[o] = checkout[o].answer
        /\ checkout[o].pc = "settle" /\ checkout[o].answer = "approved"
              => payment[o] \in {"AUTHORIZED", "REFUNDED"}
    BY DEF ChargeInv
  <1>2. checkout[o] \in [pc : CheckoutPc, todo : SUBSET Sku, answer : Answers]
    BY DEF SagaTypes
  <1>3. ASSUME NEW step, Proceed(o, step) PROVE checkout'[o] = step
    BY <1>3 DEF Proceed, SagaTypes
  <1>4. CASE Charge(o)
    <2>1. PICK decision \in {"approved", "declined"} :
            /\ charged' = [charged EXCEPT ![o] = decision]
            /\ Proceed(o, Step("record", {}, decision))
      BY <1>4 DEF Charge
    <2>2. charged'[o] = decision /\ checkout'[o] = Step("record", {}, decision)
      BY <1>3, <2>1 DEF SagaTypes
    <2> QED
      BY <2>2 DEF Step
  <1>5. CASE ChargeFails(o)
    <2>1. checkout'[o].pc = "undo"
      BY <1>3, <1>5 DEF ChargeFails, Step
    <2> QED
      BY <2>1
  <1>6. CASE charged'[o] = charged[o] /\ Record(o)
    <2>1. /\ checkout[o].pc = "record"
          /\ checkout'[o] = [checkout[o] EXCEPT !.pc = "settle"]
          /\ payment'[o] = AfterAnswer(checkout[o].answer)
      BY <1>3, <1>6 DEF Record, SavePayment, SagaTypes
    <2>2. checkout'[o].pc = "settle" /\ checkout'[o].answer = checkout[o].answer
      BY <1>2, <2>1
    <2> QED
      BY <1>1, <1>6, <2>1, <2>2 DEF AfterAnswer
  <1>7. CASE charged'[o] = charged[o] /\ checkout'[o] = checkout[o]
    <2>1. checkout[o].pc = "settle" /\ checkout[o].answer = "approved"
            => payment'[o] \in {"AUTHORIZED", "REFUNDED"}
      BY <1>1, PaymentKept
    <2> QED
      BY <1>1, <1>7, <2>1
  <1>8. CASE charged'[o] = charged[o] /\ checkout'[o].pc \in {"reserve", "charge"}
             /\ checkout[o].pc \in {"idle", "reserve"}
    BY <1>1, <1>8
  <1>9. CASE checkout'[o].pc \in {"undo", "done"}
    BY <1>9
  <1> QED
    BY <1>4, <1>5, <1>6, <1>7, <1>8, <1>9, ChargedOnce, CheckoutMoves

\* What is known of an order's money is known for ever.
LEMMA MoneyForEver ==
    ASSUME SagaTypes, [Next]_vars
    PROVE  /\ SoldOrders \subseteq SoldOrders'
           /\ CancelledOrders \subseteq CancelledOrders'
           /\ RepaidOrders \subseteq RepaidOrders'
  <1>1. ASSUME NEW o \in Order, Sold(o) PROVE Sold(o)'
    BY <1>1, SoldForEver
  <1>2. ASSUME NEW o \in Order, Cancelled(o) PROVE Cancelled(o)'
    BY <1>2, AnnouncedForEver DEF Cancelled
  <1>3. ASSUME NEW o \in Order, Repaid(o) PROVE Repaid(o)'
    BY <1>3, AnnouncedForEver DEF Repaid
  <1> QED
    BY <1>1, <1>2, <1>3 DEF SoldOrders, CancelledOrders, RepaidOrders

\* The step that publishes an event announces it.
LEMMA PublishAnnounces ==
    ASSUME SagaTypes, NEW type, NEW o, NEW wasPaid,
           Message(type, o, wasPaid) \in SagaEvent, Publish(Message(type, o, wasPaid))
    PROVE  Announced(type, o, wasPaid)'
  <1>1. OutboxInv(SagaEvent)
    BY DEF SagaTypes
  <1>2. NewEvent(Message(type, o, wasPaid))
    BY <1>1, LoudStep
  <1> QED
    BY <1>2 DEF NewEvent, Announced, Message

\* Transaction 3 of an approved checkout: the order is sold from now on.
LEMMA SettleSells ==
    ASSUME SagaTypes, ChargeInv, NEW o \in Order, Settle(o),
           checkout[o].answer = "approved"
    PROVE  o \in SoldOrders'
  <1>1. /\ checkout[o].pc = "settle"
        /\ charged' = charged
        /\ payment' = payment
        /\ Proceed(o, Ended)
        /\ Publish(Message("OrderPaid", o, FALSE))
    BY DEF Settle, pg
  <1>2. charged[o] = "approved" /\ payment[o] \in {"AUTHORIZED", "REFUNDED"}
    BY <1>1 DEF ChargeInv
  <1>3. checkout'[o].pc = "done"
    BY <1>1 DEF SagaTypes, Proceed, Ended, Step
  <1>4. Announced("OrderPaid", o, FALSE)'
    <2>1. Message("OrderPaid", o, FALSE) \in SagaEvent
      BY DEF Message, SagaEvent, EventTypes
    <2> QED
      BY <1>1, <2>1, PublishAnnounces
  <1> QED
    BY <1>1, <1>2, <1>3, <1>4 DEF Sold, SoldOrders

\* The transaction of a refund announces it.
LEMMA RefundAnnounces ==
    ASSUME SagaTypes, NEW task \in work, RefundTx(task),
           Refund(payment[task.order]) = "moved"
    PROVE  task.order \in RepaidOrders'
  <1>1. task.order \in Order
    BY DEF SagaTypes
  <1>2. Message("PaymentRefunded", task.order, FALSE) \in SagaEvent
    BY <1>1 DEF Message, SagaEvent, EventTypes
  <1>3. Publish(Message("PaymentRefunded", task.order, FALSE))
    BY DEF RefundTx
  <1> QED
    BY <1>1, <1>2, <1>3, PublishAnnounces DEF Repaid, RepaidOrders

\* A row is an announcement.
LEMMA RowAnnounces ==
    ASSUME SagaTypes, MoneyInv, NEW i \in Rows
    PROVE  /\ rows[i].event.order \in Order
           /\ rows[i].event.type = "OrderCancelled" /\ rows[i].event.wasPaid
                 => rows[i].event.order \in CancelledOrders
           /\ rows[i].event.type = "PaymentRefunded" => rows[i].event.order \in RepaidOrders
           /\ rows[i].event.type = "OrderPaid" => rows[i].event.order \in SoldOrders
  <1> DEFINE event == rows[i].event
  <1>1. event \in SagaEvent
    BY RowFacts DEF SagaTypes, OutboxInv, Rows
  <1>2. EventBacked(event)
    BY DEF MoneyInv
  <1>3. event = Message(event.type, event.order, event.wasPaid) /\ event.wasPaid \in BOOLEAN
    BY <1>1 DEF SagaEvent, Message
  <1>4. event.type = "OrderCancelled" /\ event.wasPaid => event.order \in CancelledOrders
    BY <1>1, <1>3 DEF Cancelled, Announced, CancelledOrders, SagaEvent
  <1>5. event.type = "PaymentRefunded" => event.order \in RepaidOrders
    BY <1>1, <1>2, <1>3 DEF Repaid, Announced, EventBacked, RepaidOrders, SagaEvent
  <1> QED
    BY <1>1, <1>2, <1>4, <1>5 DEF SagaEvent, EventBacked

\* No event of the outbox, old or just published, lacks its cause.
LEMMA NextEvents ==
    ASSUME SagaTypes, MoneyInv, [Next]_vars
    PROVE  \A i \in Rows' : EventBacked(rows[i].event)'
  <1>1. SagaTypes'
    BY NextTypes
  <1>2. ASSUME NEW event \in SagaEvent, EventBacked(event) PROVE EventBacked(event)'
    BY <1>2, MoneyForEver DEF EventBacked, SagaEvent
  <1>3. ASSUME NEW event \in SagaEvent, Published(event) PROVE EventBacked(event)'
    <2>1. ASSUME NEW o \in Order, Settle(o),
                 event = Message(IF checkout[o].answer = "approved" THEN "OrderPaid"
                                 ELSE "OrderPaymentFailed", o, FALSE)
          PROVE  EventBacked(event)'
      <3>1. checkout[o].answer = "approved" => o \in SoldOrders'
        BY <2>1, SettleSells DEF MoneyInv
      <3> QED
        BY <2>1, <3>1 DEF EventBacked, Message
    <2>2. ASSUME NEW o, \/ event = Message("OrderPaymentFailed", o, FALSE)
                        \/ event = Message("StockReservationExpired", o, FALSE)
          PROVE  EventBacked(event)'
      BY <2>2 DEF EventBacked, Message
    <2>3. ASSUME NEW c \in CancelRequest, CancelCommit(c),
                 event = Message("OrderCancelled", cancel[c].order, WasPaid(cancel[c].seen))
          PROVE  EventBacked(event)'
      <3>1. cancel[c].seen = "PAID" => cancel[c].order \in SoldOrders
        BY <2>3 DEF MoneyInv, CancelCommit
      <3>2. cancel[c].order \in Order
        BY <2>3 DEF SagaTypes, CancelCommit
      <3>3. cancel[c].seen = "PAID" => cancel[c].order \in SoldOrders'
        BY <3>1, <3>2, MoneyForEver
      <3> QED
        BY <2>3, <3>3 DEF EventBacked, Message, WasPaid
    <2>4. ASSUME NEW task \in work, RefundTx(task),
                 event = Message("PaymentRefunded", task.order, FALSE)
          PROVE  EventBacked(event)'
      <3>1. task.order \in CancelledOrders /\ task.order \in Order
        BY <2>4 DEF MoneyInv, TaskBacked, RefundTx, SagaTypes
      <3>2. task.order \in CancelledOrders'
        BY <3>1, MoneyForEver
      <3> QED
        BY <2>4, <3>2 DEF EventBacked, Message
    <2> QED
      BY <1>3, <2>1, <2>2, <2>3, <2>4 DEF Published
  <1> SUFFICES ASSUME NEW i \in Rows' PROVE EventBacked(rows[i].event)'
    OBVIOUS
  <1>4. rows'[i].event \in SagaEvent
    BY <1>1, RowFacts DEF SagaTypes, OutboxInv, Rows
  <1>5. ASSUME NEW event \in SagaEvent, rows'[i].event = event, EventBacked(event)'
        PROVE  EventBacked(rows[i].event)'
    BY <1>5 DEF EventBacked
  <1>6. CASE i \in Rows /\ rows'[i].event = rows[i].event
    <2>1. EventBacked(rows[i].event)
      BY <1>6 DEF MoneyInv
    <2> QED
      BY <1>2, <1>4, <1>5, <1>6, <2>1 DEF EventBacked
  <1>7. ASSUME NEW event \in SagaEvent, Published(event), rows'[i].event = event
        PROVE  EventBacked(rows[i].event)'
    BY <1>3, <1>5, <1>7
  <1> QED
    BY <1>6, <1>7, NextOutbox DEF SameEvents, NewEvent

\* No task of a subscriber, old or just delivered, lacks its cause.
LEMMA NextTasks ==
    ASSUME SagaTypes, MoneyInv, [Next]_vars
    PROVE  \A task \in work' : TaskBacked(task)'
  <1> SUFFICES ASSUME NEW new \in work' PROVE TaskBacked(new)'
    OBVIOUS
  <1>1. ASSUME NEW task, task.order \in Order, TaskBacked(task) PROVE TaskBacked(task)'
    BY <1>1, MoneyForEver DEF TaskBacked
  <1>2. \A task \in work : TaskBacked(task) /\ task.order \in Order
    BY DEF MoneyInv, SagaTypes
  <1>3. CASE new \in work
    BY <1>1, <1>2, <1>3
  <1>4. ASSUME NEW i \in Rows, new \in ForInventory(i) \cup ForOthers(i)
        PROVE  TaskBacked(new)'
    <2>1. TaskBacked(new) /\ new.order \in Order
      BY <1>4, DeliveredTasks, RowAnnounces DEF TaskBacked
    <2> QED
      BY <1>1, <2>1
  <1>5. ASSUME NEW old \in work, new.order = old.order,
               \/ new.op = old.op
               \/ old.op = "refund" /\ new.op = "pgRefund" /\ RefundTx(old)
                     /\ Refund(payment[old.order]) = "moved"
               \/ old.op = "failOrder" /\ new.op = "failOrderCommit"
        PROVE  TaskBacked(new)'
    <2>1. TaskBacked(old)' /\ old.order \in Order
      BY <1>1, <1>2
    <2>2. new.op = "pgRefund" /\ old.op = "refund" => old.order \in RepaidOrders'
      BY <1>5, RefundAnnounces
    <2> QED
      BY <1>5, <2>1, <2>2 DEF TaskBacked
  <1> QED
    BY <1>3, <1>4, <1>5, TaskOrigins

\* A cancel request that read PAID goes on holding an order that was sold,
\* whatever became of the order since it read.
LEMMA NextCancel ==
    ASSUME SagaTypes, MoneyInv, [Next]_vars
    PROVE  \A c \in CancelRequest :
              cancel'[c].pc = "read" /\ cancel'[c].seen = "PAID"
                 => cancel'[c].order \in SoldOrders'
  <1> SUFFICES ASSUME NEW c \in CancelRequest, cancel'[c].pc = "read",
                      cancel'[c].seen = "PAID"
               PROVE  cancel'[c].order \in SoldOrders'
    OBVIOUS
  <1>1. CASE cancel'[c] = cancel[c]
    <2>1. cancel[c].order \in SoldOrders /\ cancel[c].order \in Order
      BY <1>1 DEF MoneyInv, SagaTypes
    <2> QED
      BY <1>1, <2>1, MoneyForEver
  <1>2. ASSUME NEW o \in Order, CancelRead(c, o) PROVE cancel'[c].order \in SoldOrders'
    <2>1. cancel'[c] = [pc |-> "read", order |-> o, seen |-> order[o]]
      BY <1>2 DEF CancelRead, SagaTypes
    <2>2. o \in SoldOrders
      BY <2>1 DEF MoneyInv, OrderBacked
    <2> QED
      BY <2>1, <2>2, MoneyForEver
  <1>3. ASSUME NEW d \in CancelRequest, NEW o \in Order, CancelRead(d, o), d # c
        PROVE  cancel'[c] = cancel[c]
    BY <1>3 DEF CancelRead, SagaTypes
  <1>4. ASSUME NEW d \in CancelRequest, CancelCommit(d) PROVE cancel'[c] = cancel[c]
    BY <1>4 DEF CancelCommit, SagaTypes
  <1>5. ASSUME Crash PROVE cancel'[c] = cancel[c]
    BY <1>5 DEF Crash
  <1> QED
    BY <1>1, <1>2, <1>3, <1>4, <1>5, CancelWriters

\* An order is saved as paid, or as being or having been refunded, for a cause.
LEMMA NextOrder ==
    ASSUME SagaTypes, MoneyInv, [Next]_vars
    PROVE  \A o \in Order : OrderBacked(o)'
  <1> SUFFICES ASSUME NEW o \in Order PROVE OrderBacked(o)'
    OBVIOUS
  <1>1. OrderBacked(o)
    BY DEF MoneyInv
  <1>2. CASE order'[o] = order[o]
    BY <1>1, <1>2, MoneyForEver DEF OrderBacked
  <1>3. ASSUME NEW p, NEW status, SaveOrder(p, status)
        PROVE  IF p = o THEN order'[o] = status ELSE order'[o] = order[o]
    BY <1>3 DEF SaveOrder, SagaTypes
  <1>4. ASSUME order'[o] \notin {"PAID", "REFUND_PENDING", "REFUNDED"}
        PROVE  OrderBacked(o)'
    BY <1>4 DEF OrderBacked
  <1>5. ASSUME NEW p \in Order, NEW lines, Assemble(p, lines) PROVE OrderBacked(o)'
    <2>1. SaveOrder(p, "PENDING_PAYMENT")
      BY <1>5 DEF Assemble
    <2> QED
      BY <1>2, <1>3, <1>4, <2>1
  <1>6. ASSUME NEW p \in Order, Settle(p) PROVE OrderBacked(o)'
    <2>1. SaveOrder(p, AfterPayment(checkout[p].answer))
      BY <1>6 DEF Settle
    <2>2. CASE p = o /\ checkout[o].answer = "approved"
      <3>1. order'[o] = "PAID" /\ o \in SoldOrders'
        BY <1>3, <1>6, <2>1, <2>2, SettleSells DEF AfterPayment, MoneyInv
      <3> QED
        BY <3>1 DEF OrderBacked
    <2>3. CASE p = o /\ checkout[o].answer # "approved"
      BY <1>3, <1>4, <2>1, <2>3 DEF AfterPayment
    <2>4. CASE p # o
      BY <1>2, <1>3, <2>1, <2>4
    <2> QED
      BY <2>2, <2>3, <2>4
  <1>7. ASSUME NEW p, SaveOrder(p, "PAYMENT_FAILED") PROVE OrderBacked(o)'
    BY <1>2, <1>3, <1>4, <1>7
  <1>8. ASSUME NEW c \in CancelRequest, CancelCommit(c) PROVE OrderBacked(o)'
    <2>1. SaveOrder(cancel[c].order, CancelledTo(cancel[c].seen))
      BY <1>8 DEF CancelCommit
    <2>2. CASE cancel[c].order = o /\ cancel[c].seen = "PAID"
      <3>1. o \in SoldOrders
        BY <1>8, <2>2 DEF MoneyInv, CancelCommit
      <3>2. order'[o] = "REFUND_PENDING"
        BY <1>3, <2>1, <2>2 DEF CancelledTo
      <3> QED
        BY <3>1, <3>2, MoneyForEver DEF OrderBacked
    <2>3. CASE cancel[c].order = o /\ cancel[c].seen # "PAID"
      BY <1>3, <1>4, <2>1, <2>3 DEF CancelledTo
    <2>4. CASE cancel[c].order # o
      BY <1>2, <1>3, <2>1, <2>4
    <2> QED
      BY <2>2, <2>3, <2>4
  <1>9. ASSUME NEW task \in work, OnPaymentRefunded(task) PROVE OrderBacked(o)'
    <2>1. CASE order' = order
      BY <1>2, <2>1
    <2>2. CASE SaveOrder(task.order, "REFUNDED") /\ MarkRefunded(order[task.order]) # "conflict"
      <3>1. CASE task.order = o
        <4>1. order[o] \in {"REFUND_PENDING", "REFUNDED"}
          BY <2>2, <3>1 DEF MarkRefunded, Only
        <4>2. o \in SoldOrders
          BY <1>1, <4>1 DEF OrderBacked
        <4>3. o \in RepaidOrders
          BY <1>9, <3>1 DEF MoneyInv, TaskBacked, OnPaymentRefunded
        <4> QED
          BY <1>3, <2>2, <3>1, <4>2, <4>3, MoneyForEver DEF OrderBacked
      <3>2. CASE task.order # o
        BY <1>2, <1>3, <2>2, <3>2
      <3> QED
        BY <3>1, <3>2
    <2> QED
      BY <1>9, <2>1, <2>2 DEF OnPaymentRefunded
  <1>10. ASSUME NEW p \in Order, FailOrder(p) PROVE SaveOrder(p, "PAYMENT_FAILED")
    BY <1>10 DEF FailOrder
  <1>11. ASSUME NEW task \in work, ExpiredCommit(task)
         PROVE  SaveOrder(task.order, "PAYMENT_FAILED")
    BY <1>11 DEF ExpiredCommit
  <1> QED
    BY <1>2, <1>5, <1>6, <1>7, <1>8, <1>9, <1>10, <1>11, OrderWriters

\* A payment is refunded, in the row and at the PG, for a cause.
LEMMA NextPayment ==
    ASSUME SagaTypes, MoneyInv, [Next]_vars
    PROVE  \A o \in Order : PaymentBacked(o)'
  <1> SUFFICES ASSUME NEW o \in Order PROVE PaymentBacked(o)'
    OBVIOUS
  <1>1. PaymentBacked(o)
    BY DEF MoneyInv
  <1>2. ASSUME payment'[o] = "REFUNDED" PROVE o \in CancelledOrders'
    <2>1. payment \in [Order -> PaymentStatus \cup {"none"}]
      BY DEF SagaTypes
    <2>2. ASSUME NEW p \in Order, OpenPayment(p) \/ Record(p) \/ WebhookCommit(p)
          PROVE  payment'[o] = payment[o]
      <3>1. \E status \in PaymentStatus \ {"REFUNDED"} : SavePayment(p, status)
        BY <2>2 DEF OpenPayment, Record, WebhookCommit, AfterAnswer, AfterCallback,
                    PaymentStatus
      <3> QED
        BY <1>2, <2>1, <3>1 DEF SavePayment
    <2>3. ASSUME NEW task \in work, RefundTx(task)
          PROVE  payment'[o] = payment[o] \/ o \in CancelledOrders
      <3>1. payment' = payment \/ SavePayment(task.order, "REFUNDED")
        BY <2>3 DEF RefundTx
      <3>2. task.order \in CancelledOrders
        BY <2>3 DEF MoneyInv, TaskBacked, RefundTx
      <3> QED
        BY <2>1, <3>1, <3>2 DEF SavePayment
    <2>4. payment'[o] = payment[o] \/ o \in CancelledOrders
      BY <2>2, <2>3, PaymentWriters
    <2> QED
      BY <1>1, <1>2, <2>4, MoneyForEver DEF PaymentBacked
  <1>3. ASSUME o \in refunded' PROVE o \in RepaidOrders'
    <2>1. ASSUME NEW task \in work, PgRefund(task) PROVE o \in refunded \/ o \in RepaidOrders
      <3>1. task.order \in RepaidOrders
        BY <2>1 DEF MoneyInv, TaskBacked, PgRefund
      <3> QED
        BY <1>3, <2>1, <3>1 DEF PgRefund
    <2> QED
      BY <1>1, <1>3, <2>1, PgWriters, MoneyForEver DEF PaymentBacked
  <1> QED
    BY <1>2, <1>3 DEF PaymentBacked

\* A reservation that is confirmed or restored belongs to an order that was sold.
LEMMA NextGoods ==
    ASSUME SagaTypes, MoneyInv, [Next]_vars
    PROVE  \A o \in Order, s \in Sku :
              reservation'[o][s] \in {"CONFIRMED", "RESTORED"} => o \in SoldOrders'
  <1> SUFFICES ASSUME NEW o \in Order, NEW s \in Sku,
                      reservation'[o][s] \in {"CONFIRMED", "RESTORED"}
               PROVE  o \in SoldOrders
    BY MoneyForEver
  <1>1. CASE reservation'[o][s] = reservation[o][s]
    BY <1>1 DEF MoneyInv
  <1>2. ASSUME NEW p \in Order, NEW z \in Sku, NEW status,
               reservation' = [reservation EXCEPT ![p][z] = status]
        PROVE  reservation'[o][s] = IF p = o /\ z = s THEN status ELSE reservation[o][s]
    BY <1>2 DEF SagaTypes
  <1>3. ASSUME NEW p \in Order, NEW z \in Sku, Reserved(p, z) PROVE o \in SoldOrders
    BY <1>1, <1>2, <1>3 DEF Reserved
  <1>4. ASSUME NEW p \in Order, NEW z \in Sku, NEW op, Moved(op, p, z),
               op = "confirm" => \E task \in work : task.op = "confirm" /\ task.order = p
        PROVE  o \in SoldOrders
    <2>1. CASE p = o /\ z = s
      <3>1. Target(op) \in {"CONFIRMED", "RESTORED"}
        BY <1>2, <1>4, <2>1 DEF Moved
      <3>2. CASE op = "confirm"
        BY <1>4, <2>1, <3>2 DEF MoneyInv, TaskBacked
      <3>3. CASE op = "restore"
        <4>1. reservation[o][s] = "CONFIRMED"
          BY <1>4, <2>1, <3>3, MovesFrom DEF Moved
        <4> QED
          BY <4>1 DEF MoneyInv
      <3> QED
        BY <1>4, <3>1, <3>2, <3>3, MovesFrom DEF Moved
    <2>2. CASE ~(p = o /\ z = s)
      <3>1. reservation'[o][s] = reservation[o][s]
        BY <1>2, <1>4, <2>2 DEF Moved
      <3> QED
        BY <1>1, <3>1
    <2> QED
      BY <2>1, <2>2
  <1> QED
    BY <1>1, <1>3, <1>4, LedgerSteps

\* Every step preserves the invariant of money.
LEMMA NextMoney ==
    ASSUME SagaTypes, MoneyInv, [Next]_vars
    PROVE  MoneyInv'
  <1>1. ChargeInv'
    BY NextCharge DEF MoneyInv
  <1>2. \A o \in Order : OrderBacked(o)' /\ PaymentBacked(o)'
    BY NextOrder, NextPayment
  <1> QED
    BY <1>1, <1>2, NextEvents, NextTasks, NextCancel, NextGoods DEF MoneyInv

\* No money has moved in the initial states.
LEMMA InitMoney == Init => MoneyInv
  <1> SUFFICES ASSUME Init PROVE MoneyInv
    OBVIOUS
  <1>1. Rows = {}
    BY EmptySeq DEF Init, OutboxInit, Rows
  <1>2. ChargeInv
    BY DEF Init, ChargeInv, NotBegun, Step
  <1>3. \A o \in Order : OrderBacked(o) /\ PaymentBacked(o)
    BY DEF Init, OrderBacked, PaymentBacked
  <1> QED
    BY <1>1, <1>2, <1>3 DEF Init, MoneyInv

-----------------------------------------------------------------------------
(* The counters of a SKU and its reservations.                              *)

\* How one reservation changes in a step.
LEMMA ReservationMoves ==
    ASSUME SagaTypes, [Next]_vars, NEW o \in Order, NEW s \in Sku
    PROVE  \/ reservation'[o][s] = reservation[o][s]
           \/ Reserved(o, s) /\ reservation'[o][s] = "PENDING"
           \/ reservation[o][s] \in {"PENDING", "CONFIRMED"}
  <1> DEFINE Goal == \/ reservation'[o][s] = reservation[o][s]
                     \/ Reserved(o, s) /\ reservation'[o][s] = "PENDING"
                     \/ reservation[o][s] \in {"PENDING", "CONFIRMED"}
  <1>1. ASSUME NEW p \in Order, NEW z \in Sku, NEW status,
               reservation' = [reservation EXCEPT ![p][z] = status]
        PROVE  reservation'[o][s] = IF p = o /\ z = s THEN status ELSE reservation[o][s]
    BY <1>1 DEF SagaTypes
  <1>2. ASSUME NEW p \in Order, NEW z \in Sku, Reserved(p, z) PROVE Goal
    <2>1. reservation'[o][s] = IF p = o /\ z = s THEN "PENDING" ELSE reservation[o][s]
      BY <1>1, <1>2 DEF Reserved
    <2> QED
      BY <1>2, <2>1
  <1>3. ASSUME NEW p \in Order, NEW z \in Sku, NEW op, Moved(op, p, z) PROVE Goal
    BY <1>1, <1>3, MovesFrom DEF Moved
  <1>4. (reservation' = reservation) => Goal
    OBVIOUS
  <1> HIDE DEF Goal
  <1>5. Goal
    BY <1>2, <1>3, <1>4, LedgerSteps
  <1> QED
    BY <1>5 DEF Goal

\* A line still to be reserved keeps having no reservation.
LEMMA NextLines ==
    ASSUME SagaTypes, LinesInv, [Next]_vars
    PROVE  LinesInv'
  <1> SUFFICES ASSUME NEW o \in Order, NEW s \in Sku,
                      \/ checkout'[o].pc = "idle"
                      \/ checkout'[o].pc = "reserve" /\ s \in checkout'[o].todo
               PROVE  reservation'[o][s] = "none"
    BY DEF LinesInv
  <1>1. \/ checkout[o].pc = "idle"
        \/ checkout[o].pc = "reserve" /\ s \in checkout[o].todo
    <2>1. CASE Charge(o)
      <3>1. checkout'[o].pc = "record"
        BY <2>1 DEF Charge, Proceed, Step, SagaTypes
      <3> QED
        BY <3>1
    <2>2. CASE Record(o)
      <3>1. checkout'[o] = [checkout[o] EXCEPT !.pc = "settle"]
        BY <2>2 DEF Record, Proceed, SagaTypes
      <3>2. checkout'[o].pc = "settle"
        BY <3>1 DEF SagaTypes
      <3> QED
        BY <3>2
    <2> QED
      BY <2>1, <2>2, CheckoutMoves
  <1>2. reservation[o][s] = "none"
    BY <1>1 DEF LinesInv
  <1>3. CASE Reserved(o, s)
    <2>1. checkout'[o] = Step("reserve", checkout[o].todo \ {s}, "none")
      BY <1>3 DEF Reserved, Proceed, SagaTypes
    <2> QED
      BY <2>1 DEF Step
  <1> QED
    BY <1>2, <1>3, ReservationMoves

\* An order that begins to hold a unit, or that stops holding one, counts one.
LEMMA HoldersGained ==
    ASSUME NEW before, NEW after, NEW s, NEW o \in Order,
           IsFiniteSet(Holders(before, s)),
           before[o][s] # "PENDING", after[o][s] = "PENDING",
           \A p \in Order : p # o => (after[p][s] = "PENDING" <=> before[p][s] = "PENDING")
    PROVE  /\ IsFiniteSet(Holders(after, s))
           /\ Cardinality(Holders(after, s)) = Cardinality(Holders(before, s)) + 1
  <1>1. Holders(after, s) = Holders(before, s) \cup {o} /\ o \notin Holders(before, s)
    BY DEF Holders
  <1> QED
    BY <1>1, FS_AddElement

\* Taking one order from the holders of a SKU makes them one fewer, and there
\* was one to take.
LEMMA HoldersLost ==
    ASSUME NEW before, NEW after, NEW s, NEW o \in Order,
           IsFiniteSet(Holders(before, s)),
           before[o][s] = "PENDING", after[o][s] # "PENDING",
           \A p \in Order : p # o => (after[p][s] = "PENDING" <=> before[p][s] = "PENDING")
    PROVE  /\ IsFiniteSet(Holders(after, s))
           /\ Cardinality(Holders(after, s)) = Cardinality(Holders(before, s)) - 1
           /\ Cardinality(Holders(before, s)) >= 1
  <1>1. Holders(after, s) = Holders(before, s) \ {o} /\ o \in Holders(before, s)
    BY DEF Holders
  <1>2. /\ IsFiniteSet(Holders(before, s) \ {o})
        /\ Cardinality(Holders(before, s) \ {o}) = Cardinality(Holders(before, s)) - 1
    BY <1>1, FS_RemoveElement
  <1>3. /\ Cardinality(Holders(before, s)) \in Nat
        /\ Cardinality(Holders(before, s) \ {o}) \in Nat
    BY <1>2, FS_CardinalityType
  <1> QED
    BY <1>1, <1>2, <1>3

\* Every step keeps the counters of each SKU equal to what the reservations say.
LEMMA NextUnits ==
    ASSUME SagaTypes, ShelfInv, [Next]_vars
    PROVE  stock' \in [Sku -> [onHand : Nat, reserved : Nat]] /\ UnitsInv'
  <1> DEFINE Shelf == [onHand : Nat, reserved : Nat]
             Agrees(row, reservations, s) ==
                 /\ row \in Shelf
                 /\ IsFiniteSet(Holders(reservations, s))
                 /\ row.reserved = Cardinality(Holders(reservations, s))
                 /\ row.reserved <= row.onHand
             Goal == stock' \in [Sku -> Shelf]
                     /\ \A s \in Sku : Agrees(stock'[s], reservation', s)
  <1>1. stock \in [Sku -> Shelf] /\ \A s \in Sku : Agrees(stock[s], reservation, s)
    BY DEF ShelfInv, UnitsInv
  <1>2. ASSUME reservation' = reservation, stock' = stock PROVE Goal
    BY <1>1, <1>2
  <1>0. ASSUME NEW o \in Order, NEW s \in Sku, NEW status,
               reservation' = [reservation EXCEPT ![o][s] = status]
        PROVE  /\ reservation'[o][s] = status
               /\ \A p \in Order : p # o => reservation'[p][s] = reservation[p][s]
               /\ \A p \in Order, z \in Sku : z # s => reservation'[p][z] = reservation[p][z]
    BY <1>0 DEF SagaTypes
  <1>3. ASSUME NEW s \in Sku, NEW row, stock' = [stock EXCEPT ![s] = row]
        PROVE  /\ stock'[s] = row
               /\ \A z \in Sku : z # s => stock'[z] = stock[z]
               /\ row \in Shelf => stock' \in [Sku -> Shelf]
    BY <1>1, <1>3
  <1>4. ASSUME NEW o \in Order, NEW s \in Sku, NEW status, NEW row,
               reservation' = [reservation EXCEPT ![o][s] = status],
               stock' = [stock EXCEPT ![s] = row],
               Agrees(row, reservation', s)
        PROVE  Goal
    <2>1. ASSUME NEW z \in Sku, z # s PROVE Holders(reservation', z) = Holders(reservation, z)
      <3>1. \A p \in Order : reservation'[p][z] = reservation[p][z]
        BY <1>0, <1>4, <2>1
      <3> QED
        BY <3>1 DEF Holders
    <2>2. ASSUME NEW z \in Sku PROVE Agrees(stock'[z], reservation', z)
      <3>1. CASE z = s
        <4>1. stock'[s] = row
          BY <1>3, <1>4
        <4> QED
          BY <1>4, <3>1, <4>1
      <3>2. CASE z # s
        <4>1. stock'[z] = stock[z]
          BY <1>3, <1>4, <3>2
        <4> QED
          BY <1>1, <2>1, <3>2, <4>1
      <3> QED
        BY <3>1, <3>2
    <2> QED
      BY <1>3, <1>4, <2>2
  <1>5. ASSUME NEW o \in Order, NEW s \in Sku, Reserved(o, s) PROVE Goal
    <2> DEFINE row == AfterReserve(stock[s], 1)
    <2>1. /\ reservation' = [reservation EXCEPT ![o][s] = "PENDING"]
          /\ stock' = [stock EXCEPT ![s] = row]
          /\ reservation[o][s] = "none"
          /\ 1 <= stock[s].onHand - stock[s].reserved
      BY <1>5 DEF Reserved, CanReserve, Available, ShelfInv, LinesInv
    <2>2. /\ reservation'[o][s] = "PENDING"
          /\ \A p \in Order : p # o => reservation'[p][s] = reservation[p][s]
      <3> HIDE DEF row
      <3>1. reservation' = [reservation EXCEPT ![o][s] = "PENDING"]
        BY <2>1
      <3> QED
        BY <3>1, <2>1 DEF SagaTypes
    <2>3. /\ IsFiniteSet(Holders(reservation', s))
          /\ Cardinality(Holders(reservation', s)) = Cardinality(Holders(reservation, s)) + 1
      <3>1. /\ IsFiniteSet(Holders(reservation, s))
            /\ reservation[o][s] # "PENDING"
            /\ \A p \in Order : p # o => (reservation'[p][s] = "PENDING" <=> reservation[p][s] = "PENDING")
        BY <1>1, <2>1, <2>2
      <3> QED
        BY <2>2, <3>1, HoldersGained
    <2>4. /\ row.onHand = stock[s].onHand
          /\ row.reserved = stock[s].reserved + 1
          /\ row \in Shelf
      BY <1>1 DEF AfterReserve, Counters
    <2>5. row.reserved <= row.onHand
      BY <1>1, <2>1, <2>4
    <2>6. Agrees(row, reservation', s)
      BY <1>1, <2>3, <2>4, <2>5
    <2> HIDE DEF row, Agrees, Goal
    <2> QED
      BY <1>4, <2>1, <2>6
  <1>6. ASSUME NEW o \in Order, NEW s \in Sku, NEW op \in LineOps \cup {"expire"},
               Moved(op, o, s)
        PROVE  Goal
    <2> DEFINE row == Changed(op, stock[s], 1)
    <2>1. /\ reservation' = [reservation EXCEPT ![o][s] = Target(op)]
          /\ stock' = [stock EXCEPT ![s] = row]
          /\ Target(op) # "PENDING"
          /\ op = "restore" => reservation[o][s] = "CONFIRMED"
          /\ op # "restore" => reservation[o][s] = "PENDING"
      BY <1>6, MovesFrom DEF Moved
    <2>2. /\ reservation'[o][s] # "PENDING"
          /\ \A p \in Order : p # o => reservation'[p][s] = reservation[p][s]
      <3> HIDE DEF row
      <3>1. reservation' = [reservation EXCEPT ![o][s] = Target(op)]
        BY <2>1
      <3> QED
        BY <3>1, <2>1 DEF SagaTypes
    <2>3. /\ stock[s] \in Shelf
          /\ IsFiniteSet(Holders(reservation, s))
          /\ stock[s].reserved = Cardinality(Holders(reservation, s))
          /\ stock[s].reserved <= stock[s].onHand
      BY <1>1
    <2>4. CASE op = "restore"
      <3>1. Holders(reservation', s) = Holders(reservation, s)
        BY <2>1, <2>2, <2>4 DEF Holders
      <3>2. row \in Shelf /\ row.reserved = stock[s].reserved /\ row.onHand = stock[s].onHand + 1
        BY <2>3, <2>4 DEF Changed, AfterRestore, Counters
      <3>3. Agrees(row, reservation', s)
        BY <2>3, <3>1, <3>2
      <3> HIDE DEF row, Agrees, Goal
      <3> QED
        BY <1>4, <2>1, <3>3
    <2>5. CASE op # "restore"
      <3>1. /\ IsFiniteSet(Holders(reservation', s))
            /\ Cardinality(Holders(reservation', s)) = Cardinality(Holders(reservation, s)) - 1
            /\ Cardinality(Holders(reservation, s)) >= 1
        <4>1. /\ reservation[o][s] = "PENDING"
              /\ \A p \in Order : p # o => (reservation'[p][s] = "PENDING" <=> reservation[p][s] = "PENDING")
          BY <2>1, <2>2, <2>5
        <4> QED
          BY <2>2, <2>3, <4>1, HoldersLost
      <3>2. /\ row.reserved = stock[s].reserved - 1
            /\ row.onHand \in {stock[s].onHand, stock[s].onHand - 1}
            /\ row = [onHand |-> row.onHand, reserved |-> row.reserved]
        BY <2>5 DEF Changed, AfterConfirm, AfterRelease, Counters, LineOps
      <3>3. row.reserved \in Nat /\ row.onHand \in Nat /\ row.reserved <= row.onHand
        BY <2>3, <3>1, <3>2
      <3>4. row \in Shelf
        BY <3>2, <3>3
      <3>5. Agrees(row, reservation', s)
        BY <2>3, <3>1, <3>2, <3>3, <3>4
      <3> HIDE DEF row, Agrees, Goal
      <3> QED
        BY <1>4, <2>1, <3>5
    <2> QED
      BY <2>4, <2>5
  <1> HIDE DEF Goal
  <1>7. Goal
    BY <1>2, <1>5, <1>6, LedgerSteps
  <1> QED
    BY <1>7 DEF Goal, UnitsInv

\* Nothing is reserved in the initial states.
LEMMA InitShelf == Init => ShelfInv
  <1> SUFFICES ASSUME Init PROVE ShelfInv
    OBVIOUS
  <1>1. stock \in [Sku -> {NewRow(units) : units \in 0..Opening}]
    BY DEF Init
  <1>2. \A units \in 0..Opening :
          /\ NewRow(units) \in [onHand : Nat, reserved : Nat]
          /\ NewRow(units).reserved = 0
          /\ NewRow(units).reserved <= NewRow(units).onHand
    BY SagaAssumption DEF NewRow, Counters
  <1>3. LinesInv
    BY DEF Init, LinesInv
  <1>4. ASSUME NEW s \in Sku PROVE Holders(reservation, s) = {}
    BY DEF Init, Holders
  <1>5. IsFiniteSet({}) /\ Cardinality({}) = 0
    BY FS_EmptySet
  <1>6. \A s \in Sku : \E units \in 0..Opening : stock[s] = NewRow(units)
    BY <1>1
  <1>7. UnitsInv
    BY <1>2, <1>4, <1>5, <1>6 DEF UnitsInv
  <1>8. stock \in [Sku -> [onHand : Nat, reserved : Nat]]
    BY <1>1, <1>2
  <1> QED
    BY <1>3, <1>7, <1>8 DEF ShelfInv

-----------------------------------------------------------------------------
(* The theorems.                                                            *)

\* The inductive invariant of the pipeline: types, money and units.
THEOREM SagaCorrect == Spec => []SagaInv
  <1>1. Init => SagaInv
    BY InitTypes, InitMoney, InitShelf DEF SagaInv
  <1>2. SagaInv /\ [Next]_vars => SagaInv'
    BY NextTypes, NextMoney, NextLines, NextUnits DEF SagaInv, ShelfInv
  <1> QED
    BY <1>1, <1>2, PTL DEF Spec

\* Every piece of state keeps its type; above all, no counter of a stock row
\* goes below zero, although events are delivered twice, out of order and
\* after crashes: every transition finds the unit it takes.
THEOREM TypeCorrect == Spec => []TypeOK
  <1>1. SagaInv => TypeOK
    <2> SUFFICES ASSUME SagaInv PROVE TypeOK
      OBVIOUS
    <2>1. /\ SagaTypes
          /\ stock \in [Sku -> [onHand : Nat, reserved : Nat]]
          /\ rows \in Seq(Row(SagaEvent))
          /\ fetched \subseteq Rows /\ sending \in Rows \cup {NoRow}
      BY DEF SagaInv, ShelfInv, SagaTypes, OutboxInv
    <2>2. \A i \in Rows : /\ rows[i].event \in SagaEvent
                          /\ rows[i].attempts \in 0..MaxAttempts
      BY <2>1, RowFacts DEF Rows
    <2> QED
      BY <2>1, <2>2 DEF TypeOK, SagaTypes, SagaEvent
  <1> QED
    BY <1>1, SagaCorrect, PTL

\* Goods leave only for money the PG has approved.
THEOREM GoodsLeaveForMoney == Spec => []GoodsFollowMoney
  <1>1. SagaInv => GoodsFollowMoney
    BY DEF SagaInv, MoneyInv, GoodsFollowMoney, SoldOrders, Sold
  <1> QED
    BY <1>1, SagaCorrect, PTL

\* Order, payment and PG agree about every order that says it was paid,
\* although three transactions write them.
THEOREM PaidOrdersAreAuthorized == Spec => []PaidIsAuthorized
  <1>1. SagaInv => PaidIsAuthorized
    BY DEF SagaInv, MoneyInv, OrderBacked, PaidIsAuthorized, SoldOrders, Sold
  <1> QED
    BY <1>1, SagaCorrect, PTL

\* Money goes back only after a cancellation of a paid order, and never
\* before the refund was recorded and announced.
THEOREM RefundsAreCaused == Spec => []RefundFollowsCancel
  <1>1. SagaInv => RefundFollowsCancel
    <2> SUFFICES ASSUME SagaInv, NEW o \in Order
                 PROVE  /\ payment[o] = "REFUNDED" \/ o \in refunded =>
                              /\ Announced("OrderPaid", o, FALSE)
                              /\ Announced("OrderCancelled", o, TRUE)
                        /\ o \in refunded \/ order[o] = "REFUNDED" =>
                              Announced("PaymentRefunded", o, FALSE)
      BY DEF RefundFollowsCancel
    <2>1. /\ SagaTypes /\ MoneyInv /\ OrderBacked(o) /\ PaymentBacked(o)
      BY DEF SagaInv, MoneyInv
    <2>2. o \in CancelledOrders => o \in SoldOrders
      <3> SUFFICES ASSUME Cancelled(o) PROVE o \in SoldOrders
        BY DEF CancelledOrders
      <3>1. PICK i \in Rows : rows[i].event = Message("OrderCancelled", o, TRUE)
        BY DEF Cancelled, Announced
      <3>2. EventBacked(rows[i].event)
        BY <2>1 DEF MoneyInv
      <3> QED
        BY <3>1, <3>2 DEF EventBacked, Message
    <2>3. o \in RepaidOrders => o \in CancelledOrders
      <3> SUFFICES ASSUME Repaid(o) PROVE o \in CancelledOrders
        BY DEF RepaidOrders
      <3>1. PICK i \in Rows : rows[i].event = Message("PaymentRefunded", o, FALSE)
        BY DEF Repaid, Announced
      <3>2. EventBacked(rows[i].event)
        BY <2>1 DEF MoneyInv
      <3> QED
        BY <3>1, <3>2 DEF EventBacked, Message
    <2>4. /\ o \in SoldOrders => Announced("OrderPaid", o, FALSE)
          /\ o \in CancelledOrders => Announced("OrderCancelled", o, TRUE)
          /\ o \in RepaidOrders => Announced("PaymentRefunded", o, FALSE)
      BY DEF SoldOrders, Sold, CancelledOrders, Cancelled, RepaidOrders, Repaid
    <2> QED
      BY <2>1, <2>2, <2>3, <2>4 DEF OrderBacked, PaymentBacked
  <1> QED
    BY <1>1, SagaCorrect, PTL

-----------------------------------------------------------------------------
(* Stock follows the order: when nobody cancels before the request has     *)
(* ended, the TTL outlasts the saga, events leave in the order of their    *)
(* commits and nothing fails but the process itself.                       *)

Orderly == Skew = 0 /\ ~CancelEarly /\ ~ExpireEarly /\ MaxFaults = 0

StockEvents == {"OrderPaid", "OrderPaymentFailed", "OrderCancelled"}

\* A reservation in this status has done what it was asked.
Obeyed(op, status) ==
    \/ op = "confirm" /\ status \in {"CONFIRMED", "RESTORED"}
    \/ op = "restore" /\ status = "RESTORED"
    \/ op = "release" /\ status \in {"RELEASED", "EXPIRED"}

\* A task is what a subscriber makes of the row that is being sent.
Comes(task) ==
    LET event == rows[task.row].event IN
    /\ task.row = sending
    /\ task.order = event.order
    /\ task.op \in LineOps =>
          /\ event.type \in StockEvents
          /\ task.op = Asked(event)
          /\ task.sku \in Held(event.order)
    /\ task.op \in {"failOrder", "failOrderCommit"} => event.type = "StockReservationExpired"

\* Nobody rejects, so every row is sent once the older ones are published.
SmoothInv ==
    /\ faults = 0
    /\ ~rejected
    /\ sending = NoRow => work = {}
    /\ \A task \in work : Comes(task)
    /\ \A i \in Rows : rows[i].attempts = 0 /\ ~rows[i].cooling /\ rows[i].at = i - 1
    /\ \A i \in Rows : i < sending => rows[i].published

\* A request that has neither begun nor ended is running.
Begun(o) ==
    /\ checkout[o].pc = "idle" => checkout[o] = NotBegun
    /\ checkout[o].pc = "done" => checkout[o] = Ended

\* While the request of an order runs nobody else has to do with the order,
\* and what it has reserved is reserved.
AloneInv ==
    /\ \A o \in Order :
          /\ Begun(o)
          /\ checkout[o].pc = "idle" => order[o] = "none"
          /\ checkout[o].pc \in {"reserve", "charge", "record", "settle"} =>
                /\ \A s \in Sku : reservation[o][s] \in {"none", "PENDING"}
                /\ Held(o) # {} \/ (checkout[o].pc = "reserve" /\ checkout[o].todo # {})
    /\ \A i \in Rows : checkout[rows[i].event.order].pc = "done"
    /\ \A c \in CancelRequest :
          cancel[c].pc = "read" => checkout[cancel[c].order].pc = "done"

\* A sold order has units, keeps them until it is cancelled, and is never
\* told that it failed.
PaidEvent(event) ==
    \/ event.type \in {"OrderPaid", "PaymentRefunded"}
    \/ event.type = "OrderCancelled" /\ event.wasPaid

KeptInv ==
    \A o \in SoldOrders :
        /\ Held(o) # {}
        /\ \A s \in Sku :
              /\ reservation[o][s] \in {"none", "PENDING", "CONFIRMED", "RESTORED"}
              /\ reservation[o][s] = "RESTORED" => o \in CancelledOrders
        /\ order[o] \in {"PAID", "REFUND_PENDING", "REFUNDED"}
        /\ o \in CancelledOrders => order[o] # "PAID"
        /\ \A i \in Rows : rows[i].event.order = o => PaidEvent(rows[i].event)
        /\ \A c \in CancelRequest :
              cancel[c].pc = "read" /\ cancel[c].order = o => cancel[c].seen = "PAID"

\* An order that has ended without being sold has said so.
ToldInv ==
    \A o \in Order :
        /\ order[o] = "PAYMENT_FAILED" => Announced("OrderPaymentFailed", o, FALSE)
        /\ order[o] = "CANCELLED" => Announced("OrderCancelled", o, FALSE)

\* What is given back was sold before.
PaidFirstInv ==
    \A j \in Rows : rows[j].event.type = "OrderCancelled" /\ rows[j].event.wasPaid =>
        \E i \in Rows : i < j /\ rows[i].event = Message("OrderPaid", rows[j].event.order, FALSE)

\* A row that was published has been obeyed by every reservation of its
\* order, and one that is being sent has been or is about to be.
ObeyInv ==
    \A i \in Rows : rows[i].event.type \in StockEvents =>
        \A s \in Held(rows[i].event.order) :
            \/ Obeyed(Asked(rows[i].event), reservation[rows[i].event.order][s])
            \/ /\ ~rows[i].published
               /\ sending = i => Task(i, Asked(rows[i].event), s) \in work

OrderlyInv ==
    /\ SmoothInv
    /\ AloneInv
    /\ KeptInv
    /\ ToldInv
    /\ PaidFirstInv
    /\ ObeyInv

\* With no faults left, no step is one.
LEMMA NothingFails ==
    ASSUME Orderly, faults = 0, [Next]_vars
    PROVE  ~Fault /\ faults' = 0
  <1>1. ~Fault
    BY SagaAssumption DEF Orderly, Fault
  <1>2. UNCHANGED faults \/ Fault
    BY DEF Next, Advance, SomeDelivery, SomeAct, SomeBackoffEnds, Act, vars, trouble, Tick,
           ReserveLine, ReleaseLine, OpenPayment, Charge, Record, Settle, FailOrder,
           GiveUp, ReserveFails, ChargeFails, PaymentFails, Expire, CancelRead, CancelCommit,
           WebhookRead, WebhookCommit, Deliver, ApplyOne, RefundTx, PgRefund, ExpiredRead,
           ExpiredCommit, OnPaymentRefunded, TaskFails, Conclude, BackoffEnds, Crash,
           Assemble
  <1> QED
    BY <1>1, <1>2

\* How the request of an order goes on, step by step.
LEMMA RequestMoves ==
    ASSUME SagaTypes, [Next]_vars, NEW o \in Order, Begun(o)
    PROVE  \/ checkout'[o] = checkout[o]
           \/ /\ checkout[o].pc \notin {"idle", "done"}
              /\ checkout'[o] = Ended /\ checkout'[o].pc = "done"
           \/ checkout[o].pc \notin {"idle", "done"} /\ checkout'[o].pc = "undo"
           \/ /\ checkout[o].pc = "idle"
              /\ checkout'[o].pc = "reserve" /\ checkout'[o].todo # {}
           \/ /\ checkout[o].pc = "reserve" /\ checkout'[o].pc = "reserve"
              /\ \E s \in Sku : Reserved(o, s)
           \/ /\ checkout[o].pc = "reserve" /\ checkout[o].todo = {}
              /\ checkout'[o].pc = "charge"
           \/ checkout[o].pc = "charge" /\ checkout'[o].pc = "record"
           \/ checkout[o].pc = "record" /\ checkout'[o].pc = "settle"
  <1> DEFINE Goal ==
           \/ checkout'[o] = checkout[o]
           \/ /\ checkout[o].pc \notin {"idle", "done"}
              /\ checkout'[o] = Ended /\ checkout'[o].pc = "done"
           \/ checkout[o].pc \notin {"idle", "done"} /\ checkout'[o].pc = "undo"
           \/ /\ checkout[o].pc = "idle"
              /\ checkout'[o].pc = "reserve" /\ checkout'[o].todo # {}
           \/ /\ checkout[o].pc = "reserve" /\ checkout'[o].pc = "reserve"
              /\ \E s \in Sku : Reserved(o, s)
           \/ /\ checkout[o].pc = "reserve" /\ checkout[o].todo = {}
              /\ checkout'[o].pc = "charge"
           \/ checkout[o].pc = "charge" /\ checkout'[o].pc = "record"
           \/ checkout[o].pc = "record" /\ checkout'[o].pc = "settle"
  <1>1. checkout \in [Order -> [pc : CheckoutPc, todo : SUBSET Sku, answer : Answers]]
    BY DEF SagaTypes
  <1>2. ASSUME NEW p \in Order, NEW step, Proceed(p, step), p # o PROVE Goal
    BY <1>1, <1>2 DEF Proceed
  <1>3. ASSUME NEW step, Proceed(o, step) PROVE checkout'[o] = step
    BY <1>1, <1>3 DEF Proceed
  <1>4. ASSUME NEW p \in Order, CheckoutStep(p)
        PROVE  checkout' = checkout \/ \E step : Proceed(p, step)
    BY <1>4 DEF CheckoutStep, Assemble, ReserveLine, ReleaseLine, OpenPayment, Charge,
                Record, Settle, FailOrder, GiveUp, ReserveFails, ChargeFails, PaymentFails
  <1>5. ASSUME NEW lines \in (SUBSET Sku) \ {{}}, Assemble(o, lines) PROVE Goal
    <2>1. checkout[o] = NotBegun /\ checkout'[o] = Step("reserve", lines, "none")
      BY <1>3, <1>5 DEF Assemble
    <2>2. NotBegun.pc = "idle" /\ Step("reserve", lines, "none").pc = "reserve"
          /\ Step("reserve", lines, "none").todo = lines
      BY DEF NotBegun, Step
    <2>3. checkout[o].pc = "idle" /\ checkout'[o].pc = "reserve" /\ checkout'[o].todo = lines
      BY <2>1, <2>2, Zenon
    <2>4. checkout'[o].todo # {}
      BY <2>3
    <2> QED
      BY <2>3, <2>4, Zenon
  <1>6. ASSUME NEW s \in Sku, ReserveLine(o, s) PROVE Goal
    <2>1. CASE CanReserve(stock[s], 1)
      <3>1. Reserved(o, s)
        BY <1>6, <2>1 DEF ReserveLine, Reserved
      <3>2. checkout[o].pc = "reserve" /\ checkout'[o].pc = "reserve"
        BY <1>3, <3>1 DEF Reserved, Step
      <3> QED
        BY <3>1, <3>2
    <2>2. CASE ~CanReserve(stock[s], 1)
      <3>1. checkout'[o] = Step("undo", Held(o), "soldout") /\ checkout[o].pc = "reserve"
        BY <1>3, <1>6, <2>2 DEF ReserveLine
      <3> QED
        BY <3>1 DEF Step
    <2> QED
      BY <2>1, <2>2
  <1>7. ASSUME NEW s, ReleaseLine(o, s) PROVE Goal
    <2>1. checkout'[o] = [checkout[o] EXCEPT !.todo = @ \ {s}] /\ checkout[o].pc = "undo"
      BY <1>3, <1>7 DEF ReleaseLine
    <2>2. checkout'[o].pc = "undo"
      BY <1>1, <2>1
    <2> QED
      BY <2>1, <2>2
  <1>8. ASSUME OpenPayment(o) PROVE Goal
    BY <1>3, <1>8 DEF OpenPayment, Step
  <1>9. ASSUME Charge(o) PROVE Goal
    BY <1>3, <1>9 DEF Charge, Step
  <1>10. ASSUME Record(o) PROVE Goal
    <2>1. checkout'[o] = [checkout[o] EXCEPT !.pc = "settle"] /\ checkout[o].pc = "record"
      BY <1>3, <1>10 DEF Record
    <2>2. checkout'[o].pc = "settle"
      BY <1>1, <2>1
    <2> QED
      BY <2>1, <2>2
  <1>11. ASSUME Settle(o) \/ FailOrder(o) \/ GiveUp(o) \/ ReserveFails(o) PROVE Goal
    <2>1. Proceed(o, Ended)
      BY <1>11 DEF Settle, FailOrder, GiveUp, ReserveFails
    <2>2. checkout'[o] = Ended
      BY <1>3, <2>1
    <2>3. checkout[o].pc \in {"settle", "undo", "reserve"}
      <3>1. CASE checkout[o] = Step("undo", {}, "soldout") \/ checkout[o] = Step("undo", {}, "unknown")
        BY <3>1 DEF Step
      <3>2. CASE checkout[o].pc = "settle" \/ checkout[o].pc = "reserve"
        BY <3>2
      <3> QED
        BY <1>11, <3>1, <3>2 DEF Settle, FailOrder, GiveUp, ReserveFails
    <2> QED
      BY <2>2, <2>3 DEF Ended, Step
  <1>12. ASSUME ChargeFails(o) \/ PaymentFails(o) PROVE Goal
    <2>1. checkout'[o] = Step("undo", Held(o), "unknown")
      BY <1>3, <1>12 DEF ChargeFails, PaymentFails
    <2>2. checkout[o].pc \in {"charge", "record", "reserve"}
      BY <1>12 DEF ChargeFails, PaymentFails
    <2> QED
      BY <2>1, <2>2 DEF Step
  <1>13. ASSUME Crash PROVE Goal
    <2>1. checkout'[o] = IF Running(o) THEN Ended ELSE checkout[o]
      BY <1>13 DEF Crash
    <2>2. Ended.pc = "done"
      BY DEF Ended, Step
    <2>3. Running(o) => checkout[o].pc \notin {"idle", "done"}
      BY DEF Running, Begun
    <2> QED
      BY <2>1, <2>2, <2>3
  <1>14. (checkout' = checkout) => Goal
    OBVIOUS
  <1>15. ASSUME CheckoutStep(o) PROVE Goal
    <2> HIDE DEF Goal
    <2> QED
      BY <1>5, <1>6, <1>7, <1>8, <1>9, <1>10, <1>11, <1>12, <1>15 DEF CheckoutStep
  <1> HIDE DEF Goal
  <1>16. Goal
    BY <1>2, <1>4, <1>13, <1>14, <1>15, CheckoutWriters
  <1> QED
    BY <1>16 DEF Goal

\* How one reservation changes in a step, and who changes it.
LEMMA LineMoves ==
    ASSUME SagaTypes, LinesInv, [Next]_vars, NEW o \in Order, NEW s \in Sku
    PROVE  \/ reservation'[o][s] = reservation[o][s]
           \/ /\ Reserved(o, s)
              /\ reservation[o][s] = "none" /\ reservation'[o][s] = "PENDING"
           \/ /\ checkout[o].pc = "undo"
              /\ reservation[o][s] = "PENDING" /\ reservation'[o][s] = "RELEASED"
           \/ /\ Expire(o, s)
              /\ reservation[o][s] = "PENDING" /\ reservation'[o][s] = "EXPIRED"
           \/ \E task \in work :
                 /\ ApplyOne(task)
                 /\ task.order = o /\ task.sku = s /\ task.op \in LineOps
                 /\ Verdict(task.op, reservation[o][s]) = "moved"
                 /\ reservation'[o][s] = Target(task.op)
  <1> DEFINE Goal ==
           \/ reservation'[o][s] = reservation[o][s]
           \/ /\ Reserved(o, s)
              /\ reservation[o][s] = "none" /\ reservation'[o][s] = "PENDING"
           \/ /\ checkout[o].pc = "undo"
              /\ reservation[o][s] = "PENDING" /\ reservation'[o][s] = "RELEASED"
           \/ /\ Expire(o, s)
              /\ reservation[o][s] = "PENDING" /\ reservation'[o][s] = "EXPIRED"
           \/ \E task \in work :
                 /\ ApplyOne(task)
                 /\ task.order = o /\ task.sku = s /\ task.op \in LineOps
                 /\ Verdict(task.op, reservation[o][s]) = "moved"
                 /\ reservation'[o][s] = Target(task.op)
  <1>1. ASSUME NEW p \in Order, NEW z \in Sku, NEW status,
               reservation' = [reservation EXCEPT ![p][z] = status]
        PROVE  reservation'[o][s] = IF p = o /\ z = s THEN status ELSE reservation[o][s]
    BY <1>1 DEF SagaTypes
  <1>2. ASSUME NEW p \in Order, NEW z \in Sku, NEW op, Transition(op, p, z)
        PROVE  \/ reservation'[o][s] = reservation[o][s]
               \/ /\ p = o /\ z = s
                  /\ Verdict(op, reservation[o][s]) = "moved"
                  /\ reservation'[o][s] = Target(op)
    BY <1>1, <1>2 DEF Transition, ledgers
  <1>3. ASSUME NEW p \in Order, NEW z \in Sku, ReserveLine(p, z) PROVE Goal
    <2>1. CASE UNCHANGED ledgers
      BY <2>1 DEF ledgers
    <2>2. CASE Reserved(p, z)
      <3>1. reservation'[o][s] = IF p = o /\ z = s THEN "PENDING" ELSE reservation[o][s]
        BY <1>1, <2>2 DEF Reserved
      <3>2. reservation[p][z] = "none"
        BY <2>2 DEF Reserved, LinesInv
      <3> QED
        BY <2>2, <3>1, <3>2
    <2> QED
      BY <1>3, <2>1, <2>2 DEF ReserveLine, Reserved
  <1>4. ASSUME NEW p \in Order, NEW z \in Sku, ReleaseLine(p, z) PROVE Goal
    <2>1. UNCHANGED ledgers \/ Transition("release", p, z)
      BY <1>4 DEF ReleaseLine
    <2>2. checkout[p].pc = "undo"
      BY <1>4 DEF ReleaseLine
    <2>3. Verdict("release", reservation[o][s]) = "moved" => reservation[o][s] = "PENDING"
      BY MovesFrom
    <2>4. CASE UNCHANGED ledgers
      BY <2>4 DEF ledgers
    <2>5. CASE Transition("release", p, z)
      BY <1>2, <2>2, <2>3, <2>5 DEF Target
    <2> QED
      BY <2>1, <2>4, <2>5
  <1>5. ASSUME NEW p \in Order, NEW z \in Sku, Expire(p, z) PROVE Goal
    <2>1. Transition("expire", p, z)
      BY <1>5 DEF Expire
    <2>2. Verdict("expire", reservation[o][s]) = "moved" => reservation[o][s] = "PENDING"
      BY MovesFrom
    <2> QED
      BY <1>2, <1>5, <2>1, <2>2 DEF Target
  <1>6. ASSUME NEW task \in work, ApplyOne(task) PROVE Goal
    <2>1. /\ task.order \in Order
          /\ task.sku \in Sku
          /\ task.op \in LineOps
      BY <1>6 DEF ApplyOne, SagaTypes
    <2>2. UNCHANGED ledgers \/ Transition(task.op, task.order, task.sku)
      BY <1>6 DEF ApplyOne
    <2>3. CASE UNCHANGED ledgers
      BY <2>3 DEF ledgers
    <2>4. CASE Transition(task.op, task.order, task.sku)
      BY <1>2, <1>6, <2>1, <2>4
    <2> QED
      BY <2>2, <2>3, <2>4
  <1>7. (reservation' = reservation) => Goal
    OBVIOUS
  <1> HIDE DEF Goal
  <1>8. Goal
    BY <1>3, <1>4, <1>5, <1>6, <1>7, LedgerWriters
  <1> QED
    BY <1>8 DEF Goal

\* How the status of an order changes in a step, and who changes it.
LEMMA StatusMoves ==
    ASSUME SagaTypes, [Next]_vars, NEW o \in Order
    PROVE  \/ order'[o] = order[o]
           \/ /\ \E lines \in (SUBSET Sku) \ {{}} : Assemble(o, lines)
              /\ order'[o] = "PENDING_PAYMENT"
           \/ Settle(o) /\ order'[o] = AfterPayment(checkout[o].answer)
           \/ FailOrder(o) /\ order'[o] = "PAYMENT_FAILED"
           \/ \E c \in CancelRequest :
                 /\ CancelCommit(c) /\ cancel[c].order = o
                 /\ order'[o] = CancelledTo(cancel[c].seen)
           \/ \E task \in work :
                 /\ ExpiredCommit(task) /\ task.order = o
                 /\ order'[o] = "PAYMENT_FAILED"
           \/ \E task \in work :
                 /\ OnPaymentRefunded(task) /\ task.order = o
                 /\ order'[o] = "REFUNDED"
  <1> DEFINE Goal ==
           \/ order'[o] = order[o]
           \/ /\ \E lines \in (SUBSET Sku) \ {{}} : Assemble(o, lines)
              /\ order'[o] = "PENDING_PAYMENT"
           \/ Settle(o) /\ order'[o] = AfterPayment(checkout[o].answer)
           \/ FailOrder(o) /\ order'[o] = "PAYMENT_FAILED"
           \/ \E c \in CancelRequest :
                 /\ CancelCommit(c) /\ cancel[c].order = o
                 /\ order'[o] = CancelledTo(cancel[c].seen)
           \/ \E task \in work :
                 /\ ExpiredCommit(task) /\ task.order = o
                 /\ order'[o] = "PAYMENT_FAILED"
           \/ \E task \in work :
                 /\ OnPaymentRefunded(task) /\ task.order = o
                 /\ order'[o] = "REFUNDED"
  <1>1. ASSUME NEW p, NEW status, SaveOrder(p, status)
        PROVE  order'[o] = IF p = o THEN status ELSE order[o]
    BY <1>1 DEF SaveOrder, SagaTypes
  <1>2. ASSUME NEW p \in Order, NEW lines \in (SUBSET Sku) \ {{}}, Assemble(p, lines) PROVE Goal
    <2>1. SaveOrder(p, "PENDING_PAYMENT")
      BY <1>2 DEF Assemble
    <2> QED
      BY <1>1, <1>2, <2>1
  <1>3. ASSUME NEW p \in Order, Settle(p) PROVE Goal
    <2>1. SaveOrder(p, AfterPayment(checkout[p].answer))
      BY <1>3 DEF Settle
    <2> QED
      BY <1>1, <1>3, <2>1
  <1>4. ASSUME NEW p \in Order, FailOrder(p) PROVE Goal
    <2>1. SaveOrder(p, "PAYMENT_FAILED")
      BY <1>4 DEF FailOrder
    <2> QED
      BY <1>1, <1>4, <2>1
  <1>5. ASSUME NEW c \in CancelRequest, CancelCommit(c) PROVE Goal
    <2>1. SaveOrder(cancel[c].order, CancelledTo(cancel[c].seen))
      BY <1>5 DEF CancelCommit
    <2> QED
      BY <1>1, <1>5, <2>1
  <1>6. ASSUME NEW task \in work, ExpiredCommit(task) PROVE Goal
    <2>1. SaveOrder(task.order, "PAYMENT_FAILED")
      BY <1>6 DEF ExpiredCommit
    <2> QED
      BY <1>1, <1>6, <2>1
  <1>7. ASSUME NEW task \in work, OnPaymentRefunded(task) PROVE Goal
    <2>1. order' = order \/ SaveOrder(task.order, "REFUNDED")
      BY <1>7 DEF OnPaymentRefunded
    <2> QED
      BY <1>1, <1>7, <2>1
  <1>8. (order' = order) => Goal
    OBVIOUS
  <1> HIDE DEF Goal
  <1>9. Goal
    BY <1>2, <1>3, <1>4, <1>5, <1>6, <1>7, <1>8, OrderWriters
  <1> QED
    BY <1>9 DEF Goal

\* How a cancel request goes on.
LEMMA CancelMoves ==
    ASSUME SagaTypes, [Next]_vars, NEW c \in CancelRequest
    PROVE  \/ cancel'[c] = cancel[c]
           \/ cancel'[c].pc # "read"
           \/ \E o \in Order :
                 /\ CancelRead(c, o)
                 /\ cancel'[c] = [pc |-> "read", order |-> o, seen |-> order[o]]
  <1>1. ASSUME NEW d, NEW state, cancel' = [cancel EXCEPT ![d] = state]
        PROVE  cancel'[c] = IF d = c THEN state ELSE cancel[c]
    BY <1>1 DEF SagaTypes
  <1>2. ASSUME NEW d \in CancelRequest, NEW o \in Order, CancelRead(d, o)
        PROVE  cancel'[c] = cancel[c] \/ (d = c /\ cancel'[c] = [pc |-> "read", order |-> o, seen |-> order[o]])
    <2>1. cancel' = [cancel EXCEPT ![d] = [pc |-> "read", order |-> o, seen |-> order[o]]]
      BY <1>2 DEF CancelRead
    <2> QED
      BY <1>1, <2>1
  <1>3. ASSUME NEW d \in CancelRequest, CancelCommit(d)
        PROVE  cancel'[c] = cancel[c] \/ cancel'[c].pc # "read"
    <2>1. cancel' = [cancel EXCEPT ![d] = [pc |-> "answered"]]
      BY <1>3 DEF CancelCommit
    <2> QED
      BY <1>1, <2>1
  <1>4. ASSUME Crash PROVE cancel'[c] = cancel[c] \/ cancel'[c].pc # "read"
    <2>1. cancel'[c] = IF cancel[c].pc = "read" THEN [pc |-> "answered"] ELSE cancel[c]
      BY <1>4 DEF Crash
    <2> QED
      BY <2>1
  <1> QED
    BY <1>2, <1>3, <1>4, CancelWriters

\* Only these steps concern the row that is being sent.
LEMMA DeliveryWriters ==
    ASSUME ~Fault, [Next]_vars
    PROVE  \/ work' = work /\ rejected' = rejected /\ sending' = sending
           \/ \E i \in Rows : Deliver(i)
           \/ \E task \in work : Act(task)
           \/ Conclude
           \/ Crash
  BY DEF Next, Advance, SomeDelivery, SomeAct, SomeBackoffEnds, vars, subscribers, Tick,
         ReserveLine, ReleaseLine, OpenPayment, Charge, Record, Settle, FailOrder,
         GiveUp, ReserveFails, ChargeFails, PaymentFails, Expire, CancelRead, CancelCommit,
         WebhookRead, WebhookCommit, BackoffEnds, Assemble, TaskFails, Publish, outboxVars,
         Fetch, CoolDown

\* A task changes nothing of the row that is being sent.
LEMMA ActsLeaveTheRun ==
    ASSUME NEW task, Act(task)
    PROVE  sending' = sending
  BY DEF Act, ApplyOne, RefundTx, PgRefund, ExpiredRead, ExpiredCommit, OnPaymentRefunded,
         Publish, outboxVars

\* The last row of the table after a transaction has published an event.
LEMMA LastRow ==
    ASSUME Orderly, SagaTypes, NEW event \in SagaEvent, Publish(event)
    PROVE  /\ Len(rows) \in Nat
           /\ Rows' = Rows \cup {Len(rows) + 1}
           /\ \A i \in Rows : rows'[i] = rows[i]
           /\ rows'[Len(rows) + 1].event = event
           /\ rows'[Len(rows) + 1].at = Len(rows)
           /\ rows'[Len(rows) + 1].attempts = 0
           /\ rows'[Len(rows) + 1].cooling = FALSE
           /\ rows'[Len(rows) + 1].published = FALSE
           /\ sending' = sending
  <1>1. /\ OutboxInv(SagaEvent)
        /\ rows \in Seq(Row(SagaEvent))
        /\ Len(rows) \in Nat
    BY RowFacts DEF SagaTypes, OutboxInv
  <1>2. /\ Len(rows') = Len(rows) + 1
        /\ \A i \in Rows : rows'[i] = rows[i]
        /\ rows'[Len(rows')].event = event
        /\ rows'[Len(rows')].attempts = 0
        /\ rows'[Len(rows')].published = FALSE
        /\ rows'[Len(rows')].cooling = FALSE
    BY <1>1, Publishes
  <1>3. PICK late \in 0..Skew :
          /\ late <= Len(rows)
          /\ rows' = Append(rows, [event |-> event, at |-> Len(rows) - late,
                                   attempts |-> 0, cooling |-> FALSE,
                                   published |-> FALSE])
    BY DEF Publish
  <1>4. late = 0
    BY <1>3 DEF Orderly
  <1>5. rows'[Len(rows) + 1] = [event |-> event, at |-> Len(rows) - late,
                                attempts |-> 0, cooling |-> FALSE, published |-> FALSE]
    BY <1>1, <1>3
  <1>6. rows'[Len(rows) + 1].at = Len(rows)
    BY <1>1, <1>4, <1>5
  <1>7. sending' = sending
    BY DEF Publish
  <1>8. Rows' = Rows \cup {Len(rows) + 1}
    BY <1>1, <1>2 DEF Rows
  <1> QED
    BY <1>1, <1>2, <1>6, <1>7, <1>8

\* The table grows by an event, or the row that was sent is marked.
LEMMA TableMoves ==
    ASSUME Orderly, SagaTypes, SmoothInv, [Next]_vars
    PROVE  \/ rows' = rows
           \/ \E event \in SagaEvent : Publish(event) /\ Published(event)
           \/ Conclude /\ MarkPublished
  <1>1. ~Fault /\ ~rejected
    BY NothingFails DEF SmoothInv
  <1>2. CASE MarkPublished \/ RecordFailure
    <2>1. sending # NoRow /\ sending' = NoRow
      BY <1>2 DEF MarkPublished, RecordFailure
    <2>2. ~\E i \in Rows : Deliver(i)
      BY <2>1 DEF Deliver, Send
    <2>3. ~\E task \in work : Act(task)
      BY <2>1, ActsLeaveTheRun
    <2>4. Conclude \/ Crash
      BY <1>1, <2>1, <2>2, <2>3, DeliveryWriters
    <2> QED
      BY <1>1, <2>4 DEF Conclude, Crash, AbortRun
  <1>3. ASSUME NEW i \in Rows, CoolDown(i) PROVE FALSE
    BY <1>3 DEF CoolDown, SmoothInv
  <1>4. UNCHANGED outboxVars \/ Fetch \/ AbortRun \/ (\E i \in Rows : Send(i)) => rows' = rows
    BY DEF outboxVars, Fetch, AbortRun, Send
  <1> QED
    BY <1>2, <1>3, <1>4, OutboxWriters DEF Silent

\* An order is sold by the last transaction of its request.
LEMMA SoldBy ==
    ASSUME SagaTypes, MoneyInv, [Next]_vars, NEW o \in SoldOrders'
    PROVE  \/ o \in SoldOrders
           \/ Settle(o) /\ checkout[o].answer = "approved"
  <1>1. PICK i \in Rows' : rows'[i].event = Message("OrderPaid", o, FALSE)
    BY DEF SoldOrders, Sold, Announced, Message
  <1>2. CASE i \in Rows
    <2>1. rows[i].event = Message("OrderPaid", o, FALSE)
      BY <1>1, <1>2, NextOutbox
    <2> QED
      BY <1>2, <2>1, RowAnnounces DEF Message
  <1>3. CASE i \notin Rows
    <2>1. PICK event \in SagaEvent : NewEvent(event) /\ Published(event)
      BY <1>3, NextOutbox DEF SameEvents
    <2>2. event = Message("OrderPaid", o, FALSE)
      BY <1>1, <1>3, <2>1 DEF NewEvent
    <2>3. event.type = "OrderPaid" /\ event.order = o
      BY <2>2 DEF Message
    <2>4. ASSUME NEW p \in Order, Settle(p),
                 event = Message(IF checkout[p].answer = "approved" THEN "OrderPaid"
                                 ELSE "OrderPaymentFailed", p, FALSE)
          PROVE  Settle(o) /\ checkout[o].answer = "approved"
      BY <2>3, <2>4 DEF Message
    <2>5. ASSUME NEW type, NEW p, NEW wasPaid, event = Message(type, p, wasPaid)
          PROVE  type = "OrderPaid"
      BY <2>3, <2>5 DEF Message
    <2> QED
      BY <2>1, <2>4, <2>5 DEF Published
  <1> QED
    BY <1>2, <1>3

\* An order counts as cancelled after payment by the request that read PAID.
LEMMA CancelledBy ==
    ASSUME SagaTypes, MoneyInv, [Next]_vars, NEW o \in CancelledOrders'
    PROVE  \/ o \in CancelledOrders
           \/ \E c \in CancelRequest :
                 CancelCommit(c) /\ cancel[c].order = o /\ cancel[c].seen = "PAID"
  <1>1. PICK i \in Rows' : rows'[i].event = Message("OrderCancelled", o, TRUE)
    BY DEF CancelledOrders, Cancelled, Announced, Message
  <1>2. CASE i \in Rows
    <2>1. rows[i].event = Message("OrderCancelled", o, TRUE)
      BY <1>1, <1>2, NextOutbox
    <2> QED
      BY <1>2, <2>1, RowAnnounces DEF Message
  <1>3. CASE i \notin Rows
    <2>1. PICK event \in SagaEvent : NewEvent(event) /\ Published(event)
      BY <1>3, NextOutbox DEF SameEvents
    <2>2. event = Message("OrderCancelled", o, TRUE)
      BY <1>1, <1>3, <2>1 DEF NewEvent
    <2>3. event.type = "OrderCancelled" /\ event.order = o /\ event.wasPaid = TRUE
      BY <2>2 DEF Message
    <2>4. ASSUME NEW c \in CancelRequest, CancelCommit(c),
                 event = Message("OrderCancelled", cancel[c].order, WasPaid(cancel[c].seen))
          PROVE  CancelCommit(c) /\ cancel[c].order = o /\ cancel[c].seen = "PAID"
      BY <2>3, <2>4 DEF Message, WasPaid
    <2>5. ASSUME NEW type, NEW p, event = Message(type, p, FALSE)
          PROVE  FALSE
      BY <2>3, <2>5 DEF Message
    <2> QED
      BY <2>1, <2>4, <2>5 DEF Published
  <1> QED
    BY <1>2, <1>3

\* A reservation is never deleted.
LEMMA HeldStays ==
    ASSUME SagaTypes, LinesInv, [Next]_vars, NEW o \in Order
    PROVE  Held(o) \subseteq Held(o)'
  <1> SUFFICES ASSUME NEW s \in Sku, reservation[o][s] # "none"
               PROVE  reservation'[o][s] # "none"
    BY DEF Held
  <1>1. \A op : Verdict(op, reservation[o][s]) = "moved" => Target(op) # "none"
    BY MovesFrom DEF ReservationStatus
  <1> QED
    BY <1>1, LineMoves

\* A task belongs to the row that is being sent, and the request of its order
\* has ended.
LEMMA TasksComeLate ==
    ASSUME SagaTypes, SmoothInv, AloneInv, NEW task \in work
    PROVE  /\ sending \in Rows
           /\ task.row = sending
           /\ task.order \in Order
           /\ task.order = rows[sending].event.order
           /\ checkout[task.order].pc = "done"
           /\ Comes(task)
  <1>1. Comes(task) /\ sending # NoRow
    BY DEF SmoothInv
  <1>2. sending \in Rows /\ task.order \in Order
    BY <1>1 DEF SagaTypes, OutboxInv
  <1> QED
    BY <1>1, <1>2 DEF Comes, AloneInv

\* Who has to do with an order whose request has not ended: its request.
LEMMA NobodyElse ==
    ASSUME Orderly, SagaInv, OrderlyInv, [Next]_vars, NEW o \in Order,
           checkout[o].pc # "done"
    PROVE  /\ ~\E task \in work : task.order = o
           /\ ~\E c \in CancelRequest : CancelCommit(c) /\ cancel[c].order = o
           /\ ~\E s \in Sku : Expire(o, s)
  <1>1. ~\E task \in work : task.order = o
    BY TasksComeLate DEF OrderlyInv, SagaInv
  <1>2. ~\E c \in CancelRequest : CancelCommit(c) /\ cancel[c].order = o
    BY DEF CancelCommit, OrderlyInv, AloneInv
  <1>3. ASSUME NEW s \in Sku, Expire(o, s) PROVE FALSE
    <2>1. reservation[o][s] = "PENDING" /\ ~Running(o)
      BY <1>3 DEF Expire, Orderly
    <2>2. checkout[o].pc # "idle"
      BY <2>1 DEF SagaInv, ShelfInv, LinesInv
    <2> QED
      BY <2>1, <2>2 DEF Running, NotBegun, Ended, Step
  <1> QED
    BY <1>1, <1>2, <1>3

\* What the request of an order has reserved stays reserved until it ends.
LEMMA NextRequests ==
    ASSUME Orderly, SagaInv, OrderlyInv, [Next]_vars, NEW o \in Order
    PROVE  /\ Begun(o)'
           /\ checkout'[o].pc = "idle" => order'[o] = "none"
           /\ checkout'[o].pc \in {"reserve", "charge", "record", "settle"} =>
                 /\ \A s \in Sku : reservation'[o][s] \in {"none", "PENDING"}
                 /\ Held(o)' # {} \/ (checkout'[o].pc = "reserve" /\ checkout'[o].todo # {})
  <1>1. /\ SagaTypes /\ LinesInv
        /\ Begun(o)
        /\ checkout[o].pc = "idle" => order[o] = "none"
        /\ checkout[o].pc \in {"reserve", "charge", "record", "settle"} =>
              /\ \A s \in Sku : reservation[o][s] \in {"none", "PENDING"}
              /\ Held(o) # {} \/ (checkout[o].pc = "reserve" /\ checkout[o].todo # {})
    BY DEF SagaInv, ShelfInv, OrderlyInv, AloneInv
  <1>2. Begun(o)'
    BY <1>1, RequestMoves DEF Begun
  <1>3. ASSUME checkout'[o].pc = "idle" PROVE order'[o] = "none"
    <2>1. checkout[o].pc = "idle"
      BY <1>1, <1>3, RequestMoves
    <2>2. ~\E lines \in (SUBSET Sku) \ {{}} : Assemble(o, lines)
      BY <1>1, <1>3 DEF Assemble, Proceed, SagaTypes, Step
    <2>3. ~Settle(o) /\ ~FailOrder(o)
      <3>1. Step("undo", {}, "soldout").pc = "undo"
        BY DEF Step
      <3> QED
        BY <2>1, <3>1 DEF Settle, FailOrder
    <2> QED
      BY <1>1, <2>1, <2>2, <2>3, NobodyElse, StatusMoves
  <1>4. ASSUME checkout'[o].pc \in {"reserve", "charge", "record", "settle"}, NEW s \in Sku
        PROVE  reservation'[o][s] \in {"none", "PENDING"}
    <2>1. checkout[o].pc \in {"idle", "reserve", "charge", "record", "settle"}
      BY <1>1, <1>4, RequestMoves
    <2>2. reservation[o][s] \in {"none", "PENDING"}
      BY <1>1, <2>1 DEF LinesInv
    <2> QED
      BY <1>1, <2>1, <2>2, NobodyElse, LineMoves
  <1>5. ASSUME checkout'[o].pc \in {"reserve", "charge", "record", "settle"}, Held(o)' = {}
        PROVE  checkout'[o].pc = "reserve" /\ checkout'[o].todo # {}
    <2>1. Held(o) = {}
      BY <1>1, <1>5, HeldStays
    <2>2. ASSUME NEW s \in Sku, Reserved(o, s) PROVE FALSE
      <3>1. reservation'[o][s] = "PENDING"
        BY <1>1, <2>2 DEF Reserved, SagaTypes
      <3> QED
        BY <1>5, <3>1 DEF Held
    <2> QED
      BY <1>1, <1>5, <2>1, <2>2, RequestMoves
  <1> QED
    BY <1>2, <1>3, <1>4, <1>5

\* An event is published about an order whose request has ended, or ends.
LEMMA PublishedLate ==
    ASSUME Orderly, SagaInv, OrderlyInv, [Next]_vars, NEW event \in SagaEvent, Published(event)
    PROVE  checkout'[event.order].pc = "done"
  <1>0. SagaTypes /\ SmoothInv /\ AloneInv
    BY DEF SagaInv, OrderlyInv
  <1>1. ASSUME NEW o \in Order, Settle(o) \/ FailOrder(o) PROVE checkout'[o].pc = "done"
    <2>1. Proceed(o, Ended)
      BY <1>1 DEF Settle, FailOrder
    <2>2. checkout'[o] = Ended
      BY <1>0, <2>1 DEF Proceed, SagaTypes
    <2> QED
      BY <2>2 DEF Ended, Step
  <1>2. ASSUME NEW o \in Order, checkout[o].pc = "done" PROVE checkout'[o].pc = "done"
    BY <1>0, <1>2, CheckoutMoves
  <1>3. ASSUME NEW o \in Order, NEW s \in Sku, Expire(o, s) PROVE checkout[o].pc = "done"
    BY <1>3, NobodyElse
  <1>4. ASSUME NEW c \in CancelRequest, CancelCommit(c)
        PROVE  cancel[c].order \in Order /\ checkout[cancel[c].order].pc = "done"
    BY <1>0, <1>4 DEF CancelCommit, SagaTypes, AloneInv
  <1>5. ASSUME NEW task \in work
        PROVE  task.order \in Order /\ checkout[task.order].pc = "done"
    BY <1>0, TasksComeLate
  <1>6. \A type, o, wasPaid : Message(type, o, wasPaid).order = o
    BY DEF Message
  <1> QED
    <2>1. \A p \in Order : \A type, wasPaid :
            /\ event = Message(type, p, wasPaid)
            /\ checkout[p].pc = "done" \/ checkout'[p].pc = "done"
            => checkout'[event.order].pc = "done"
      BY <1>2, <1>6
    <2>2. ASSUME NEW o \in Order,
                 \/ /\ Settle(o)
                    /\ event = Message(IF checkout[o].answer = "approved" THEN "OrderPaid"
                                       ELSE "OrderPaymentFailed", o, FALSE)
                 \/ FailOrder(o) /\ event = Message("OrderPaymentFailed", o, FALSE)
                 \/ \E s \in Sku : /\ Expire(o, s)
                                   /\ event = Message("StockReservationExpired", o, FALSE)
          PROVE  checkout'[event.order].pc = "done"
      <3>1. checkout[o].pc = "done" \/ checkout'[o].pc = "done"
        BY <1>1, <1>3, <2>2
      <3>2. \E type : event = Message(type, o, FALSE)
        BY <2>2
      <3> QED
        BY <2>1, <3>1, <3>2
    <2>3. CASE \E c \in CancelRequest :
                /\ CancelCommit(c)
                /\ event = Message("OrderCancelled", cancel[c].order, WasPaid(cancel[c].seen))
      BY <1>4, <2>1, <2>3
    <2>4. CASE \E task \in work : \E type :  event = Message(type, task.order, FALSE)
      BY <1>5, <2>1, <2>4
    <2> QED
      BY <2>2, <2>3, <2>4 DEF Published

\* Whoever is not its request has to do with an order only once that has ended.
LEMMA NextAlone ==
    ASSUME Orderly, SagaInv, OrderlyInv, [Next]_vars
    PROVE  AloneInv'
  <1>0. SagaTypes /\ SagaTypes' /\ AloneInv
    BY NextTypes DEF SagaInv, OrderlyInv
  <1>1. ASSUME NEW i \in Rows' PROVE checkout'[rows'[i].event.order].pc = "done"
    <2>1. CASE i \in Rows /\ rows'[i].event = rows[i].event
      <3>1. rows[i].event.order \in Order /\ checkout[rows[i].event.order].pc = "done"
        BY <1>0, <2>1, RowAnnounces DEF SagaInv, AloneInv
      <3> QED
        BY <1>0, <2>1, <3>1, CheckoutMoves
    <2>2. ASSUME NEW event \in SagaEvent, Published(event), rows'[i].event = event
          PROVE  checkout'[rows'[i].event.order].pc = "done"
      BY <2>2, PublishedLate
    <2> QED
      BY <1>0, <2>1, <2>2, NextOutbox DEF SameEvents, NewEvent
  <1>2. ASSUME NEW c \in CancelRequest, cancel'[c].pc = "read"
        PROVE  checkout'[cancel'[c].order].pc = "done"
    <2>1. CASE cancel'[c] = cancel[c]
      <3>1. cancel[c].order \in Order /\ checkout[cancel[c].order].pc = "done"
        BY <1>0, <1>2, <2>1 DEF SagaTypes, AloneInv
      <3> QED
        BY <1>0, <2>1, <3>1, CheckoutMoves
    <2>2. ASSUME NEW o \in Order, CancelRead(c, o),
                 cancel'[c] = [pc |-> "read", order |-> o, seen |-> order[o]]
          PROVE  checkout'[cancel'[c].order].pc = "done"
      <3>1. /\ CancelBy(order[o]) = "moved"
            /\ ~Running(o)
            /\ checkout' = checkout
        BY <2>2 DEF CancelRead, Orderly
      <3>2. checkout[o].pc # "idle"
        BY <1>0, <3>1 DEF AloneInv, CancelBy
      <3>3. checkout[o].pc = "done"
        BY <3>1, <3>2 DEF Running, NotBegun, Ended, Step
      <3> QED
        BY <2>2, <3>1, <3>3
    <2> QED
      BY <1>0, <1>2, <2>1, <2>2, CancelMoves
  <1> QED
    BY <1>1, <1>2, NextRequests DEF AloneInv

\* What no task, request or timer asks of an order that was sold.
LEMMA SoldIsLeftAlone ==
    ASSUME Orderly, SagaInv, OrderlyInv, [Next]_vars, NEW o \in SoldOrders
    PROVE  /\ checkout[o].pc = "done"
           /\ \A task \in work : task.order = o =>
                 /\ task.op \in LineOps => task.op \in {"confirm", "restore"}
                 /\ task.op = "restore" => o \in CancelledOrders
                 /\ task.op \notin {"failOrder", "failOrderCommit"}
           /\ ~\E s \in Sku : Expire(o, s)
  <1>0. SagaTypes /\ MoneyInv /\ SmoothInv /\ AloneInv /\ KeptInv /\ ObeyInv
    BY DEF SagaInv, OrderlyInv
  <1>1. checkout[o].pc = "done"
    BY DEF SoldOrders, Sold
  <1>2. ASSUME NEW task \in work, task.order = o
        PROVE  /\ task.op \in LineOps => task.op \in {"confirm", "restore"}
               /\ task.op = "restore" => o \in CancelledOrders
               /\ task.op \notin {"failOrder", "failOrderCommit"}
    <2> DEFINE event == rows[sending].event
    <2>1. sending \in Rows /\ task.row = sending /\ event.order = o /\ Comes(task)
      BY <1>0, <1>2, TasksComeLate
    <2>2. PaidEvent(event)
      BY <1>0, <2>1 DEF KeptInv
    <2>3. event.type = "OrderCancelled" /\ event.wasPaid => o \in CancelledOrders
      BY <1>0, <2>1, RowAnnounces
    <2>4. /\ task.op \in LineOps => event.type \in StockEvents /\ task.op = Asked(event)
          /\ task.op \in {"failOrder", "failOrderCommit"} => event.type = "StockReservationExpired"
      BY <2>1 DEF Comes
    <2> HIDE DEF event
    <2>5. task.op \in LineOps => /\ task.op \in {"confirm", "restore"}
                                 /\ task.op = "restore" => o \in CancelledOrders
      BY <2>2, <2>3, <2>4 DEF PaidEvent, StockEvents, Asked
    <2>6. task.op \notin {"failOrder", "failOrderCommit"}
      BY <2>2, <2>4 DEF PaidEvent
    <2> QED
      BY <2>5, <2>6 DEF LineOps
  <1>3. ASSUME NEW s \in Sku, Expire(o, s) PROVE FALSE
    <2>1. /\ reservation[o][s] = "PENDING"
          /\ Drained
      BY <1>3 DEF Expire, Orderly
    <2>2. PICK i \in Rows : rows[i].event = Message("OrderPaid", o, FALSE)
      BY DEF SoldOrders, Sold, Announced
    <2>3. rows[i].published
      BY <1>0, <2>1, OutboxAssumption DEF Drained, Due, SmoothInv
    <2>4. rows[i].event.type = "OrderPaid" /\ rows[i].event.order = o
      BY <2>2 DEF Message
    <2>5. s \in Held(o)
      BY <2>1 DEF Held
    <2>6. Obeyed("confirm", reservation[o][s])
      BY <1>0, <2>3, <2>4, <2>5 DEF ObeyInv, StockEvents, Asked
    <2> QED
      BY <2>1, <2>6 DEF Obeyed
  <1> QED
    BY <1>1, <1>2, <1>3

\* What is published about a sold order.
LEMMA PaidNews ==
    ASSUME Orderly, SagaInv, OrderlyInv, [Next]_vars, NEW event \in SagaEvent,
           Published(event), event.order \in SoldOrders
    PROVE  PaidEvent(event)
  <1> DEFINE o == event.order
  <1>0. SagaTypes /\ KeptInv
    BY DEF SagaInv, OrderlyInv
  <1>1. /\ checkout[o].pc = "done"
        /\ \A task \in work : task.order = o => task.op # "failOrderCommit"
        /\ ~\E s \in Sku : Expire(o, s)
    BY SoldIsLeftAlone
  <1>2. ~Settle(o) /\ ~FailOrder(o)
    <2>1. Step("undo", {}, "soldout").pc = "undo"
      BY DEF Step
    <2> QED
      BY <1>1, <2>1 DEF Settle, FailOrder
  <1>3. \A type, p, wasPaid : event = Message(type, p, wasPaid) =>
            p = o /\ event.type = type /\ event.wasPaid = wasPaid
    BY DEF Message
  <1>4. ASSUME NEW c \in CancelRequest, CancelCommit(c),
               event = Message("OrderCancelled", cancel[c].order, WasPaid(cancel[c].seen))
        PROVE  PaidEvent(event)
    <2>1. cancel[c].order = o /\ event.type = "OrderCancelled" /\ event.wasPaid = WasPaid(cancel[c].seen)
      BY <1>3, <1>4
    <2>2. cancel[c].seen = "PAID"
      BY <1>0, <1>4, <2>1 DEF KeptInv, CancelCommit
    <2> QED
      BY <2>1, <2>2 DEF PaidEvent, WasPaid
  <1>5. ASSUME NEW task \in work, RefundTx(task), event = Message("PaymentRefunded", task.order, FALSE)
        PROVE  PaidEvent(event)
    BY <1>3, <1>5 DEF PaidEvent
  <1>6. ASSUME NEW task \in work, ExpiredCommit(task),
               event = Message("OrderPaymentFailed", task.order, FALSE)
        PROVE  FALSE
    <2>1. task.order = o /\ task.op = "failOrderCommit"
      BY <1>3, <1>6 DEF ExpiredCommit
    <2> QED
      BY <1>1, <2>1
  <1>7. ASSUME NEW p \in Order, Settle(p) \/ FailOrder(p) \/ \E s \in Sku : Expire(p, s)
        PROVE  p # o
    BY <1>1, <1>2, <1>7
  <1>8. ASSUME NEW p \in Order,
               \/ /\ Settle(p)
                  /\ event = Message(IF checkout[p].answer = "approved" THEN "OrderPaid"
                                     ELSE "OrderPaymentFailed", p, FALSE)
               \/ FailOrder(p) /\ event = Message("OrderPaymentFailed", p, FALSE)
               \/ \E s \in Sku : /\ Expire(p, s)
                                 /\ event = Message("StockReservationExpired", p, FALSE)
        PROVE  FALSE
    <2>1. \E type : event = Message(type, p, FALSE)
      BY <1>8
    <2>2. p = o
      BY <1>3, <2>1
    <2>3. Settle(p) \/ FailOrder(p) \/ \E s \in Sku : Expire(p, s)
      BY <1>8
    <2> QED
      BY <1>7, <2>2, <2>3
  <1> HIDE DEF o
  <1> QED
    BY <1>4, <1>5, <1>6, <1>8 DEF Published

\* An order that was sold holds its units until it is cancelled, and hears of
\* nothing but its sale.
LEMMA NextKept ==
    ASSUME Orderly, SagaInv, OrderlyInv, [Next]_vars
    PROVE  KeptInv'
  <1>0. /\ SagaTypes /\ SagaTypes' /\ MoneyInv /\ LinesInv
        /\ SmoothInv /\ AloneInv /\ KeptInv
    BY NextTypes DEF SagaInv, ShelfInv, OrderlyInv
  <1> SUFFICES ASSUME NEW o \in SoldOrders'
               PROVE  /\ Held(o)' # {}
                      /\ \A s \in Sku :
                            /\ reservation'[o][s] \in {"none", "PENDING", "CONFIRMED", "RESTORED"}
                            /\ reservation'[o][s] = "RESTORED" => o \in CancelledOrders'
                      /\ order'[o] \in {"PAID", "REFUND_PENDING", "REFUNDED"}
                      /\ o \in CancelledOrders' => order'[o] # "PAID"
                      /\ \A i \in Rows' : rows'[i].event.order = o => PaidEvent(rows'[i].event)
                      /\ \A c \in CancelRequest :
                            cancel'[c].pc = "read" /\ cancel'[c].order = o => cancel'[c].seen = "PAID"
    BY DEF KeptInv, PaidEvent
  <1>1. o \in Order
    BY DEF SoldOrders
  <1>2. CASE o \notin SoldOrders
    <2>1. Settle(o) /\ checkout[o].answer = "approved"
      BY <1>0, <1>2, SoldBy
    <2>2. /\ checkout[o].pc = "settle"
          /\ reservation' = reservation
          /\ cancel' = cancel
          /\ SaveOrder(o, "PAID")
          /\ Publish(Message("OrderPaid", o, FALSE))
      BY <2>1 DEF Settle, ledgers, AfterPayment
    <2>3. /\ Held(o) # {}
          /\ \A s \in Sku : reservation[o][s] \in {"none", "PENDING"}
          /\ ~\E i \in Rows : rows[i].event.order = o
          /\ ~\E c \in CancelRequest : cancel[c].pc = "read" /\ cancel[c].order = o
      BY <1>0, <1>1, <2>2 DEF AloneInv
    <2>4. order'[o] = "PAID"
      BY <1>0, <1>1, <2>2 DEF SaveOrder, SagaTypes
    <2>5. \A i \in Rows' : rows'[i].event.order = o => rows'[i].event = Message("OrderPaid", o, FALSE)
      <3>1. Message("OrderPaid", o, FALSE) \in SagaEvent
        BY <1>1 DEF Message, SagaEvent, EventTypes
      <3>2. NewEvent(Message("OrderPaid", o, FALSE))
        BY <1>0, <2>2, <3>1, LoudStep DEF SagaTypes
      <3> QED
        BY <2>3, <3>2 DEF NewEvent
    <2>6. o \notin CancelledOrders'
      BY <2>5 DEF CancelledOrders, Cancelled, Announced, Message
    <2>7. \A i \in Rows' : rows'[i].event.order = o => PaidEvent(rows'[i].event)
      BY <2>5 DEF PaidEvent, Message
    <2>8. Held(o)' # {}
      BY <2>2, <2>3 DEF Held
    <2> QED
      BY <2>2, <2>3, <2>4, <2>6, <2>7, <2>8
  <1>3. CASE o \in SoldOrders
    <2>1. /\ checkout[o].pc = "done"
          /\ \A task \in work : task.order = o =>
                /\ task.op \in LineOps => task.op \in {"confirm", "restore"}
                /\ task.op = "restore" => o \in CancelledOrders
                /\ task.op \notin {"failOrder", "failOrderCommit"}
          /\ ~\E s \in Sku : Expire(o, s)
      BY <1>3, SoldIsLeftAlone
    <2>2. /\ Held(o) # {}
          /\ \A s \in Sku :
                /\ reservation[o][s] \in {"none", "PENDING", "CONFIRMED", "RESTORED"}
                /\ reservation[o][s] = "RESTORED" => o \in CancelledOrders
          /\ order[o] \in {"PAID", "REFUND_PENDING", "REFUNDED"}
          /\ o \in CancelledOrders => order[o] # "PAID"
          /\ \A i \in Rows : rows[i].event.order = o => PaidEvent(rows[i].event)
          /\ \A c \in CancelRequest :
                cancel[c].pc = "read" /\ cancel[c].order = o => cancel[c].seen = "PAID"
      BY <1>0, <1>3 DEF KeptInv
    <2>3. Held(o)' # {}
      BY <1>0, <1>1, <2>2, HeldStays
    <2>4. CancelledOrders \subseteq CancelledOrders'
      BY <1>0, MoneyForEver
    <2>5. ASSUME NEW s \in Sku
          PROVE  /\ reservation'[o][s] \in {"none", "PENDING", "CONFIRMED", "RESTORED"}
                 /\ reservation'[o][s] = "RESTORED" => o \in CancelledOrders'
      <3>1. ~Reserved(o, s)
        BY <2>1 DEF Reserved
      <3>2. ASSUME NEW task \in work, task.order = o, task.op \in LineOps,
                   reservation'[o][s] = Target(task.op)
            PROVE  /\ reservation'[o][s] \in {"none", "PENDING", "CONFIRMED", "RESTORED"}
                   /\ reservation'[o][s] = "RESTORED" => o \in CancelledOrders'
        BY <2>1, <2>4, <3>2 DEF Target
      <3> QED
        BY <1>0, <1>1, <2>1, <2>2, <2>4, <3>1, <3>2, LineMoves
    <2>6. /\ order'[o] \in {"PAID", "REFUND_PENDING", "REFUNDED"}
          /\ order'[o] = "PAID" => order[o] = "PAID"
      <3>1. ~Settle(o) /\ ~FailOrder(o) /\ ~\E lines \in (SUBSET Sku) \ {{}} : Assemble(o, lines)
        <4>1. Step("undo", {}, "soldout").pc = "undo" /\ NotBegun.pc = "idle"
          BY DEF Step, NotBegun
        <4> QED
          BY <2>1, <4>1 DEF Settle, FailOrder, Assemble
      <3>2. ASSUME NEW c \in CancelRequest, CancelCommit(c), cancel[c].order = o
            PROVE  CancelledTo(cancel[c].seen) = "REFUND_PENDING"
        BY <2>2, <3>2 DEF CancelCommit, CancelledTo
      <3>3. ASSUME NEW task \in work, ExpiredCommit(task), task.order = o PROVE FALSE
        BY <2>1, <3>3 DEF ExpiredCommit
      <3> QED
        BY <1>0, <1>1, <2>2, <3>1, <3>2, <3>3, StatusMoves
    <2>7. ASSUME o \in CancelledOrders' PROVE order'[o] # "PAID"
      <3>1. ASSUME NEW c \in CancelRequest, CancelCommit(c), cancel[c].order = o,
                   cancel[c].seen = "PAID"
            PROVE  order'[o] = "REFUND_PENDING"
        BY <1>0, <1>1, <3>1 DEF CancelCommit, SaveOrder, CancelledTo, SagaTypes
      <3> QED
        BY <1>0, <2>2, <2>6, <2>7, <3>1, CancelledBy
    <2>8. ASSUME NEW i \in Rows', rows'[i].event.order = o PROVE PaidEvent(rows'[i].event)
      <3>1. ASSUME NEW event \in SagaEvent, Published(event), rows'[i].event = event
            PROVE  PaidEvent(event)
        BY <1>3, <2>8, <3>1, PaidNews
      <3> QED
        BY <1>0, <2>2, <2>8, <3>1, NextOutbox DEF SameEvents, NewEvent
    <2>9. ASSUME NEW c \in CancelRequest, cancel'[c].pc = "read", cancel'[c].order = o
          PROVE  cancel'[c].seen = "PAID"
      <3>1. ASSUME NEW p \in Order, CancelRead(c, p),
                   cancel'[c] = [pc |-> "read", order |-> p, seen |-> order[p]]
            PROVE  cancel'[c].seen = "PAID"
        <4>1. p = o /\ cancel'[c].seen = order[o]
          BY <2>9, <3>1
        <4>2. CancelBy(order[o]) = "moved"
          BY <3>1, <4>1 DEF CancelRead
        <4> QED
          BY <2>2, <4>1, <4>2 DEF CancelBy
      <3> QED
        BY <1>0, <2>2, <2>9, <3>1, CancelMoves
    <2> QED
      BY <2>3, <2>5, <2>6, <2>7, <2>8, <2>9
  <1> QED
    BY <1>2, <1>3

\* A step that ends an order without selling it says so in its transaction.
LEMMA NextTold ==
    ASSUME Orderly, SagaInv, OrderlyInv, [Next]_vars
    PROVE  ToldInv'
  <1>0. SagaTypes /\ ToldInv
    BY DEF SagaInv, OrderlyInv
  <1> SUFFICES ASSUME NEW o \in Order
               PROVE  /\ order'[o] = "PAYMENT_FAILED" => Announced("OrderPaymentFailed", o, FALSE)'
                      /\ order'[o] = "CANCELLED" => Announced("OrderCancelled", o, FALSE)'
    BY DEF ToldInv
  <1> DEFINE Goal == /\ order'[o] = "PAYMENT_FAILED" => Announced("OrderPaymentFailed", o, FALSE)'
                     /\ order'[o] = "CANCELLED" => Announced("OrderCancelled", o, FALSE)'
  <1>1. ASSUME NEW type \in EventTypes, Publish(Message(type, o, FALSE))
        PROVE  Announced(type, o, FALSE)'
    <2>1. Message(type, o, FALSE) \in SagaEvent
      BY DEF Message, SagaEvent
    <2> QED
      BY <1>0, <1>1, <2>1, PublishAnnounces
  <1>2. CASE order'[o] = order[o]
    BY <1>0, <1>2, AnnouncedForEver DEF ToldInv
  <1>3. ASSUME Settle(o), order'[o] = AfterPayment(checkout[o].answer) PROVE Goal
    <2>1. CASE checkout[o].answer = "approved"
      BY <1>3, <2>1 DEF AfterPayment
    <2>2. CASE checkout[o].answer # "approved"
      <3>1. order'[o] = "PAYMENT_FAILED" /\ Publish(Message("OrderPaymentFailed", o, FALSE))
        BY <1>3, <2>2 DEF Settle, AfterPayment
      <3> QED
        BY <1>1, <3>1 DEF EventTypes
    <2> QED
      BY <2>1, <2>2
  <1>4. ASSUME FailOrder(o), order'[o] = "PAYMENT_FAILED" PROVE Goal
    <2>1. Publish(Message("OrderPaymentFailed", o, FALSE))
      BY <1>4 DEF FailOrder
    <2> QED
      BY <1>1, <1>4, <2>1 DEF EventTypes
  <1>5. ASSUME NEW c \in CancelRequest, CancelCommit(c), cancel[c].order = o,
               order'[o] = CancelledTo(cancel[c].seen)
        PROVE  Goal
    <2>1. CASE cancel[c].seen = "PAID"
      BY <1>5, <2>1 DEF CancelledTo
    <2>2. CASE cancel[c].seen # "PAID"
      <3>1. order'[o] = "CANCELLED" /\ Publish(Message("OrderCancelled", o, FALSE))
        BY <1>5, <2>2 DEF CancelCommit, CancelledTo, WasPaid
      <3> QED
        BY <1>1, <3>1 DEF EventTypes
    <2> QED
      BY <2>1, <2>2
  <1>6. ASSUME NEW task \in work, ExpiredCommit(task), task.order = o,
               order'[o] = "PAYMENT_FAILED"
        PROVE  Goal
    <2>1. Publish(Message("OrderPaymentFailed", o, FALSE))
      BY <1>6 DEF ExpiredCommit
    <2> QED
      BY <1>1, <1>6, <2>1 DEF EventTypes
  <1>7. order'[o] \in {"PENDING_PAYMENT", "REFUNDED"} => Goal
    OBVIOUS
  <1> HIDE DEF Goal
  <1>8. Goal
    BY <1>2, <1>3, <1>4, <1>5, <1>6, <1>7, <1>0, StatusMoves DEF Goal
  <1> QED
    BY <1>8 DEF Goal

\* The table after a step: as it was, or with one new row, or with the row
\* that was sent marked.
LEMMA TableSteps ==
    ASSUME Orderly, SagaInv, OrderlyInv, [Next]_vars
    PROVE  \/ rows' = rows /\ Rows' = Rows
           \/ \E event \in SagaEvent :
                 /\ Published(event)
                 /\ Len(rows) \in Nat
                 /\ Rows' = Rows \cup {Len(rows) + 1}
                 /\ \A i \in Rows : rows'[i] = rows[i]
                 /\ rows'[Len(rows) + 1].event = event
                 /\ rows'[Len(rows) + 1].at = Len(rows)
                 /\ rows'[Len(rows) + 1].attempts = 0
                 /\ rows'[Len(rows) + 1].cooling = FALSE
                 /\ rows'[Len(rows) + 1].published = FALSE
                 /\ sending' = sending
           \/ /\ Conclude
              /\ sending \in Rows
              /\ sending' = NoRow
              /\ Rows' = Rows
              /\ \A i \in Rows : /\ i # sending => rows'[i] = rows[i]
                                 /\ rows'[i].event = rows[i].event
                                 /\ rows'[i].at = rows[i].at
                                 /\ rows'[i].attempts = rows[i].attempts
                                 /\ rows'[i].cooling = rows[i].cooling
              /\ rows'[sending].published
  <1>0. SagaTypes /\ SmoothInv /\ OutboxInv(SagaEvent)
    BY DEF SagaInv, OrderlyInv, SagaTypes
  <1>1. CASE rows' = rows
    BY <1>1 DEF Rows
  <1>2. ASSUME NEW event \in SagaEvent, Publish(event), Published(event)
        PROVE  /\ Len(rows) \in Nat
               /\ Rows' = Rows \cup {Len(rows) + 1}
               /\ \A i \in Rows : rows'[i] = rows[i]
               /\ rows'[Len(rows) + 1].event = event
               /\ rows'[Len(rows) + 1].at = Len(rows)
               /\ rows'[Len(rows) + 1].attempts = 0
               /\ rows'[Len(rows) + 1].cooling = FALSE
               /\ rows'[Len(rows) + 1].published = FALSE
               /\ sending' = sending
    BY <1>0, <1>2, LastRow
  <1>3. ASSUME Conclude, MarkPublished
        PROVE  /\ sending \in Rows
               /\ sending' = NoRow
               /\ Rows' = Rows
               /\ \A i \in Rows : /\ i # sending => rows'[i] = rows[i]
                                  /\ rows'[i].event = rows[i].event
                                  /\ rows'[i].at = rows[i].at
                                  /\ rows'[i].attempts = rows[i].attempts
                                  /\ rows'[i].cooling = rows[i].cooling
               /\ rows'[sending].published
    <2>1. /\ Len(rows') = Len(rows)
          /\ sending \in Rows
          /\ sending' = NoRow
          /\ \A i \in Rows : i # sending => rows'[i] = rows[i]
          /\ rows'[sending].published
      BY <1>0, <1>3, Marks
    <2>2. rows[sending] \in Row(SagaEvent) /\ rows \in [Rows -> Row(SagaEvent)]
      BY <1>0, <2>1, RowFacts DEF OutboxInv, Rows
    <2>3. rows'[sending] = [rows[sending] EXCEPT !.published = TRUE]
      BY <1>3, <2>1, <2>2 DEF MarkPublished
    <2>4. /\ rows'[sending].event = rows[sending].event
          /\ rows'[sending].at = rows[sending].at
          /\ rows'[sending].attempts = rows[sending].attempts
          /\ rows'[sending].cooling = rows[sending].cooling
      BY <2>2, <2>3 DEF Row
    <2>5. Rows' = Rows
      BY <2>1 DEF Rows
    <2> QED
      BY <2>1, <2>4, <2>5
  <1> QED
    BY <1>0, <1>1, <1>2, <1>3, TableMoves

\* A paid order is cancelled by somebody who has seen it paid.
LEMMA NextPaidFirst ==
    ASSUME Orderly, SagaInv, OrderlyInv, [Next]_vars
    PROVE  PaidFirstInv'
  <1>0. SagaTypes /\ MoneyInv /\ PaidFirstInv
    BY DEF SagaInv, OrderlyInv
  <1> SUFFICES ASSUME NEW j \in Rows', rows'[j].event.type = "OrderCancelled",
                      rows'[j].event.wasPaid
               PROVE  \E i \in Rows' :
                         i < j /\ rows'[i].event = Message("OrderPaid", rows'[j].event.order, FALSE)
    BY DEF PaidFirstInv
  <1>1. Rows \subseteq Rows' /\ \A i \in Rows : rows'[i].event = rows[i].event
    BY <1>0, NextOutbox
  <1>2. CASE j \in Rows
    BY <1>0, <1>1, <1>2 DEF PaidFirstInv
  <1>3. CASE j \notin Rows
    <2>1. PICK event \in SagaEvent : /\ Published(event)
                                     /\ Len(rows) \in Nat
                                     /\ Rows' = Rows \cup {Len(rows) + 1}
                                     /\ rows'[Len(rows) + 1].event = event
      BY <1>3, TableSteps
    <2>2. j = Len(rows) + 1 /\ rows'[j].event = event
      BY <1>3, <2>1
    <2>3. PICK c \in CancelRequest :
            /\ CancelCommit(c)
            /\ event = Message("OrderCancelled", cancel[c].order, WasPaid(cancel[c].seen))
      <3>1. event.type = "OrderCancelled"
        BY <2>2
      <3>2. ASSUME NEW type, NEW o, event = Message(type, o, FALSE) PROVE type = "OrderCancelled"
        BY <3>1, <3>2 DEF Message
      <3>3. ASSUME NEW o \in Order,
                 \/ /\ Settle(o)
                    /\ event = Message(IF checkout[o].answer = "approved" THEN "OrderPaid"
                                       ELSE "OrderPaymentFailed", o, FALSE)
                 \/ FailOrder(o) /\ event = Message("OrderPaymentFailed", o, FALSE)
                 \/ \E s \in Sku : /\ Expire(o, s)
                                   /\ event = Message("StockReservationExpired", o, FALSE)
            PROVE  FALSE
        BY <3>2, <3>3
      <3>4. ASSUME NEW task \in work,
                   \/ event = Message("PaymentRefunded", task.order, FALSE)
                   \/ event = Message("OrderPaymentFailed", task.order, FALSE)
            PROVE  FALSE
        BY <3>2, <3>4
      <3> QED
        BY <2>1, <3>3, <3>4 DEF Published
    <2>4. event.order = cancel[c].order /\ cancel[c].seen = "PAID" /\ cancel[c].pc = "read"
      <3>1. event.order = cancel[c].order /\ event.wasPaid = WasPaid(cancel[c].seen)
        BY <2>3 DEF Message
      <3>2. WasPaid(cancel[c].seen)
        BY <2>2, <3>1
      <3> QED
        BY <2>3, <3>1, <3>2 DEF WasPaid, CancelCommit
    <2>5. event.order \in SoldOrders
      BY <1>0, <2>4 DEF MoneyInv
    <2>6. PICK i \in Rows : rows[i].event = Message("OrderPaid", event.order, FALSE)
      BY <2>5 DEF SoldOrders, Sold, Announced
    <2>7. i < j
      BY <2>1, <2>2, <2>6 DEF Rows
    <2> QED
      BY <1>1, <2>2, <2>6, <2>7
  <1> QED
    BY <1>2, <1>3

\* A reservation that has done what it was asked does not undo it.
LEMMA ObeyedStays ==
    ASSUME SagaTypes, LinesInv, [Next]_vars, NEW o \in Order, NEW s \in Sku, NEW op \in LineOps,
           Obeyed(op, reservation[o][s])
    PROVE  Obeyed(op, reservation'[o][s])
  <1>1. ASSUME NEW other, Verdict(other, reservation[o][s]) = "moved"
        PROVE  Obeyed(op, Target(other))
    <2>1. /\ other = "restore" => reservation[o][s] = "CONFIRMED"
          /\ other # "restore" => reservation[o][s] = "PENDING"
      BY <1>1, MovesFrom
    <2>2. other = "restore" /\ op = "confirm"
      BY <2>1 DEF Obeyed
    <2> QED
      BY <2>2 DEF Obeyed, Target
  <1>2. reservation[o][s] \notin {"none", "PENDING"}
    BY DEF Obeyed
  <1> QED
    BY <1>1, <1>2, LineMoves

\* A subscriber that applies an event to a reservation is obeyed: none of its
\* conflicts can happen.
LEMMA Obeys ==
    ASSUME Orderly, SagaInv, OrderlyInv, [Next]_vars, NEW task \in work,
           task.op \in LineOps, ApplyOne(task)
    PROVE  Obeyed(task.op, reservation'[task.order][task.sku])
  <1> DEFINE o == task.order
             s == task.sku
             event == rows[sending].event
             status == reservation[o][s]
  <1>0. /\ SagaTypes /\ MoneyInv /\ SmoothInv /\ AloneInv /\ KeptInv
        /\ PaidFirstInv /\ ObeyInv
    BY DEF SagaInv, OrderlyInv
  <1>1. /\ sending \in Rows
        /\ o \in Order
        /\ event.order = o
        /\ event.type \in StockEvents
        /\ task.op = Asked(event)
        /\ s \in Sku /\ s \in Held(o)
    BY <1>0, TasksComeLate DEF Comes, Held
  <1>2. status # "none"
    BY <1>1 DEF Held
  <1>3. Transition(task.op, o, s)
    BY <1>0, NothingFails DEF ApplyOne, SmoothInv
  <1>4. /\ Verdict(task.op, status) = "moved" => reservation'[o][s] = Target(task.op)
        /\ Verdict(task.op, status) # "moved" => reservation'[o][s] = status
    BY <1>0, <1>1, <1>3 DEF Transition, ledgers, SagaTypes
  <1>5. Obeyed(task.op, Target(task.op))
    BY DEF Obeyed, Target, LineOps
  <1>6. ASSUME task.op = "confirm" PROVE Verdict(task.op, status) = "moved" \/ Obeyed(task.op, status)
    <2>1. o \in SoldOrders
      BY <1>0, <1>6 DEF MoneyInv, TaskBacked
    <2>2. status \in {"none", "PENDING", "CONFIRMED", "RESTORED"}
      BY <1>0, <1>1, <2>1 DEF KeptInv
    <2> QED
      BY <1>2, <1>6, <2>2 DEF Obeyed, Verdict, ConfirmVerdict
  <1>7. ASSUME task.op = "restore" PROVE Verdict(task.op, status) = "moved" \/ Obeyed(task.op, status)
    <2>1. event.type = "OrderCancelled" /\ event.wasPaid
      BY <1>1, <1>7 DEF Asked
    <2>2. PICK i \in Rows : i < sending /\ rows[i].event = Message("OrderPaid", o, FALSE)
      BY <1>0, <1>1, <2>1 DEF PaidFirstInv
    <2>3. rows[i].published
      BY <1>0, <2>2 DEF SmoothInv
    <2>4. rows[i].event.type = "OrderPaid" /\ rows[i].event.order = o
      BY <2>2 DEF Message
    <2>5. Obeyed("confirm", status)
      BY <1>0, <1>1, <2>3, <2>4 DEF ObeyInv, StockEvents, Asked
    <2> QED
      BY <1>7, <2>5 DEF Obeyed, Verdict, RestoreVerdict
  <1>8. ASSUME task.op = "release" PROVE Verdict(task.op, status) = "moved" \/ Obeyed(task.op, status)
    <2>1. o \notin SoldOrders
      <3> SUFFICES ASSUME o \in SoldOrders PROVE FALSE
        OBVIOUS
      <3>1. PaidEvent(event)
        BY <1>0, <1>1 DEF KeptInv
      <3> HIDE DEF event
      <3> QED
        BY <1>1, <1>8, <3>1 DEF PaidEvent, StockEvents, Asked
    <2>2. status \notin {"CONFIRMED", "RESTORED"}
      BY <1>0, <1>1, <2>1 DEF MoneyInv
    <2>3. status \in ReservationStatus
      BY <1>0, <1>1, <1>2 DEF SagaTypes
    <2> QED
      BY <1>8, <2>2, <2>3 DEF Obeyed, Verdict, ReleaseVerdict, ReservationStatus
  <1>9. Verdict(task.op, status) = "moved" \/ Obeyed(task.op, status)
    BY <1>6, <1>7, <1>8 DEF LineOps
  <1> HIDE DEF o, s, status
  <1>10. Obeyed(task.op, reservation'[o][s])
    BY <1>4, <1>5, <1>9
  <1> QED
    BY <1>10 DEF o, s

\* A row is marked once all its tasks are done, and each is done for good.
LEMMA NextObey ==
    ASSUME Orderly, SagaInv, OrderlyInv, [Next]_vars
    PROVE  ObeyInv'
  <1>0. /\ SagaTypes /\ MoneyInv /\ LinesInv /\ OutboxInv(SagaEvent)
        /\ SmoothInv /\ AloneInv /\ ObeyInv
        /\ ~Fault
    BY NothingFails DEF SagaInv, ShelfInv, OrderlyInv, SagaTypes, SmoothInv
  <1> SUFFICES ASSUME NEW i \in Rows', rows'[i].event.type \in StockEvents,
                      NEW s \in Sku, reservation'[rows'[i].event.order][s] # "none"
               PROVE  \/ Obeyed(Asked(rows'[i].event), reservation'[rows'[i].event.order][s])
                      \/ /\ ~rows'[i].published
                         /\ sending' = i =>
                              [row |-> i, op |-> Asked(rows'[i].event),
                               order |-> rows'[i].event.order, sku |-> s] \in work'
    BY DEF ObeyInv, Held, Task, StockEvents, Asked, Obeyed
  <1>1. CASE i \notin Rows
    <2>1. ~rows'[i].published /\ sending' = sending
      BY <1>1, TableSteps
    <2>2. sending # i
      <3>1. sending \in Rows \cup {NoRow} /\ Len(rows) \in Nat
        BY <1>0, RowFacts DEF OutboxInv
      <3>2. i # NoRow
        BY DEF Rows, NoRow
      <3> QED
        BY <1>1, <3>1, <3>2
    <2> QED
      BY <2>1, <2>2
  <1>2. CASE i \in Rows
    <2> DEFINE event == rows[i].event
               o == event.order
               task == [row |-> i, op |-> Asked(event), order |-> o, sku |-> s]
    <2>1. rows'[i].event = event /\ event.type \in StockEvents
      BY <1>0, <1>2, NextOutbox
    <2>2. o \in Order /\ checkout[o].pc = "done" /\ s \in Sku
      BY <1>0, <1>2, RowAnnounces DEF AloneInv, Held
    <2>3. reservation[o][s] # "none"
      <3>1. reservation'[o][s] # "none"
        BY <2>1
      <3>2. ~Reserved(o, s)
        BY <2>2 DEF Reserved
      <3>3. \A op : Verdict(op, "none") # "moved"
        BY MovesFrom
      <3> QED
        BY <1>0, <2>2, <3>1, <3>2, <3>3, LineMoves
    <2>4. Asked(event) \in LineOps
      BY DEF Asked, LineOps
    <2>5. \/ Obeyed(Asked(event), reservation[o][s])
          \/ ~rows[i].published /\ (sending = i => task \in work)
      BY <1>0, <1>2, <2>1, <2>2, <2>3 DEF ObeyInv, Held, Task
    <2>6. CASE Obeyed(Asked(event), reservation[o][s])
      <3>1. Obeyed(Asked(event), reservation'[o][s])
        BY <1>0, <2>2, <2>4, <2>6, ObeyedStays
      <3> QED
        BY <2>1, <3>1
    <2>7. CASE ~rows[i].published /\ (sending = i => task \in work)
      <3>1. ~rows'[i].published
        <4>1. ASSUME Conclude, sending = i PROVE FALSE
          <5>1. task \in work /\ task.row = sending
            BY <2>7, <4>1
          <5> QED
            BY <1>0, <4>1, <5>1 DEF Conclude, SmoothInv
        <4> HIDE DEF event, o, task
        <4> QED
          BY <1>2, <2>7, <4>1, TableSteps
      <3>2. ASSUME sending' = i PROVE task \in work' \/ Obeyed(Asked(event), reservation'[o][s])
        <4>0. sending' # NoRow
          BY <1>2, <3>2 DEF Rows, NoRow
        <4>1. ASSUME NEW k \in Rows, Deliver(k) PROVE task \in work'
          <5>1. k = i /\ work' = work \cup ForInventory(i) \cup ForOthers(i)
            BY <1>0, <3>2, <4>1 DEF Deliver, Send
          <5>2. task \in ForInventory(i)
            <6>1. ForInventory(i) = {Task(i, Asked(event), z) : z \in Held(o)}
              BY <2>1 DEF ForInventory, StockEvents
            <6>2. s \in Held(o)
              BY <2>2, <2>3 DEF Held
            <6> QED
              BY <6>1, <6>2 DEF Task
          <5> QED
            BY <5>1, <5>2
        <4>2. ASSUME NEW done \in work, Act(done) PROVE task \in work' \/ Obeyed(Asked(event), reservation'[o][s])
          <5>1. sending = i /\ task \in work
            BY <2>7, <3>2, <4>2, ActsLeaveTheRun
          <5>2. work \ {done} \subseteq work'
            BY <4>2 DEF Act, ApplyOne, RefundTx, PgRefund, ExpiredRead, ExpiredCommit,
                        OnPaymentRefunded, Done, Then, Throws
          <5>3. ASSUME done = task PROVE Obeyed(Asked(event), reservation'[o][s])
            <6>1. done.op = Asked(event) /\ done.order = o /\ done.sku = s
              BY <5>3
            <6>2. done.op \in LineOps
              BY <2>4, <6>1
            <6>3. ApplyOne(done)
              BY <4>2, <6>2 DEF Act, RefundTx, PgRefund, ExpiredRead, ExpiredCommit,
                                OnPaymentRefunded, LineOps
            <6>4. Obeyed(done.op, reservation'[done.order][done.sku])
              BY <6>2, <6>3, Obeys
            <6> QED
              BY <6>1, <6>4
          <5> QED
            BY <5>1, <5>2, <5>3
        <4>3. ~Conclude /\ ~Crash
          BY <4>0 DEF Conclude, Crash, AbortRun, MarkPublished, RecordFailure
        <4>4. CASE work' = work /\ sending' = sending
          BY <2>7, <3>2, <4>4
        <4> HIDE DEF event, o, task
        <4> QED
          BY <1>0, <4>1, <4>2, <4>3, <4>4, DeliveryWriters
      <3> QED
        BY <2>1, <3>1, <3>2
    <2> QED
      BY <2>5, <2>6, <2>7
  <1> QED
    BY <1>1, <1>2

\* Whoever was repaid had cancelled, and whoever had cancelled had paid.
LEMMA MoneyTrail ==
    ASSUME MoneyInv
    PROVE  /\ CancelledOrders \subseteq SoldOrders
           /\ RepaidOrders \subseteq CancelledOrders
  <1>1. ASSUME NEW o \in Order, Cancelled(o) PROVE o \in SoldOrders
    <2>1. PICK i \in Rows : rows[i].event = Message("OrderCancelled", o, TRUE)
      BY <1>1 DEF Cancelled, Announced
    <2>2. EventBacked(rows[i].event)
      BY DEF MoneyInv
    <2> QED
      BY <2>1, <2>2 DEF EventBacked, Message
  <1>2. ASSUME NEW o \in Order, Repaid(o) PROVE o \in CancelledOrders
    <2>1. PICK i \in Rows : rows[i].event = Message("PaymentRefunded", o, FALSE)
      BY <1>2 DEF Repaid, Announced
    <2>2. EventBacked(rows[i].event)
      BY DEF MoneyInv
    <2> QED
      BY <2>1, <2>2 DEF EventBacked, Message
  <1> QED
    BY <1>1, <1>2 DEF CancelledOrders, RepaidOrders

\* No subscriber rejects: a refund finds a payment that was authorized, and
\* its confirmation finds an order that waits for it.
LEMMA NextAccepted ==
    ASSUME Orderly, SagaInv, OrderlyInv, [Next]_vars
    PROVE  ~rejected'
  <1>0. SagaTypes /\ MoneyInv /\ SmoothInv /\ KeptInv /\ ~rejected /\ ~Fault
    BY NothingFails DEF SagaInv, OrderlyInv, SmoothInv
  <1>1. ASSUME NEW i \in Rows, Deliver(i) PROVE ~rejected'
    BY <1>0, <1>1 DEF Deliver
  <1>2. ASSUME NEW task \in work, Act(task) PROVE ~rejected'
    <2>0. task.order \in Order /\ TaskBacked(task)
      BY <1>0 DEF SagaTypes, MoneyInv
    <2>1. ASSUME RefundTx(task) PROVE UNCHANGED rejected
      <3>1. task.order \in SoldOrders
        BY <1>0, <2>0, <2>1, MoneyTrail DEF RefundTx, TaskBacked
      <3>2. Refund(payment[task.order]) # "conflict"
        BY <3>1 DEF SoldOrders, Sold, Refund, Only
      <3> QED
        BY <2>1, <3>2 DEF RefundTx, Done, Then
    <2>2. ASSUME OnPaymentRefunded(task) PROVE UNCHANGED rejected
      <3>1. task.order \in CancelledOrders /\ task.order \in SoldOrders
        BY <1>0, <2>0, <2>2, MoneyTrail DEF OnPaymentRefunded, TaskBacked
      <3>2. order[task.order] \in {"REFUND_PENDING", "REFUNDED"}
        BY <1>0, <3>1 DEF KeptInv
      <3>3. MarkRefunded(order[task.order]) # "conflict"
        BY <3>2 DEF MarkRefunded, Only
      <3> QED
        BY <2>2, <3>3 DEF OnPaymentRefunded, Done
    <2>3. ApplyOne(task) \/ PgRefund(task) \/ ExpiredRead(task) \/ ExpiredCommit(task)
             => UNCHANGED rejected
      BY DEF ApplyOne, PgRefund, ExpiredRead, ExpiredCommit, Done, Then
    <2> QED
      BY <1>0, <1>2, <2>1, <2>2, <2>3 DEF Act
  <1>3. Conclude \/ Crash => ~rejected'
    BY DEF Conclude, Crash
  <1> QED
    BY <1>0, <1>1, <1>2, <1>3, DeliveryWriters

\* Every task belongs to the row that is being sent, also after a step.
LEMMA NextComes ==
    ASSUME Orderly, SagaInv, OrderlyInv, [Next]_vars
    PROVE  /\ sending' = NoRow => work' = {}
           /\ \A task \in work' : Comes(task)'
  <1>0. /\ SagaTypes /\ MoneyInv /\ LinesInv /\ SmoothInv /\ AloneInv
        /\ ~Fault /\ ~rejected /\ NoRow \notin Rows
    BY NothingFails DEF SagaInv, ShelfInv, OrderlyInv, SmoothInv, Rows, NoRow
  <1> DEFINE Goal == /\ sending' = NoRow => work' = {}
                     /\ \A task \in work' : Comes(task)'
  <1>1. \A i \in Rows : rows'[i].event = rows[i].event
    BY <1>0, NextOutbox
  <1>2. ASSUME NEW task, Comes(task), sending \in Rows, task.order \in Order,
               sending' = sending
        PROVE  Comes(task)'
    <2>1. Held(task.order) \subseteq Held(task.order)'
      BY <1>0, <1>2, HeldStays
    <2>2. rows'[task.row].event = rows[task.row].event
      BY <1>1, <1>2 DEF Comes
    <2>3. Held(rows[task.row].event.order) \subseteq {s \in Sku : reservation'[rows[task.row].event.order][s] # "none"}
      BY <1>2, <2>1 DEF Comes, Held
    <2> QED
      BY <1>2, <2>2, <2>3 DEF Comes, Held, StockEvents, Asked
  <1>3. \A task \in work : sending \in Rows /\ task.order \in Order /\ Comes(task)
    BY <1>0, TasksComeLate
  <1>4. ASSUME work' = work, sending' = sending PROVE Goal
    BY <1>0, <1>2, <1>3, <1>4 DEF SmoothInv
  <1>5. ASSUME NEW i \in Rows, Deliver(i) PROVE Goal
    <2>1. /\ sending = NoRow /\ sending' = i
          /\ rows' = rows /\ reservation' = reservation
      BY <1>5 DEF Deliver, Send, ledgers
    <2>2. work' = ForInventory(i) \cup ForOthers(i)
      BY <1>0, <1>5, <2>1 DEF Deliver, SmoothInv
    <2>3. ASSUME NEW task \in ForInventory(i) PROVE Comes(task)'
      <3>1. PICK s \in Held(rows[i].event.order) : task = Task(i, Asked(rows[i].event), s)
        BY <2>3 DEF ForInventory
      <3>2. rows[i].event.type \in StockEvents
        BY <2>3 DEF ForInventory, StockEvents
      <3>3. /\ task.row = i /\ task.order = rows[i].event.order /\ task.sku = s
            /\ task.op = Asked(rows[i].event) /\ Asked(rows[i].event) \in LineOps
        BY <3>1 DEF Task, Asked, LineOps
      <3>4. task.op \notin {"failOrder", "failOrderCommit"}
        BY <3>3 DEF LineOps
      <3> QED
        BY <2>1, <3>1, <3>2, <3>3, <3>4 DEF Comes, Held
    <2>4. ASSUME NEW task \in ForOthers(i) PROVE Comes(task)'
      <3>1. PICK op \in {"refund", "markRefunded", "failOrder"} :
              /\ task = Task(i, op, NoSku)
              /\ op = "failOrder" => rows[i].event.type = "StockReservationExpired"
        BY <2>4 DEF ForOthers
      <3>2. task.row = i /\ task.order = rows[i].event.order /\ task.op = op
        BY <3>1 DEF Task
      <3>3. op \notin LineOps
        BY DEF LineOps
      <3> QED
        BY <2>1, <3>1, <3>2, <3>3 DEF Comes
    <2> QED
      BY <1>0, <2>1, <2>2, <2>3, <2>4
  <1>6. ASSUME NEW task \in work, Act(task) PROVE Goal
    <2>1. sending' = sending /\ sending \in Rows
      BY <1>3, <1>6, ActsLeaveTheRun
    <2>2. ASSUME NEW new \in work' PROVE Comes(new)'
      <3>1. CASE new \in work
        BY <1>2, <1>3, <2>1, <3>1
      <3>2. CASE new \notin work
        <4>1. PICK op : /\ new = [task EXCEPT !.op = op]
                        /\ \/ op = "pgRefund" /\ task.op = "refund"
                           \/ op = "failOrderCommit" /\ task.op = "failOrder"
          BY <1>6, <2>2, <3>2 DEF Act, ApplyOne, RefundTx, PgRefund, ExpiredRead,
                                  ExpiredCommit, OnPaymentRefunded, Done, Then, Throws
        <4>2. task \in [row : Rows \cup {NoRow}, op : TaskOps, order : Order,
                        sku : Sku \cup {NoSku}]
          BY <1>0 DEF SagaTypes
        <4>3. new.row = task.row /\ new.order = task.order /\ new.op = op
          BY <4>1, <4>2
        <4>4. Comes(new)
          BY <1>3, <4>1, <4>3 DEF Comes, LineOps
        <4> QED
          BY <1>2, <1>3, <2>1, <4>3, <4>4
      <3> QED
        BY <3>1, <3>2
    <2> QED
      BY <1>0, <2>1, <2>2
  <1>7. ASSUME Conclude PROVE Goal
    <2>1. work' = work /\ \A task \in work : task.row # sending
      BY <1>0, <1>7 DEF Conclude
    <2>2. \A task \in work : task.row = sending
      BY <1>3 DEF Comes
    <2> QED
      BY <2>1, <2>2
  <1>8. ASSUME Crash PROVE Goal
    BY <1>8 DEF Crash
  <1> HIDE DEF Goal
  <1>9. Goal
    BY <1>0, <1>4, <1>5, <1>6, <1>7, <1>8, DeliveryWriters
  <1> QED
    BY <1>9 DEF Goal

\* The rows are sent in the order of their commits, each for the first time.
LEMMA NextSmooth ==
    ASSUME Orderly, SagaInv, OrderlyInv, [Next]_vars
    PROVE  SmoothInv'
  <1>0. /\ SagaTypes /\ OutboxInv(SagaEvent) /\ SmoothInv
        /\ ~Fault /\ faults' = 0
    BY NothingFails DEF SagaInv, OrderlyInv, SmoothInv, SagaTypes
  <1>1. \A i \in Rows' : rows'[i].attempts = 0 /\ ~rows'[i].cooling /\ rows'[i].at = i - 1
    <2>1. \A i \in Rows : rows[i].attempts = 0 /\ ~rows[i].cooling /\ rows[i].at = i - 1
      BY <1>0 DEF SmoothInv
    <2>2. CASE Rows' = Rows /\ \A i \in Rows : /\ rows'[i].attempts = rows[i].attempts
                                               /\ rows'[i].cooling = rows[i].cooling
                                               /\ rows'[i].at = rows[i].at
      BY <2>1, <2>2
    <2>3. CASE /\ Len(rows) \in Nat
               /\ Rows' = Rows \cup {Len(rows) + 1}
               /\ \A i \in Rows : rows'[i] = rows[i]
               /\ rows'[Len(rows) + 1].at = Len(rows)
               /\ rows'[Len(rows) + 1].attempts = 0
               /\ rows'[Len(rows) + 1].cooling = FALSE
      BY <2>1, <2>3
    <2> QED
      BY <2>2, <2>3, TableSteps
  <1>2. ASSUME NEW i \in Rows', i < sending' PROVE rows'[i].published
    <2>0. /\ sending \in Rows \cup {NoRow} /\ Len(rows) \in Nat
          /\ Rows = 1..Len(rows)
          /\ \A k \in Rows : rows[k].published \in BOOLEAN
      BY <1>0, RowFacts DEF OutboxInv, Rows, Row
    <2>1. CASE sending' = sending
      <3>1. i \in Rows /\ rows[i].published
        <4>1. sending \in Rows
          BY <1>2, <2>0, <2>1 DEF Rows, NoRow
        <4>2. i \in Rows
          BY <1>2, <2>0, <2>1, <4>1 DEF Rows
        <4> QED
          BY <1>0, <1>2, <2>1, <4>2 DEF SmoothInv
      <3> QED
        BY <3>1, TableSteps
    <2>2. ASSUME NEW k \in Rows, Deliver(k) PROVE rows'[i].published
      <3>1. /\ sending = NoRow /\ sending' = k /\ k \in fetched /\ rows' = rows
            /\ \A j \in fetched : rows[k].at <= rows[j].at
        BY <2>2 DEF Deliver, Send
      <3>2. i \in Rows /\ i < k
        BY <1>2, <3>1 DEF Rows
      <3>3. rows[i].at = i - 1 /\ rows[k].at = k - 1 /\ rows[i].attempts = 0
        BY <1>0, <3>2 DEF SmoothInv
      <3>4. rows[i].at < rows[k].at
        BY <2>0, <3>2, <3>3
      <3>5. i # NoRow /\ ~(rows[k].at <= rows[i].at)
        BY <2>0, <3>2, <3>3, <3>4 DEF NoRow
      <3>6. i \notin fetched \cup {sending}
        BY <3>1, <3>5
      <3>7. rows[i].published
        BY <1>0, <3>1, <3>2, <3>3, <3>4, <3>6 DEF OutboxInv, OrderInv
      <3> QED
        BY <3>1, <3>7
    <2>3. ~Conclude /\ ~Crash
      BY <1>2 DEF Conclude, Crash, MarkPublished, RecordFailure, AbortRun, Rows, NoRow
    <2> QED
      BY <1>0, <2>1, <2>2, <2>3, DeliveryWriters, ActsLeaveTheRun
  <1> QED
    BY <1>0, <1>1, <1>2, NextAccepted, NextComes DEF SmoothInv

\* Nothing is asked of anybody in the beginning.
LEMMA InitOrderly == Init => OrderlyInv
  <1> SUFFICES ASSUME Init PROVE OrderlyInv
    OBVIOUS
  <1>1. Rows = {} /\ sending = NoRow /\ work = {}
    BY DEF Init, OutboxInit, Rows
  <1>2. /\ NotBegun.pc = "idle"
        /\ \A o \in Order : checkout[o] = NotBegun /\ order[o] = "none"
        /\ \A c \in CancelRequest : cancel[c].pc = "unsent"
    BY DEF Init, NotBegun, Step
  <1>3. SmoothInv
    BY <1>1 DEF Init, SmoothInv
  <1>4. AloneInv
    BY <1>1, <1>2 DEF AloneInv, Begun
  <1>5. SoldOrders = {}
    BY <1>1 DEF SoldOrders, Sold, Announced
  <1> QED
    BY <1>1, <1>2, <1>3, <1>4, <1>5 DEF OrderlyInv, KeptInv, ToldInv, PaidFirstInv, ObeyInv

\* When nothing is under way, every event has been obeyed.
LEMMA StockHasFollowed ==
    ASSUME SagaInv, OrderlyInv
    PROVE  StockFollowsOrder
  <1>0. SagaTypes /\ MoneyInv /\ SmoothInv /\ KeptInv /\ ToldInv /\ ObeyInv
    BY DEF SagaInv, OrderlyInv
  <1> SUFFICES ASSUME NEW o \in Order, Quiet(o)
               PROVE  LET statuses == {reservation[o][s] : s \in Held(o)} IN
                      /\ order[o] = "PAID" => statuses = {"CONFIRMED"}
                      /\ order[o] = "REFUNDED" => statuses = {"RESTORED"}
                      /\ order[o] \in {"PAYMENT_FAILED", "CANCELLED"} =>
                            statuses \subseteq {"RELEASED", "EXPIRED"}
    BY DEF StockFollowsOrder
  <1>1. \A i \in Rows : rows[i].published
    BY <1>0, OutboxAssumption DEF Quiet, Drained, Due, SmoothInv
  <1>2. ASSUME NEW type \in StockEvents, NEW wasPaid, Announced(type, o, wasPaid),
               NEW s \in Held(o)
        PROVE  Obeyed(Asked(Message(type, o, wasPaid)), reservation[o][s])
    <2>1. PICK i \in Rows : rows[i].event = Message(type, o, wasPaid)
      BY <1>2 DEF Announced
    <2>2. rows[i].event.type \in StockEvents /\ rows[i].event.order = o
      BY <2>1 DEF Message
    <2>3. Obeyed(Asked(rows[i].event), reservation[o][s])
      BY <1>0, <1>1, <2>2 DEF ObeyInv
    <2> QED
      BY <2>1, <2>3
  <1>3. /\ Asked(Message("OrderPaid", o, FALSE)) = "confirm"
        /\ Asked(Message("OrderCancelled", o, TRUE)) = "restore"
        /\ Asked(Message("OrderCancelled", o, FALSE)) = "release"
        /\ Asked(Message("OrderPaymentFailed", o, FALSE)) = "release"
    BY DEF Asked, Message
  <1>4. ASSUME order[o] = "PAID" PROVE {reservation[o][s] : s \in Held(o)} = {"CONFIRMED"}
    <2>1. o \in SoldOrders
      BY <1>0, <1>4 DEF MoneyInv, OrderBacked
    <2>2. Held(o) # {} /\ o \notin CancelledOrders
      BY <1>0, <1>4, <2>1 DEF KeptInv
    <2>3. ASSUME NEW s \in Held(o) PROVE reservation[o][s] = "CONFIRMED"
      <3>1. Announced("OrderPaid", o, FALSE)
        BY <2>1 DEF SoldOrders, Sold
      <3>2. Obeyed("confirm", reservation[o][s])
        BY <1>2, <1>3, <3>1 DEF StockEvents
      <3>3. reservation[o][s] # "RESTORED"
        BY <1>0, <2>1, <2>2 DEF KeptInv, Held
      <3> QED
        BY <3>2, <3>3 DEF Obeyed
    <2> QED
      BY <2>2, <2>3
  <1>5. ASSUME order[o] = "REFUNDED" PROVE {reservation[o][s] : s \in Held(o)} = {"RESTORED"}
    <2>1. o \in SoldOrders /\ o \in CancelledOrders
      BY <1>0, <1>5, MoneyTrail DEF MoneyInv, OrderBacked
    <2>2. Held(o) # {}
      BY <1>0, <2>1 DEF KeptInv
    <2>3. ASSUME NEW s \in Held(o) PROVE reservation[o][s] = "RESTORED"
      <3>1. Announced("OrderCancelled", o, TRUE)
        BY <2>1 DEF CancelledOrders, Cancelled
      <3>2. Obeyed("restore", reservation[o][s])
        BY <1>2, <1>3, <3>1 DEF StockEvents
      <3> QED
        BY <3>2 DEF Obeyed
    <2> QED
      BY <2>2, <2>3
  <1>6. ASSUME order[o] \in {"PAYMENT_FAILED", "CANCELLED"}, NEW s \in Held(o)
        PROVE  reservation[o][s] \in {"RELEASED", "EXPIRED"}
    <2>1. Announced("OrderPaymentFailed", o, FALSE) \/ Announced("OrderCancelled", o, FALSE)
      BY <1>0, <1>6 DEF ToldInv
    <2>2. Obeyed("release", reservation[o][s])
      BY <1>2, <1>3, <2>1 DEF StockEvents
    <2> QED
      BY <2>2 DEF Obeyed
  <1> QED
    BY <1>4, <1>5, <1>6

\* The stock follows the order, however often the process stops: whenever
\* nothing is under way for it, the units of an order are where its status
\* says, sold if it was paid, given back if it was refunded, free if it
\* failed or was cancelled.  Customers cancel once the request has ended,
\* the TTL outlasts the saga, events leave in the order of their commits,
\* and neither the database nor the PG fails.
THEOREM StockFollows == Orderly => (Spec => []StockFollowsOrder)
  <1> SUFFICES ASSUME Orderly PROVE Spec => []StockFollowsOrder
    OBVIOUS
  <1>1. SagaInv /\ OrderlyInv /\ [Next]_vars => OrderlyInv'
    BY NextSmooth, NextAlone, NextKept, NextTold, NextPaidFirst, NextObey DEF OrderlyInv
  <1>2. SagaInv /\ OrderlyInv => StockFollowsOrder
    BY StockHasFollowed
  <1> QED
    BY <1>1, <1>2, InitOrderly, SagaCorrect, PTL DEF Spec

=============================================================================
