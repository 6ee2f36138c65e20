---------------------------- MODULE OrderDomain ----------------------------
(***************************************************************************)
(* The pure domain rules of the ordering and payment modules: the order's  *)
(* state machine (domain/order/order.ts) and the payment's                 *)
(* (domain/payment.ts).  A transition answers "moved" (true in the code),  *)
(* "noop" (false) or "conflict" (it throws).                               *)
(***************************************************************************)

OrderStatus == {"PENDING_PAYMENT", "PAID", "PAYMENT_FAILED", "CANCELLED",
                "REFUND_PENDING", "REFUNDED"}
PaymentStatus == {"PENDING", "AUTHORIZED", "DECLINED", "REFUNDED"}

\* A transition that only leaves one status and repeats without effect.
Only(status, from, to) ==
    IF status = to THEN "noop" ELSE IF status = from THEN "moved" ELSE "conflict"

MarkRefunded(status) == Only(status, "REFUND_PENDING", "REFUNDED")

\* cancelBy, for the owner: an order that was paid waits for its refund.
CancelBy(status) ==
    IF status \in {"CANCELLED", "REFUND_PENDING"} THEN "noop"
    ELSE IF status \in {"PENDING_PAYMENT", "PAID"} THEN "moved"
    ELSE "conflict"
\* MUTANT of CancelledTo: every cancelled order waits for a refund.
CancelledToRefund(status) == "REFUND_PENDING"

CancelledTo(status) == IF status = "PAID" THEN "REFUND_PENDING" ELSE "CANCELLED"
\* MUTANT of WasPaid: every cancellation asks for the money back.
WasPaidAlways(status) == TRUE

WasPaid(status) == status = "PAID"

Refund(status) == Only(status, "AUTHORIZED", "REFUNDED")

\* markPaid() or failPayment() of an order that is PENDING_PAYMENT.
AfterPayment(answer) == IF answer = "approved" THEN "PAID" ELSE "PAYMENT_FAILED"

\* The status authorize() or decline() gives a payment that is PENDING.
AfterAnswer(answer) == IF answer = "approved" THEN "AUTHORIZED" ELSE "DECLINED"

\* recordCallback settles a payment nobody has settled yet, and no other.
AfterCallback(status, approved) ==
    IF status # "PENDING" THEN status
    ELSE IF approved THEN "AUTHORIZED" ELSE "DECLINED"

=============================================================================
