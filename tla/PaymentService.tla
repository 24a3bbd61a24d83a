--------------------------- MODULE PaymentService ---------------------------
(***************************************************************************)
(* The payment service: one charge per orders.created event.  The gateway  *)
(* is simulated in the code: a total whose last two digits are             *)
(* declineWhenCentsEndsIn is declined, any other is charged.               *)
(***************************************************************************)
EXTENDS EventBus

CONSTANTS
    TotalAmountCents,        \* the total carried by the order's event
    DeclineWhenCentsEndsIn   \* configuration of the simulated gateway

ASSUME TotalAssumption == TotalAmountCents \in [Orders -> Nat]

VARIABLE payments   \* the payments table, at most one row for an order

PaymentStatus == {"COMPLETED", "FAILED"}

PaymentTypeOK == payments \in [Orders -> PaymentStatus \cup {"NONE"}]

PaymentInit == payments = [o \in Orders |-> "NONE"]

Declined(o) == TotalAmountCents[o] % 100 = DeclineWhenCentsEndsIn

\* The insert of the payment row needs its orderId to be new (unique column).
\* A violation would roll back the transaction and be taken for a duplicate.
Charge(o) ==
    /\ payments[o] = "NONE"
    /\ \/ /\ Declined(o)
          /\ payments' = [payments EXCEPT ![o] = "FAILED"]
          /\ Enqueue("payments.failed", o)
       \/ /\ ~Declined(o)
          /\ payments' = [payments EXCEPT ![o] = "COMPLETED"]
          /\ Enqueue("payments.completed", o)

PaymentOnOrderCreated(e) ==
    /\ e.topic = "orders.created"
    /\ ProcessOnce(PaymentConsumer, e)
    /\ Charge(e.orderId)
    /\ UNCHANGED <<published, deadLetters>>
=============================================================================
