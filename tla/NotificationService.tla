------------------------- MODULE NotificationService -------------------------
(***************************************************************************)
(* The notification service: mail that an order is confirmed, mail that    *)
(* its payment failed.  A sent mail is a row of the notifications table.   *)
(***************************************************************************)
EXTENDS EventBus

VARIABLE notifications   \* notifications[o]: the kinds of mail sent for o

NotificationKind == {"ORDER_CONFIRMED", "PAYMENT_FAILED"}

NotificationTypeOK == notifications \in [Orders -> SUBSET NotificationKind]

NotificationInit == notifications = [o \in Orders |-> {}]

\* The insert of the row, unique on (orderId, kind).
Send(o, kind) ==
    /\ kind \notin notifications[o]
    /\ notifications' = [notifications EXCEPT ![o] = @ \cup {kind}]

NotifyOnOrderConfirmed(e) ==
    /\ e.topic = "orders.confirmed"
    /\ ProcessOnce(NotificationConsumer, e)
    /\ Send(e.orderId, "ORDER_CONFIRMED")
    /\ UNCHANGED <<outbox, published, deadLetters>>

\* Mutant of NotifyOnPaymentFailed: the mail of the other handler is sent.
NotifyWithWrongMail(e) ==
    /\ e.topic = "payments.failed"
    /\ ProcessOnce(NotificationConsumer, e)
    /\ Send(e.orderId, "ORDER_CONFIRMED")
    /\ UNCHANGED <<outbox, published, deadLetters>>

\* Mutant of NotifyOnPaymentFailed: the dedup row is committed on its own, so
\* that a crash can fall between it and the mail.
NotifyAfterMarking(e) ==
    /\ e.topic = "payments.failed"
    /\ ProcessOnce(NotificationConsumer, e)
    /\ Send(e.orderId, "PAYMENT_FAILED") \/ UNCHANGED notifications
    /\ UNCHANGED <<outbox, published, deadLetters>>

NotifyOnPaymentFailed(e) ==
    /\ e.topic = "payments.failed"
    /\ ProcessOnce(NotificationConsumer, e)
    /\ Send(e.orderId, "PAYMENT_FAILED")
    /\ UNCHANGED <<outbox, published, deadLetters>>
=============================================================================
