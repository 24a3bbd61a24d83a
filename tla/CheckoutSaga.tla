---------------------------- MODULE CheckoutSaga ----------------------------
(***************************************************************************)
(* The checkout as a choreographed saga: the order, payment, inventory and *)
(* notification services, each with its own database, coupled only by the  *)
(* events their relays publish and their consumers handle.                 *)
(***************************************************************************)
EXTENDS OrderService, PaymentService, InventoryService, NotificationService,
        Functions

vars == <<outbox, published, processed, deadLetters, orders, payments,
          available, reserved, reservations, notifications>>

\* The databases of the four services and the log hold values of their schemas.
TypeOK ==
    /\ BusTypeOK
    /\ OrderTypeOK
    /\ PaymentTypeOK
    /\ InventoryTypeOK
    /\ NotificationTypeOK

Init ==
    /\ BusInit
    /\ OrderInit
    /\ PaymentInit
    /\ InventoryInit
    /\ NotificationInit

-----------------------------------------------------------------------------
\* The steps of each process, with the databases of the others left alone.
PlaceOrder(o) ==
    /\ CreateOrder(o)
    /\ UNCHANGED <<payments, inventoryVars, notifications>>

RunRelay(s) ==
    /\ Relay(s)
    /\ UNCHANGED <<orders, payments, inventoryVars, notifications>>

SagaHandles(e) ==
    /\ \/ OnPaymentCompleted(e)
       \/ OnPaymentFailed(e)
       \/ OnInventoryReserved(e)
       \/ OnInventoryRejected(e)
    /\ UNCHANGED <<payments, inventoryVars, notifications>>

PaymentHandles(e) ==
    /\ PaymentOnOrderCreated(e)
    /\ UNCHANGED <<orders, inventoryVars, notifications>>

InventoryHandles(e) ==
    /\ InventoryOnOrderCreated(e) \/ InventoryOnOrderCancelled(e)
    /\ UNCHANGED <<orders, payments, notifications>>

NotificationHandles(e) ==
    /\ NotifyOnOrderConfirmed(e) \/ NotifyOnPaymentFailed(e)
    /\ UNCHANGED <<orders, payments, inventoryVars>>

Park(c) ==
    /\ DeadLetter(c)
    /\ UNCHANGED <<orders, payments, inventoryVars, notifications>>

Next ==
    \/ \E o \in Orders : PlaceOrder(o)
    \/ \E s \in Producers : RunRelay(s)
    \/ \E e \in published : SagaHandles(e)
    \/ \E e \in published : PaymentHandles(e)
    \/ \E e \in published : InventoryHandles(e)
    \/ \E e \in published : NotificationHandles(e)
    \/ \E c \in Consumers : Park(c)

Spec == Init /\ [][Next]_vars

(***************************************************************************)
(* Fairness.  A relay polls for ever and retries what it could not         *)
(* publish; a consumer group fetches its partitions for ever and works     *)
(* through the events it has not parked.  Nothing makes a customer place   *)
(* an order, a handler fail, or a parked event come back.                  *)
(***************************************************************************)
Fairness ==
    /\ \A s \in Producers : WF_vars(RunRelay(s))
    /\ WF_vars(\E e \in published \ deadLetters[SagaConsumer] : SagaHandles(e))
    /\ WF_vars(\E e \in published \ deadLetters[PaymentConsumer] :
                  PaymentHandles(e))
    /\ WF_vars(\E e \in published \ deadLetters[InventoryConsumer] :
                  InventoryHandles(e))
    /\ WF_vars(\E e \in published \ deadLetters[NotificationConsumer] :
                  NotificationHandles(e))

FairSpec == Spec /\ Fairness

-----------------------------------------------------------------------------
(***************************************************************************)
(* Agreement between the services.                                         *)
(***************************************************************************)
\* A confirmed order is paid for and its stock is still held, in the tables of
\* the services that own these facts: applyLegOutcome never confirms on
\* hearsay, and nothing releases the stock of an order it confirmed.
ConfirmedIsPaidAndHeld ==
    \A o \in Orders :
        orders[o].status = "CONFIRMED" =>
            payments[o] = "COMPLETED" /\ reservations[o] = "RESERVED"

\* A cancelled order has a declined payment or refused stock, and the stock it
\* held is only given back once it is cancelled (settleCancelled, release).
CancelledForAReason ==
    \A o \in Orders :
        /\ orders[o].status = "CANCELLED" =>
              payments[o] = "FAILED" \/ outbox["inventory.rejected"][o] > 0
        /\ reservations[o] = "RELEASED" => orders[o].status = "CANCELLED"

\* The order service announces the end of an order exactly once: one row, of
\* the topic that matches its status, for a settled order and none before,
\* although outcomes keep arriving after the first failed leg settled it.
AnnouncedExactlyOnce ==
    \A o \in Orders :
        /\ outbox["orders.confirmed"][o] =
              IF orders[o].status = "CONFIRMED" THEN 1 ELSE 0
        /\ outbox["orders.cancelled"][o] =
              IF orders[o].status = "CANCELLED" THEN 1 ELSE 0

\* The payment and the inventory service each announce one outcome for an
\* order, however often its orders.created is delivered.  A rejection leaves
\* no row but the dedup marker behind, so for it processOnce stands alone.
OneOutcomePerLeg ==
    \A o \in Orders :
        /\ outbox["payments.completed"][o] + outbox["payments.failed"][o] <= 1
        /\ outbox["inventory.reserved"][o] + outbox["inventory.rejected"][o] <= 1

\* Each product's reservedQty is what the live reservations hold, and its two
\* counters still add up to the stock it started with: reserve() and release()
\* move units, and never create, lose or return them twice.
HeldStock(p) ==
    SumFunctionOnSet([o \in Orders |-> Quantity[o][p]],
                     {o \in Orders : reservations[o] = "RESERVED"})

StockIsAccountedFor ==
    \A p \in Products :
        /\ reserved[p] = HeldStock(p)
        /\ available[p] + reserved[p] = DefaultStock

\* The customer is mailed that the order is confirmed only if it is, and that
\* the payment failed only if it did; so no order gets both mails.
MailsTellTheTruth ==
    \A o \in Orders :
        /\ "ORDER_CONFIRMED" \in notifications[o] =>
              orders[o].status = "CONFIRMED"
        /\ "PAYMENT_FAILED" \in notifications[o] =>
              payments[o] = "FAILED" /\ orders[o].status # "CONFIRMED"

-----------------------------------------------------------------------------
(***************************************************************************)
(* What is left when every event has been published and handled.           *)
(***************************************************************************)
Drained ==
    \A t \in Topics, o \in Orders :
        \A n \in 1..outbox[t][o] :
            /\ EventOf(t, o, n) \in published
            /\ \A c \in Consumers :
                  t \in Subscriptions(c) => EventOf(t, o, n) \in processed[c]

\* When no event is outstanding no order is: the saga never drops a leg, so a
\* placed order is settled and its customer has the mail that is due.
DrainedIsSettled ==
    Drained =>
        \A o \in Orders :
            /\ orders[o].status # "PENDING"
            /\ orders[o].status = "CONFIRMED" =>
                  notifications[o] = {"ORDER_CONFIRMED"}
            /\ payments[o] = "FAILED" => notifications[o] = {"PAYMENT_FAILED"}

\* docs/sequence-diagrams/checkout-failure-path.md: in whatever order the
\* outcomes arrive, a cancelled order ends with its stock released.
CancelledStockComesBack ==
    Drained =>
        \A o \in Orders :
            orders[o].status = "CANCELLED" => reservations[o] # "RESERVED"

\* README.md, section 5: every local transaction of the saga is compensated
\* when a later step fails, so a cancelled order ends with no charge.
CancelledIsNotCharged ==
    Drained =>
        \A o \in Orders :
            orders[o].status = "CANCELLED" => payments[o] # "COMPLETED"

-----------------------------------------------------------------------------
(***************************************************************************)
(* Progress, and the contract.                                             *)
(***************************************************************************)
Settled(o) == orders[o].status \in {"CONFIRMED", "CANCELLED"}

\* An event that decides a leg of o is parked in a dead-letter topic and was
\* not processed.
LegParked(o) ==
    \E c \in {SagaConsumer, PaymentConsumer, InventoryConsumer} :
        \E e \in deadLetters[c] \ processed[c] :
            e.orderId = o /\ e.topic # "orders.cancelled"

\* Every order placed is settled in the end, unless an event of one of its
\* legs was dead-lettered, after which nothing in the code resumes it.
OrdersSettle ==
    \A o \in Orders :
        orders[o].status = "PENDING" ~> (Settled(o) \/ LegParked(o))

MailParked(o) ==
    \E e \in deadLetters[NotificationConsumer] \ processed[NotificationConsumer] :
        e.orderId = o

\* Every customer hears of a confirmed order and of a failed payment.
CustomersAreTold ==
    \A o \in Orders :
        /\ orders[o].status = "CONFIRMED" ~>
              ("ORDER_CONFIRMED" \in notifications[o] \/ MailParked(o))
        /\ payments[o] = "FAILED" ~>
              ("PAYMENT_FAILED" \in notifications[o] \/ MailParked(o))

CancelOutstanding(o) ==
    \A n \in 1..outbox["orders.cancelled"][o] :
        EventOf("orders.cancelled", o, n) \notin processed[InventoryConsumer]

\* Stock held for a cancelled order comes back, provided the reservation was
\* there before the inventory service handled the cancellation.
TimelyReservationIsReleased ==
    \A o \in Orders :
        (/\ orders[o].status = "CANCELLED"
         /\ reservations[o] = "RESERVED"
         /\ CancelOutstanding(o)) ~>
            \/ reservations[o] = "RELEASED"
            \/ \E e \in deadLetters[InventoryConsumer]
                      \ processed[InventoryConsumer] :
                  e.orderId = o /\ e.topic = "orders.cancelled"

\* The contract's view of the four databases.
StockOf(o) ==
    IF reservations[o] # "NONE" THEN reservations[o]
    ELSE IF outbox["inventory.rejected"][o] > 0 THEN "REFUSED" ELSE "NONE"

Contract == INSTANCE CheckoutContract WITH
    status <- [o \in Orders |-> orders[o].status],
    payment <- payments,
    stock <- [o \in Orders |-> StockOf(o)],
    mails <- notifications

\* Every step of the services is one step of the contract or invisible to it.
ImplementsContract == Contract!Spec
=============================================================================
