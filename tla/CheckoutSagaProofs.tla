------------------------- MODULE CheckoutSagaProofs -------------------------
(***************************************************************************)
(* Proofs about CheckoutSaga for any set of orders and products, any       *)
(* totals, quantities and stock, and any set of unreliable consumers.      *)
(***************************************************************************)
EXTENDS CheckoutSaga, Sums

(***************************************************************************)
(* The inductive invariant.  Its parts tie each fact one database holds to *)
(* the rows and events that carried it there.                              *)
(***************************************************************************)
\* Every event on the log was staged, every event handled was on the log.
BusInv ==
    /\ \A e \in published : e.serial \in 1..outbox[e.topic][e.orderId]
    /\ \A c \in Consumers : processed[c] \subseteq published

\* An order has one orders.created row from the moment it exists.
CreatedInv ==
    \A o \in Orders :
        outbox["orders.created"][o] = IF orders[o].status = "ABSENT" THEN 0 ELSE 1

\* The payment row and the outcome it announces are one fact, which exists
\* once orders.created was handled.
PaymentInv ==
    \A o \in Orders :
        /\ outbox["payments.completed"][o] = IF payments[o] = "COMPLETED" THEN 1 ELSE 0
        /\ outbox["payments.failed"][o] = IF payments[o] = "FAILED" THEN 1 ELSE 0
        /\ payments[o] # "NONE" <=>
              EventOf("orders.created", o, 1) \in processed[PaymentConsumer]

\* So are the reservation and its announcement; a rejection exists instead of
\* a reservation, and one of the two once orders.created was handled.
InventoryInv ==
    \A o \in Orders :
        /\ outbox["inventory.reserved"][o] = IF reservations[o] = "NONE" THEN 0 ELSE 1
        /\ outbox["inventory.rejected"][o] \in {0, 1}
        /\ outbox["inventory.rejected"][o] = 1 => reservations[o] = "NONE"
        /\ (reservations[o] # "NONE" \/ outbox["inventory.rejected"][o] = 1) <=>
              EventOf("orders.created", o, 1) \in processed[InventoryConsumer]
        /\ reservations[o] = "RELEASED" => orders[o].status = "CANCELLED"

\* A decided leg repeats what the service that owns it announced.
LegsInv ==
    \A o \in Orders :
        /\ orders[o].paymentStatus = "SUCCEEDED" => payments[o] = "COMPLETED"
        /\ orders[o].paymentStatus = "FAILED" => payments[o] = "FAILED"
        /\ orders[o].inventoryStatus = "SUCCEEDED" => reservations[o] # "NONE"
        /\ orders[o].inventoryStatus = "FAILED" => outbox["inventory.rejected"][o] = 1

\* The status of an order is a function of its legs.
StatusInv ==
    \A o \in Orders :
        /\ orders[o].status = "ABSENT" =>
              orders[o].paymentStatus = "PENDING" /\ orders[o].inventoryStatus = "PENDING"
        /\ orders[o].status = "CONFIRMED" => BothLegsSucceeded(orders[o])
        /\ orders[o].status = "CANCELLED" => AnyLegFailed(orders[o])
        /\ orders[o].status = "PENDING" =>
              ~AnyLegFailed(orders[o]) /\ ~BothLegsSucceeded(orders[o])

\* An outcome the saga has handled is in the order, if the order is still open.
HandledInv ==
    \A o \in Orders :
        orders[o].status = "PENDING" =>
            /\ EventOf("payments.completed", o, 1) \in processed[SagaConsumer]
                  => orders[o].paymentStatus = "SUCCEEDED"
            /\ EventOf("payments.failed", o, 1) \notin processed[SagaConsumer]
            /\ EventOf("inventory.reserved", o, 1) \in processed[SagaConsumer]
                  => orders[o].inventoryStatus = "SUCCEEDED"
            /\ EventOf("inventory.rejected", o, 1) \notin processed[SagaConsumer]

\* A mail was sent exactly when the event that asks for it was handled.
MailInv ==
    \A o \in Orders :
        /\ "ORDER_CONFIRMED" \in notifications[o] <=>
              EventOf("orders.confirmed", o, 1) \in processed[NotificationConsumer]
        /\ "PAYMENT_FAILED" \in notifications[o] <=>
              EventOf("payments.failed", o, 1) \in processed[NotificationConsumer]

IInv ==
    /\ TypeOK
    /\ BusInv
    /\ CreatedInv
    /\ PaymentInv
    /\ InventoryInv
    /\ LegsInv
    /\ StatusInv
    /\ AnnouncedExactlyOnce
    /\ HandledInv
    /\ MailInv

-----------------------------------------------------------------------------
(***************************************************************************)
(* The two writes every transaction is made of.                            *)
(***************************************************************************)
\* Enqueue (OutboxService.enqueue) adds one row to one topic of one order.
LEMMA EnqueueAddsOneRow ==
    ASSUME outbox \in [Topics -> [Orders -> Nat]],
           NEW t \in Topics, NEW o \in Orders, Enqueue(t, o)
    PROVE  /\ outbox' \in [Topics -> [Orders -> Nat]]
           /\ \A u \in Topics, q \in Orders :
                 outbox'[u][q] = IF u = t /\ q = o THEN outbox[u][q] + 1
                                                   ELSE outbox[u][q]
BY DEF Enqueue

\* ProcessOnce (processOnce) adds one event, new to it, to one consumer.
LEMMA ProcessOnceAddsOneEvent ==
    ASSUME processed \in [Consumers -> SUBSET Event],
           NEW c \in Consumers, NEW e \in Event, ProcessOnce(c, e)
    PROVE  /\ processed' \in [Consumers -> SUBSET Event]
           /\ e \notin processed[c]
           /\ \A d \in Consumers :
                 processed'[d] = IF d = c THEN processed[d] \cup {e}
                                          ELSE processed[d]
BY DEF ProcessOnce

-----------------------------------------------------------------------------
(***************************************************************************)
(* Type correctness.                                                       *)
(***************************************************************************)
\* The saga starts in a well-typed state.
LEMMA InitTypeOK == Init => TypeOK
BY StockAssumption
DEF Init, BusInit, OrderInit, PaymentInit, InventoryInit, NotificationInit,
    TypeOK, BusTypeOK, OrderTypeOK, PaymentTypeOK, InventoryTypeOK,
    NotificationTypeOK, OrderRow, Leg, OrderStatus

\* applyLegOutcome keeps the orders table and the outbox well typed.
LEMMA ApplyLegOutcomeType ==
    ASSUME TypeOK, NEW o \in Orders, NEW row \in OrderRow,
           ApplyLegOutcome(o, row)
    PROVE  /\ orders' \in [Orders -> OrderRow]
           /\ outbox' \in [Topics -> [Orders -> Nat]]
<1>1. /\ orders \in [Orders -> OrderRow]
      /\ outbox \in [Topics -> [Orders -> Nat]]
      /\ "orders.cancelled" \in Topics /\ "orders.confirmed" \in Topics
  BY DEF TypeOK, BusTypeOK, OrderTypeOK, Topics
<1>2. CASE UNCHANGED <<orders, outbox>>
  BY <1>1, <1>2
<1>3. CASE SettleCancelled(o, row)
  <2>1. [row EXCEPT !.status = "CANCELLED"] \in OrderRow
    BY DEF OrderRow, OrderStatus
  <2> QED
    BY <1>1, <1>3, <2>1, EnqueueAddsOneRow DEF SettleCancelled
<1>4. CASE SettleConfirmed(o, row)
  <2>1. [row EXCEPT !.status = "CONFIRMED"] \in OrderRow
    BY DEF OrderRow, OrderStatus
  <2> QED
    BY <1>1, <1>4, <2>1, EnqueueAddsOneRow DEF SettleConfirmed
<1>5. CASE orders' = [orders EXCEPT ![o] = row] /\ UNCHANGED outbox
  BY <1>1, <1>5
<1> QED
  BY <1>2, <1>3, <1>4, <1>5 DEF ApplyLegOutcome

\* reserve() and release() keep the counters and reservations well typed.
LEMMA InventoryType ==
    ASSUME InventoryTypeOK, NEW o \in Orders,
           Reject(o) \/ Reserve(o) \/ Release(o)
    PROVE  InventoryTypeOK'
<1>1. \A p \in Products :
         /\ available[p] + Quantity[o][p] \in Int
         /\ available[p] - Quantity[o][p] \in Int
         /\ reserved[p] + Quantity[o][p] \in Int
         /\ reserved[p] - Quantity[o][p] \in Int
  <2> SUFFICES ASSUME NEW p \in Products
               PROVE  /\ Quantity[o][p] \in Nat
                      /\ available[p] \in Int
                      /\ reserved[p] \in Int
    OBVIOUS
  <2> QED
    BY LinesAssumption DEF InventoryTypeOK
<1>2. CASE UNCHANGED inventoryVars
  BY <1>2 DEF InventoryTypeOK, inventoryVars
<1>3. CASE Reserve(o)
  BY <1>1, <1>3 DEF Reserve, InventoryTypeOK, ReservationStatus
<1>4. CASE Release(o)
  BY <1>1, <1>2, <1>4 DEF Release, InventoryTypeOK, ReservationStatus
<1> QED
  BY <1>2, <1>3, <1>4 DEF Reject

\* Every step of every process keeps the state well typed.
LEMMA NextTypeOK == TypeOK /\ [Next]_vars => TypeOK'
<1> SUFFICES ASSUME TypeOK, [Next]_vars
             PROVE  TypeOK'
  OBVIOUS
<1> USE DEF TypeOK, BusTypeOK, OrderTypeOK, PaymentTypeOK, InventoryTypeOK,
            NotificationTypeOK
<1>1. ASSUME NEW o \in Orders, PlaceOrder(o)
      PROVE  TypeOK'
  <2>1. orders' \in [Orders -> OrderRow]
    BY <1>1 DEF PlaceOrder, CreateOrder, OrderRow, OrderStatus
  <2>2. outbox' \in [Topics -> [Orders -> Nat]]
    BY <1>1, EnqueueAddsOneRow DEF PlaceOrder, CreateOrder, Topics
  <2> QED
    BY <1>1, <2>1, <2>2 DEF PlaceOrder, CreateOrder, inventoryVars
<1>2. ASSUME NEW s \in Producers, RunRelay(s)
      PROVE  TypeOK'
  <2>1. TopicsOf(s) \subseteq Topics
    BY <1>2 DEF TopicsOf, Producers, Topics
  <2>2. published' \subseteq Event
    BY <1>2, <2>1 DEF RunRelay, Relay, EventOf, Event
  <2> QED
    BY <1>2, <2>2 DEF RunRelay, Relay, inventoryVars
<1>3. ASSUME NEW e \in published, SagaHandles(e)
      PROVE  TypeOK'
  <2>1. e \in Event /\ e.orderId \in Orders /\ SagaConsumer \in Consumers
    BY DEF Event, Consumers
  <2>2. ASSUME NEW row \in OrderRow, ApplyLegOutcome(e.orderId, row),
               ProcessOnce(SagaConsumer, e), UNCHANGED <<published, deadLetters>>
        PROVE  TypeOK'
    BY <1>3, <2>1, <2>2, ApplyLegOutcomeType, ProcessOnceAddsOneEvent
    DEF SagaHandles, inventoryVars
  <2>3. \A x \in Leg : /\ [orders[e.orderId] EXCEPT !.paymentStatus = x] \in OrderRow
                       /\ [orders[e.orderId] EXCEPT !.inventoryStatus = x] \in OrderRow
    BY <2>1 DEF OrderRow
  <2>4. "SUCCEEDED" \in Leg /\ "FAILED" \in Leg
    BY DEF Leg
  <2> QED
    BY <1>3, <2>2, <2>3, <2>4
    DEF SagaHandles, OnPaymentCompleted, OnPaymentFailed,
        OnInventoryReserved, OnInventoryRejected
<1>4. ASSUME NEW e \in published, PaymentHandles(e)
      PROVE  TypeOK'
  <2>1. e \in Event /\ e.orderId \in Orders /\ PaymentConsumer \in Consumers
    BY DEF Event, Consumers
  <2>2. payments' \in [Orders -> PaymentStatus \cup {"NONE"}]
    BY <1>4, <2>1 DEF PaymentHandles, PaymentOnOrderCreated, Charge, PaymentStatus
  <2>3. outbox' \in [Topics -> [Orders -> Nat]]
    BY <1>4, <2>1, EnqueueAddsOneRow
    DEF PaymentHandles, PaymentOnOrderCreated, Charge, Topics
  <2> QED
    BY <1>4, <2>1, <2>2, <2>3, ProcessOnceAddsOneEvent
    DEF PaymentHandles, PaymentOnOrderCreated, inventoryVars
<1>5. ASSUME NEW e \in published, InventoryHandles(e)
      PROVE  TypeOK'
  <2>1. e \in Event /\ e.orderId \in Orders /\ InventoryConsumer \in Consumers
    BY DEF Event, Consumers
  <2>2. CASE InventoryOnOrderCreated(e)
    <3>1. InventoryTypeOK'
      BY <2>1, <2>2, InventoryType DEF InventoryOnOrderCreated
    <3>2. outbox' \in [Topics -> [Orders -> Nat]]
      BY <2>1, <2>2, EnqueueAddsOneRow
      DEF InventoryOnOrderCreated, Reject, Reserve, Topics
    <3> QED
      BY <1>5, <2>1, <2>2, <3>1, <3>2, ProcessOnceAddsOneEvent
      DEF InventoryHandles, InventoryOnOrderCreated
  <2>3. CASE InventoryOnOrderCancelled(e)
    <3>1. InventoryTypeOK'
      BY <2>1, <2>3, InventoryType DEF InventoryOnOrderCancelled
    <3> QED
      BY <1>5, <2>1, <2>3, <3>1, ProcessOnceAddsOneEvent
      DEF InventoryHandles, InventoryOnOrderCancelled
  <2> QED
    BY <1>5, <2>2, <2>3 DEF InventoryHandles
<1>6. ASSUME NEW e \in published, NotificationHandles(e)
      PROVE  TypeOK'
  <2>1. /\ e \in Event /\ e.orderId \in Orders
        /\ NotificationConsumer \in Consumers
    BY DEF Event, Consumers
  <2>2. notifications' \in [Orders -> SUBSET NotificationKind]
    BY <1>6, <2>1
    DEF NotificationHandles, NotifyOnOrderConfirmed, NotifyOnPaymentFailed,
        Send, NotificationKind
  <2> QED
    BY <1>6, <2>1, <2>2, ProcessOnceAddsOneEvent
    DEF NotificationHandles, NotifyOnOrderConfirmed, NotifyOnPaymentFailed,
        inventoryVars
<1>7. ASSUME NEW c \in Consumers, Park(c)
      PROVE  TypeOK'
  BY <1>7 DEF Park, DeadLetter, inventoryVars
<1>8. CASE UNCHANGED vars
  BY <1>8 DEF vars
<1> QED
  BY <1>1, <1>2, <1>3, <1>4, <1>5, <1>6, <1>7, <1>8 DEF Next

\* Every reachable state of the saga is well typed.
THEOREM TypeCorrect == Spec => []TypeOK
BY InitTypeOK, NextTypeOK, PTL DEF Spec

-----------------------------------------------------------------------------
(***************************************************************************)
(* Consequences of the inductive invariant.                                *)
(***************************************************************************)
\* No topic ever holds a second row for an order.
LEMMA AtMostOneRow ==
    ASSUME IInv, NEW t \in Topics, NEW o \in Orders
    PROVE  outbox[t][o] \in {0, 1}
BY DEF IInv, Topics, CreatedInv, PaymentInv, InventoryInv, AnnouncedExactlyOnce

\* So an event on the log is its order's only one of its topic.
LEMMA PublishedIsFirstRow ==
    ASSUME IInv, NEW e \in published
    PROVE  /\ e \in Event /\ e.topic \in Topics /\ e.orderId \in Orders
           /\ e = EventOf(e.topic, e.orderId, 1)
           /\ outbox[e.topic][e.orderId] = 1
<1>1. e \in Event /\ e.topic \in Topics /\ e.orderId \in Orders /\ e.serial \in Nat
  BY DEF IInv, TypeOK, BusTypeOK, Event
<1>2. e = EventOf(e.topic, e.orderId, e.serial)
  BY <1>1 DEF Event, EventOf
<1>3. outbox[e.topic][e.orderId] \in {0, 1}
  BY <1>1, AtMostOneRow
<1>4. e.serial \in 1..outbox[e.topic][e.orderId]
  BY DEF IInv, BusInv
<1>5. e.serial = 1 /\ outbox[e.topic][e.orderId] = 1
  BY <1>1, <1>3, <1>4
<1> QED
  BY <1>1, <1>2, <1>5

\* A handled event has its row.
LEMMA HandledIsStaged ==
    ASSUME IInv, NEW c \in Consumers, NEW t \in Topics, NEW o \in Orders,
           EventOf(t, o, 1) \in processed[c]
    PROVE  outbox[t][o] = 1
<1>1. EventOf(t, o, 1) \in published
  BY DEF IInv, BusInv
<1>2. EventOf(t, o, 1).topic = t /\ EventOf(t, o, 1).orderId = o
  BY DEF EventOf
<1> QED
  BY <1>1, <1>2, PublishedIsFirstRow

\* An order that does not exist has left no trace with any consumer.
LEMMA AbsentIsUnhandled ==
    ASSUME IInv, NEW o \in Orders, orders[o].status = "ABSENT"
    PROVE  /\ payments[o] = "NONE" /\ reservations[o] = "NONE"
           /\ \A t \in Topics : outbox[t][o] = 0
           /\ \A c \in Consumers, t \in Topics : EventOf(t, o, 1) \notin processed[c]
<1>1. outbox["orders.created"][o] = 0
  BY DEF IInv, CreatedInv
<1>2. \A c \in Consumers : EventOf("orders.created", o, 1) \notin processed[c]
  BY <1>1, HandledIsStaged DEF Topics
<1>3. payments[o] = "NONE" /\ reservations[o] = "NONE" /\ outbox["inventory.rejected"][o] = 0
  BY <1>2 DEF IInv, PaymentInv, InventoryInv, PaymentConsumer, InventoryConsumer, Consumers
<1>4. \A t \in Topics : outbox[t][o] = 0
  BY <1>1, <1>3
  DEF IInv, Topics, PaymentInv, InventoryInv, AnnouncedExactlyOnce
<1> QED
  BY <1>3, <1>4, HandledIsStaged

-----------------------------------------------------------------------------
(***************************************************************************)
(* Each kind of step preserves the inductive invariant.                    *)
(***************************************************************************)
\* The saga starts in a state that satisfies the inductive invariant.
LEMMA InitIInv == Init => IInv
<1> SUFFICES ASSUME Init PROVE IInv
  OBVIOUS
<1>1. TypeOK
  BY InitTypeOK
<1>2. \A t \in Topics, o \in Orders : outbox[t][o] = 0
  BY DEF Init, BusInit
<1>3. published = {} /\ \A c \in Consumers : processed[c] = {}
  BY DEF Init, BusInit
<1>4. \A o \in Orders : /\ orders[o].status = "ABSENT"
                       /\ orders[o].paymentStatus = "PENDING"
                       /\ orders[o].inventoryStatus = "PENDING"
  BY DEF Init, OrderInit
<1>5. \A o \in Orders : /\ payments[o] = "NONE"
                       /\ reservations[o] = "NONE"
                       /\ notifications[o] = {}
  BY DEF Init, PaymentInit, InventoryInit, NotificationInit
<1>6. PaymentInv /\ InventoryInv
  BY <1>2, <1>3, <1>4, <1>5
  DEF PaymentInv, InventoryInv, Topics, Consumers, PaymentConsumer, InventoryConsumer
<1>7. CreatedInv /\ AnnouncedExactlyOnce
  BY <1>2, <1>4 DEF CreatedInv, AnnouncedExactlyOnce, Topics
<1>8. LegsInv /\ StatusInv /\ HandledInv
  BY <1>4 DEF LegsInv, StatusInv, HandledInv
<1>9. MailInv
  BY <1>3, <1>5 DEF MailInv, Consumers, NotificationConsumer
<1>10. BusInv
  BY <1>3 DEF BusInv
<1> QED
  BY <1>1, <1>6, <1>7, <1>8, <1>9, <1>10 DEF IInv

\* createOrder preserves it: the order is new, so no event is about it.
LEMMA PlaceOrderKeepsIInv ==
    ASSUME IInv, NEW o \in Orders, PlaceOrder(o)
    PROVE  IInv'
<1>1. TypeOK'
  BY NextTypeOK DEF Next, IInv
<1>2. \A u \in Topics, q \in Orders :
         outbox'[u][q] = IF u = "orders.created" /\ q = o THEN outbox[u][q] + 1
                                                          ELSE outbox[u][q]
  BY EnqueueAddsOneRow DEF PlaceOrder, CreateOrder, IInv, TypeOK, BusTypeOK, Topics
<1>3. \A q \in Orders :
         /\ orders'[q].status = IF q = o THEN "PENDING" ELSE orders[q].status
         /\ orders'[q].paymentStatus = orders[q].paymentStatus
         /\ orders'[q].inventoryStatus = orders[q].inventoryStatus
  BY DEF PlaceOrder, CreateOrder, IInv, TypeOK, OrderTypeOK, OrderRow
<1>4. /\ orders[o].status = "ABSENT"
      /\ UNCHANGED <<published, processed, payments, reservations, notifications>>
  BY DEF PlaceOrder, CreateOrder, inventoryVars
<1>5. BusInv'
  <2>1. \A e \in published : e.topic \in Topics /\ e.orderId \in Orders
    BY PublishedIsFirstRow
  <2>2. \A e \in published : outbox[e.topic][e.orderId] = 1
    BY PublishedIsFirstRow
  <2>3. \A e \in published : outbox'[e.topic][e.orderId] \in {1, 2}
    BY <1>2, <2>1, <2>2
  <2> QED
    BY <1>4, <2>2, <2>3 DEF BusInv, IInv
<1>6. CreatedInv'
  BY <1>2, <1>3, <1>4 DEF CreatedInv, IInv, Topics
<1>7. PaymentInv'
  BY <1>2, <1>4 DEF PaymentInv, IInv, Topics
<1>8. InventoryInv'
  BY <1>2, <1>3, <1>4, AbsentIsUnhandled DEF InventoryInv, IInv, Topics
<1>9. LegsInv'
  BY <1>2, <1>3, <1>4 DEF LegsInv, IInv, Topics
<1>10. StatusInv'
  BY <1>3, <1>4 DEF StatusInv, IInv, AnyLegFailed, BothLegsSucceeded
<1>11. AnnouncedExactlyOnce'
  BY <1>2, <1>3, <1>4 DEF AnnouncedExactlyOnce, IInv, Topics
<1>12. HandledInv'
  BY <1>3, <1>4, AbsentIsUnhandled
  DEF HandledInv, IInv, Topics, Consumers, SagaConsumer
<1>13. MailInv'
  BY <1>4 DEF MailInv, IInv
<1> QED
  BY <1>1, <1>5, <1>6, <1>7, <1>8, <1>9, <1>10, <1>11, <1>12, <1>13 DEF IInv

\* A relay only publishes rows that are staged.
LEMMA RunRelayKeepsIInv ==
    ASSUME IInv, NEW s \in Producers, RunRelay(s)
    PROVE  IInv'
<1>1. TypeOK'
  BY NextTypeOK DEF Next, IInv
<1>2. UNCHANGED <<outbox, processed, orders, payments, reservations, notifications>>
  BY DEF RunRelay, Relay, inventoryVars
<1>3. BusInv'
  <2>1. PICK t \in TopicsOf(s), o \in Orders :
           \E n \in 1..outbox[t][o] : published' = published \cup {EventOf(t, o, n)}
    BY DEF RunRelay, Relay
  <2> QED
    BY <1>2, <2>1 DEF BusInv, IInv, EventOf
<1> QED
  BY <1>1, <1>2, <1>3
  DEF IInv, CreatedInv, PaymentInv, InventoryInv, LegsInv, StatusInv,
      AnnouncedExactlyOnce, HandledInv, MailInv

\* A dead letter changes no table of a service.
LEMMA ParkKeepsIInv ==
    ASSUME IInv, NEW c \in Consumers, Park(c)
    PROVE  IInv'
<1>1. TypeOK'
  BY NextTypeOK DEF Next, IInv
<1>2. UNCHANGED <<outbox, published, processed, orders, payments, reservations,
                  notifications>>
  BY DEF Park, DeadLetter, inventoryVars
<1> QED
  BY <1>1, <1>2
  DEF IInv, BusInv, CreatedInv, PaymentInv, InventoryInv, LegsInv, StatusInv,
      AnnouncedExactlyOnce, HandledInv, MailInv

\* A transaction that handles an event of the log and only adds rows.
LEMMA HandlingKeepsBusInv ==
    ASSUME IInv, NEW c \in Consumers, NEW e \in published,
           UNCHANGED published,
           \A u \in Topics, q \in Orders : outbox'[u][q] \in {outbox[u][q], outbox[u][q] + 1},
           \A d \in Consumers :
              processed'[d] = IF d = c THEN processed[d] \cup {e} ELSE processed[d]
    PROVE  BusInv'
<1>1. ASSUME NEW f \in published
      PROVE  f.serial \in 1..outbox'[f.topic][f.orderId]
  <2>1. f.topic \in Topics /\ f.orderId \in Orders /\ outbox[f.topic][f.orderId] = 1
    BY PublishedIsFirstRow
  <2>2. f.serial \in 1..1
    BY <2>1 DEF IInv, BusInv
  <2>3. outbox'[f.topic][f.orderId] \in {1, 2}
    BY <2>1
  <2> QED
    BY <2>2, <2>3
<1>2. \A d \in Consumers : processed'[d] \subseteq published
  BY DEF IInv, BusInv
<1> QED
  BY <1>1, <1>2 DEF BusInv

\* charge() adds the one payment and its one outcome.
LEMMA PaymentHandlesKeepsIInv ==
    ASSUME IInv, NEW e \in published, PaymentHandles(e)
    PROVE  IInv'
<1> DEFINE o == e.orderId
<1>1. TypeOK'
  BY NextTypeOK DEF Next, IInv
<1>2. /\ o \in Orders
      /\ e \in Event
      /\ e = EventOf("orders.created", o, 1)
      /\ payments[o] = "NONE"
      /\ UNCHANGED <<published, orders, reservations, notifications>>
  BY PublishedIsFirstRow
  DEF PaymentHandles, PaymentOnOrderCreated, Charge, inventoryVars
<1>3. PICK t \in {"payments.completed", "payments.failed"} :
         /\ Enqueue(t, o)
         /\ payments' = [payments EXCEPT
                ![o] = IF t = "payments.completed" THEN "COMPLETED" ELSE "FAILED"]
  BY DEF PaymentHandles, PaymentOnOrderCreated, Charge
<1>4. \A u \in Topics, q \in Orders :
         outbox'[u][q] = IF u = t /\ q = o THEN outbox[u][q] + 1 ELSE outbox[u][q]
  BY <1>2, <1>3, EnqueueAddsOneRow DEF IInv, TypeOK, BusTypeOK, Topics
<1>5. \A q \in Orders :
         payments'[q] = IF q = o THEN (IF t = "payments.completed" THEN "COMPLETED"
                                                                  ELSE "FAILED")
                                 ELSE payments[q]
  BY <1>2, <1>3 DEF IInv, TypeOK, PaymentTypeOK
<1>6. \A c \in Consumers :
         processed'[c] = IF c = PaymentConsumer THEN processed[c] \cup {e}
                                                ELSE processed[c]
  BY <1>2, ProcessOnceAddsOneEvent
  DEF PaymentHandles, PaymentOnOrderCreated, IInv, TypeOK, BusTypeOK, Consumers
<1>7. BusInv'
  <2>1. \A u \in Topics, q \in Orders : outbox'[u][q] \in {outbox[u][q], outbox[u][q] + 1}
    BY <1>4
  <2>2. PaymentConsumer \in Consumers
    BY DEF Consumers
  <2> QED
    BY <1>2, <1>6, <2>1, <2>2, HandlingKeepsBusInv
<1>8. CreatedInv' /\ AnnouncedExactlyOnce'
  BY <1>2, <1>4 DEF CreatedInv, AnnouncedExactlyOnce, IInv, Topics
<1>9. PaymentInv'
  <2>1. \A q \in Orders : EventOf("orders.created", q, 1) = e <=> q = o
    BY <1>2 DEF EventOf
  <2>2. \A q \in Orders :
           /\ outbox'["payments.completed"][q] = IF payments'[q] = "COMPLETED" THEN 1 ELSE 0
           /\ outbox'["payments.failed"][q] = IF payments'[q] = "FAILED" THEN 1 ELSE 0
    BY <1>2, <1>3, <1>4, <1>5 DEF PaymentInv, IInv, Topics
  <2>3. \A q \in Orders : payments'[q] # "NONE" <=>
           EventOf("orders.created", q, 1) \in processed'[PaymentConsumer]
    BY <1>2, <1>3, <1>5, <1>6, <2>1 DEF PaymentInv, IInv, Consumers, PaymentConsumer
  <2> QED
    BY <2>2, <2>3 DEF PaymentInv
<1>10. InventoryInv'
  BY <1>2, <1>4, <1>6
  DEF InventoryInv, IInv, Topics, Consumers, InventoryConsumer, PaymentConsumer
<1>11. LegsInv'
  BY <1>2, <1>4, <1>5 DEF LegsInv, IInv, Topics
<1>12. StatusInv'
  BY <1>2 DEF StatusInv, IInv
<1>13. HandledInv' /\ MailInv'
  BY <1>2, <1>6
  DEF HandledInv, MailInv, IInv, Consumers, SagaConsumer, PaymentConsumer,
      NotificationConsumer
<1> QED
  BY <1>1, <1>7, <1>8, <1>9, <1>10, <1>11, <1>12, <1>13 DEF IInv

\* reserve() adds the one reservation, or the one rejection.
LEMMA InventoryCreatedKeepsIInv ==
    ASSUME IInv, NEW e \in published, InventoryHandles(e), InventoryOnOrderCreated(e)
    PROVE  IInv'
<1> DEFINE o == e.orderId
<1>1. TypeOK'
  BY NextTypeOK DEF Next, IInv
<1>2. /\ o \in Orders
      /\ e \in Event
      /\ e = EventOf("orders.created", o, 1)
      /\ outbox["orders.created"][o] = 1
      /\ UNCHANGED <<published, orders, payments, notifications>>
  BY PublishedIsFirstRow
  DEF InventoryHandles, InventoryOnOrderCreated, inventoryVars
<1>3. \A c \in Consumers :
         processed'[c] = IF c = InventoryConsumer THEN processed[c] \cup {e}
                                                  ELSE processed[c]
  BY <1>2, ProcessOnceAddsOneEvent
  DEF InventoryOnOrderCreated, IInv, TypeOK, BusTypeOK, Consumers
<1>4. reservations[o] = "NONE" /\ outbox["inventory.rejected"][o] = 0
  BY <1>2 DEF InventoryOnOrderCreated, ProcessOnce, IInv, InventoryInv
<1>5. PICK t \in {"inventory.reserved", "inventory.rejected"} :
         /\ Enqueue(t, o)
         /\ reservations' = IF t = "inventory.reserved"
                              THEN [reservations EXCEPT ![o] = "RESERVED"]
                              ELSE reservations
  BY DEF InventoryOnOrderCreated, Reject, Reserve, inventoryVars
<1>6. \A u \in Topics, q \in Orders :
         outbox'[u][q] = IF u = t /\ q = o THEN outbox[u][q] + 1 ELSE outbox[u][q]
  BY <1>2, <1>5, EnqueueAddsOneRow DEF IInv, TypeOK, BusTypeOK, Topics
<1>7. \A q \in Orders :
         reservations'[q] = IF q = o /\ t = "inventory.reserved" THEN "RESERVED"
                                                                 ELSE reservations[q]
  BY <1>2, <1>5 DEF IInv, TypeOK, InventoryTypeOK
<1>8. BusInv'
  <2>1. \A u \in Topics, q \in Orders : outbox'[u][q] \in {outbox[u][q], outbox[u][q] + 1}
    BY <1>6
  <2>2. InventoryConsumer \in Consumers
    BY DEF Consumers
  <2> QED
    BY <1>2, <1>3, <2>1, <2>2, HandlingKeepsBusInv
<1>9. CreatedInv' /\ AnnouncedExactlyOnce'
  BY <1>2, <1>6 DEF CreatedInv, AnnouncedExactlyOnce, IInv, Topics
<1>10. PaymentInv'
  BY <1>2, <1>3, <1>6
  DEF PaymentInv, IInv, Topics, Consumers, InventoryConsumer, PaymentConsumer
<1>11. InventoryInv'
  <2>1. \A q \in Orders : EventOf("orders.created", q, 1) = e <=> q = o
    BY <1>2 DEF EventOf
  <2>2. \A q \in Orders : q # o =>
           /\ reservations'[q] = reservations[q]
           /\ outbox'["inventory.reserved"][q] = outbox["inventory.reserved"][q]
           /\ outbox'["inventory.rejected"][q] = outbox["inventory.rejected"][q]
           /\ orders'[q] = orders[q]
    BY <1>2, <1>6, <1>7 DEF Topics
  <2>3. outbox["inventory.reserved"][o] = 0
    BY <1>2, <1>4 DEF IInv, InventoryInv
  <2>4. /\ outbox'["inventory.reserved"][o] = IF t = "inventory.reserved" THEN 1 ELSE 0
        /\ outbox'["inventory.rejected"][o] = IF t = "inventory.rejected" THEN 1 ELSE 0
        /\ reservations'[o] = IF t = "inventory.reserved" THEN "RESERVED" ELSE "NONE"
    BY <1>2, <1>4, <1>6, <1>7, <2>3 DEF Topics
  <2>5. \A q \in Orders : EventOf("orders.created", q, 1) \in processed'[InventoryConsumer]
           <=> \/ EventOf("orders.created", q, 1) \in processed[InventoryConsumer]
               \/ q = o
    BY <1>3, <2>1 DEF Consumers, InventoryConsumer
  <2> QED
    BY <2>2, <2>4, <2>5 DEF InventoryInv, IInv
<1>12. LegsInv'
  BY <1>2, <1>4, <1>6, <1>7 DEF LegsInv, IInv, Topics
<1>13. StatusInv'
  BY <1>2 DEF StatusInv, IInv
<1>14. HandledInv' /\ MailInv'
  BY <1>2, <1>3
  DEF HandledInv, MailInv, IInv, Consumers, SagaConsumer, InventoryConsumer,
      NotificationConsumer
<1> QED
  BY <1>1, <1>8, <1>9, <1>10, <1>11, <1>12, <1>13, <1>14 DEF IInv

\* release() gives back stock of a cancelled order only.
LEMMA InventoryCancelledKeepsIInv ==
    ASSUME IInv, NEW e \in published, InventoryHandles(e), InventoryOnOrderCancelled(e)
    PROVE  IInv'
<1> DEFINE o == e.orderId
<1>1. TypeOK'
  BY NextTypeOK DEF Next, IInv
<1>2. /\ o \in Orders
      /\ e \in Event
      /\ e = EventOf("orders.cancelled", o, 1)
      /\ outbox["orders.cancelled"][o] = 1
      /\ UNCHANGED <<published, outbox, orders, payments, notifications>>
  BY PublishedIsFirstRow DEF InventoryHandles, InventoryOnOrderCancelled
<1>3. \A c \in Consumers :
         processed'[c] = IF c = InventoryConsumer THEN processed[c] \cup {e}
                                                  ELSE processed[c]
  BY <1>2, ProcessOnceAddsOneEvent
  DEF InventoryOnOrderCancelled, IInv, TypeOK, BusTypeOK, Consumers
<1>4. orders[o].status = "CANCELLED"
  BY <1>2 DEF IInv, AnnouncedExactlyOnce
<1>5. \A q \in Orders :
         \/ reservations'[q] = reservations[q]
         \/ q = o /\ reservations[q] = "RESERVED" /\ reservations'[q] = "RELEASED"
  BY <1>2 DEF InventoryOnOrderCancelled, Release, inventoryVars, IInv, TypeOK,
              InventoryTypeOK
<1>6. BusInv'
  <2>1. \A u \in Topics, q \in Orders : outbox'[u][q] \in {outbox[u][q], outbox[u][q] + 1}
    BY <1>2
  <2>2. InventoryConsumer \in Consumers
    BY DEF Consumers
  <2> QED
    BY <1>2, <1>3, <2>1, <2>2, HandlingKeepsBusInv
<1>7. CreatedInv' /\ AnnouncedExactlyOnce'
  BY <1>2 DEF CreatedInv, AnnouncedExactlyOnce, IInv
<1>8. PaymentInv'
  BY <1>2, <1>3
  DEF PaymentInv, IInv, Consumers, InventoryConsumer, PaymentConsumer
<1>9. InventoryInv'
  <2>1. \A q \in Orders : EventOf("orders.created", q, 1) # e
    BY <1>2 DEF EventOf
  <2> QED
    BY <1>2, <1>3, <1>4, <1>5, <2>1 DEF InventoryInv, IInv, Consumers, InventoryConsumer
<1>10. LegsInv' /\ StatusInv'
  BY <1>2, <1>5 DEF LegsInv, StatusInv, IInv
<1>11. HandledInv' /\ MailInv'
  BY <1>2, <1>3
  DEF HandledInv, MailInv, IInv, Consumers, SagaConsumer, InventoryConsumer,
      NotificationConsumer
<1> QED
  BY <1>1, <1>6, <1>7, <1>8, <1>9, <1>10, <1>11 DEF IInv

\* A mail repeats what the event it is sent for says.
LEMMA NotificationHandlesKeepsIInv ==
    ASSUME IInv, NEW e \in published, NotificationHandles(e)
    PROVE  IInv'
<1> DEFINE o == e.orderId
<1>1. TypeOK'
  BY NextTypeOK DEF Next, IInv
<1>2. /\ o \in Orders
      /\ e \in Event
      /\ e = EventOf(e.topic, o, 1)
      /\ UNCHANGED <<published, outbox, orders, payments, reservations>>
  BY PublishedIsFirstRow
  DEF NotificationHandles, NotifyOnOrderConfirmed, NotifyOnPaymentFailed, inventoryVars
<1>3. \A c \in Consumers :
         processed'[c] = IF c = NotificationConsumer THEN processed[c] \cup {e}
                                                     ELSE processed[c]
  BY <1>2, ProcessOnceAddsOneEvent
  DEF NotificationHandles, NotifyOnOrderConfirmed, NotifyOnPaymentFailed,
      IInv, TypeOK, BusTypeOK, Consumers
<1>4. \/ /\ e.topic = "orders.confirmed"
         /\ \A q \in Orders : notifications'[q] =
               IF q = o THEN notifications[q] \cup {"ORDER_CONFIRMED"} ELSE notifications[q]
      \/ /\ e.topic = "payments.failed"
         /\ \A q \in Orders : notifications'[q] =
               IF q = o THEN notifications[q] \cup {"PAYMENT_FAILED"} ELSE notifications[q]
  BY <1>2
  DEF NotificationHandles, NotifyOnOrderConfirmed, NotifyOnPaymentFailed, Send,
      IInv, TypeOK, NotificationTypeOK
<1>5. BusInv'
  <2>1. \A u \in Topics, q \in Orders : outbox'[u][q] \in {outbox[u][q], outbox[u][q] + 1}
    BY <1>2
  <2>2. NotificationConsumer \in Consumers
    BY DEF Consumers
  <2> QED
    BY <1>2, <1>3, <2>1, <2>2, HandlingKeepsBusInv
<1>6. CreatedInv' /\ AnnouncedExactlyOnce' /\ LegsInv' /\ StatusInv'
  BY <1>2 DEF CreatedInv, AnnouncedExactlyOnce, LegsInv, StatusInv, IInv
<1>7. PaymentInv' /\ InventoryInv' /\ HandledInv'
  BY <1>2, <1>3
  DEF PaymentInv, InventoryInv, HandledInv, IInv, Consumers, SagaConsumer,
      PaymentConsumer, InventoryConsumer, NotificationConsumer
<1>8. MailInv'
  <2>1. \A q \in Orders :
           /\ EventOf("orders.confirmed", q, 1) = e <=> e.topic = "orders.confirmed" /\ q = o
           /\ EventOf("payments.failed", q, 1) = e <=> e.topic = "payments.failed" /\ q = o
    BY <1>2 DEF EventOf
  <2>2. processed'[NotificationConsumer] = processed[NotificationConsumer] \cup {e}
    BY <1>3 DEF Consumers
  <2>3. ASSUME NEW q \in Orders
        PROVE  /\ "ORDER_CONFIRMED" \in notifications'[q] <=>
                     \/ "ORDER_CONFIRMED" \in notifications[q]
                     \/ e.topic = "orders.confirmed" /\ q = o
               /\ "PAYMENT_FAILED" \in notifications'[q] <=>
                     \/ "PAYMENT_FAILED" \in notifications[q]
                     \/ e.topic = "payments.failed" /\ q = o
    <3>1. CASE q # o
      BY <1>4, <3>1
    <3>2. CASE q = o /\ e.topic = "orders.confirmed"
      <4>1. notifications'[q] = notifications[q] \cup {"ORDER_CONFIRMED"}
        BY <1>4, <3>2
      <4> QED
        BY <3>2, <4>1
    <3>3. CASE q = o /\ e.topic = "payments.failed"
      <4>1. notifications'[q] = notifications[q] \cup {"PAYMENT_FAILED"}
        BY <1>4, <3>3
      <4> QED
        BY <3>3, <4>1
    <3> QED
      BY <1>4, <3>1, <3>2, <3>3
  <2> QED
    BY <2>1, <2>2, <2>3 DEF MailInv, IInv
<1> QED
  BY <1>1, <1>5, <1>6, <1>7, <1>8 DEF IInv

\* What applyLegOutcome does to the order and to its rows, in one formula.
LEMMA ApplyLegOutcomeEffect ==
    ASSUME TypeOK, NEW o \in Orders, NEW row \in OrderRow,
           row.status = orders[o].status, ApplyLegOutcome(o, row)
    PROVE  /\ \A q \in Orders : q # o => orders'[q] = orders[q]
           /\ orders[o].status # "PENDING" => orders'[o] = orders[o]
           /\ orders[o].status = "PENDING" =>
                 /\ orders'[o].paymentStatus = row.paymentStatus
                 /\ orders'[o].inventoryStatus = row.inventoryStatus
                 /\ orders'[o].status = IF AnyLegFailed(row) THEN "CANCELLED"
                                        ELSE IF BothLegsSucceeded(row) THEN "CONFIRMED"
                                        ELSE "PENDING"
           /\ \A u \in Topics, q \in Orders :
                 outbox'[u][q] =
                    IF /\ q = o /\ orders[o].status = "PENDING"
                       /\ \/ u = "orders.cancelled" /\ orders'[o].status = "CANCELLED"
                          \/ u = "orders.confirmed" /\ orders'[o].status = "CONFIRMED"
                    THEN outbox[u][q] + 1 ELSE outbox[u][q]
<1>1. /\ orders \in [Orders -> OrderRow]
      /\ outbox \in [Topics -> [Orders -> Nat]]
      /\ "orders.cancelled" \in Topics /\ "orders.confirmed" \in Topics
  BY DEF TypeOK, BusTypeOK, OrderTypeOK, Topics
<1>2. CASE orders[o].status # "PENDING"
  BY <1>1, <1>2 DEF ApplyLegOutcome
<1>3. CASE orders[o].status = "PENDING" /\ AnyLegFailed(row)
  <2>1. SettleCancelled(o, row)
    BY <1>3 DEF ApplyLegOutcome
  <2>2. orders' = [orders EXCEPT ![o] = [row EXCEPT !.status = "CANCELLED"]]
    BY <2>1 DEF SettleCancelled
  <2>3. /\ orders'[o].status = "CANCELLED"
        /\ orders'[o].paymentStatus = row.paymentStatus
        /\ orders'[o].inventoryStatus = row.inventoryStatus
        /\ \A q \in Orders : q # o => orders'[q] = orders[q]
    BY <1>1, <2>2 DEF OrderRow
  <2>4. \A u \in Topics, q \in Orders :
           outbox'[u][q] = IF u = "orders.cancelled" /\ q = o THEN outbox[u][q] + 1
                                                              ELSE outbox[u][q]
    BY <1>1, <2>1, EnqueueAddsOneRow DEF SettleCancelled
  <2> QED
    BY <1>3, <2>3, <2>4
<1>4. CASE /\ orders[o].status = "PENDING"
           /\ ~AnyLegFailed(row) /\ BothLegsSucceeded(row)
  <2>1. SettleConfirmed(o, row)
    BY <1>4 DEF ApplyLegOutcome
  <2>2. orders' = [orders EXCEPT ![o] = [row EXCEPT !.status = "CONFIRMED"]]
    BY <2>1 DEF SettleConfirmed
  <2>3. /\ orders'[o].status = "CONFIRMED"
        /\ orders'[o].paymentStatus = row.paymentStatus
        /\ orders'[o].inventoryStatus = row.inventoryStatus
        /\ \A q \in Orders : q # o => orders'[q] = orders[q]
    BY <1>1, <2>2 DEF OrderRow
  <2>4. \A u \in Topics, q \in Orders :
           outbox'[u][q] = IF u = "orders.confirmed" /\ q = o THEN outbox[u][q] + 1
                                                              ELSE outbox[u][q]
    BY <1>1, <2>1, EnqueueAddsOneRow DEF SettleConfirmed
  <2> QED
    BY <1>4, <2>3, <2>4
<1>5. CASE /\ orders[o].status = "PENDING"
           /\ ~AnyLegFailed(row) /\ ~BothLegsSucceeded(row)
  <2>1. orders' = [orders EXCEPT ![o] = row] /\ UNCHANGED outbox
    BY <1>5 DEF ApplyLegOutcome
  <2> QED
    BY <1>1, <1>5, <2>1
<1> QED
  BY <1>2, <1>3, <1>4, <1>5

\* A leg outcome keeps the invariant when the new row repeats the facts of the
\* services and undoes no decided leg.
LEMMA ApplyLegOutcomeKeepsIInv ==
    ASSUME IInv, NEW e \in published, SagaHandles(e), ProcessOnce(SagaConsumer, e),
           NEW row \in OrderRow, ApplyLegOutcome(e.orderId, row),
           row.status = orders[e.orderId].status,
           row.paymentStatus = "SUCCEEDED" => payments[e.orderId] = "COMPLETED",
           row.paymentStatus = "FAILED" => payments[e.orderId] = "FAILED",
           row.inventoryStatus = "SUCCEEDED" => reservations[e.orderId] # "NONE",
           row.inventoryStatus = "FAILED" => outbox["inventory.rejected"][e.orderId] = 1,
           row.paymentStatus = "PENDING" => orders[e.orderId].paymentStatus = "PENDING",
           row.inventoryStatus = "PENDING" => orders[e.orderId].inventoryStatus = "PENDING",
           e.topic = "payments.completed" => row.paymentStatus = "SUCCEEDED",
           e.topic = "payments.failed" => row.paymentStatus = "FAILED",
           e.topic = "inventory.reserved" => row.inventoryStatus = "SUCCEEDED",
           e.topic = "inventory.rejected" => row.inventoryStatus = "FAILED"
    PROVE  IInv'
<1> DEFINE o == e.orderId
<1>1. TypeOK'
  BY NextTypeOK DEF Next, IInv
<1>2. /\ o \in Orders
      /\ e \in Event
      /\ e = EventOf(e.topic, o, 1)
      /\ UNCHANGED <<published, payments, reservations, notifications>>
  BY PublishedIsFirstRow
  DEF SagaHandles, OnPaymentCompleted, OnPaymentFailed, OnInventoryReserved,
      OnInventoryRejected, inventoryVars
<1>3. \A c \in Consumers :
         processed'[c] = IF c = SagaConsumer THEN processed[c] \cup {e} ELSE processed[c]
  BY <1>2, ProcessOnceAddsOneEvent DEF IInv, TypeOK, BusTypeOK, Consumers
<1>4. /\ \A q \in Orders : q # o => orders'[q] = orders[q]
      /\ orders[o].status # "PENDING" => orders'[o] = orders[o]
      /\ orders[o].status = "PENDING" =>
            /\ orders'[o].paymentStatus = row.paymentStatus
            /\ orders'[o].inventoryStatus = row.inventoryStatus
            /\ orders'[o].status = IF AnyLegFailed(row) THEN "CANCELLED"
                                   ELSE IF BothLegsSucceeded(row) THEN "CONFIRMED"
                                   ELSE "PENDING"
  BY <1>2, ApplyLegOutcomeEffect DEF IInv
<1>5. \A u \in Topics, q \in Orders :
         outbox'[u][q] =
            IF /\ q = o /\ orders[o].status = "PENDING"
               /\ \/ u = "orders.cancelled" /\ orders'[o].status = "CANCELLED"
                  \/ u = "orders.confirmed" /\ orders'[o].status = "CONFIRMED"
            THEN outbox[u][q] + 1 ELSE outbox[u][q]
  BY <1>2, ApplyLegOutcomeEffect DEF IInv
<1>6. \A u \in Topics, q \in Orders :
         u \notin {"orders.cancelled", "orders.confirmed"} => outbox'[u][q] = outbox[u][q]
  BY <1>5
<1>7. BusInv'
  <2>1. \A u \in Topics, q \in Orders : outbox'[u][q] \in {outbox[u][q], outbox[u][q] + 1}
    BY <1>5
  <2>2. SagaConsumer \in Consumers
    BY DEF Consumers
  <2> QED
    BY <1>2, <1>3, <2>1, <2>2, HandlingKeepsBusInv
<1>8. CreatedInv'
  BY <1>2, <1>4, <1>6 DEF CreatedInv, IInv, Topics
<1>9. PaymentInv'
  BY <1>2, <1>3, <1>6
  DEF PaymentInv, IInv, Topics, Consumers, SagaConsumer, PaymentConsumer
<1>10. InventoryInv'
  BY <1>2, <1>3, <1>4, <1>6
  DEF InventoryInv, IInv, Topics, Consumers, SagaConsumer, InventoryConsumer
<1>11. LegsInv'
  BY <1>2, <1>4, <1>6 DEF LegsInv, IInv, Topics
<1>12. StatusInv'
  BY <1>2, <1>4 DEF StatusInv, IInv, AnyLegFailed, BothLegsSucceeded
<1>13. AnnouncedExactlyOnce'
  BY <1>2, <1>4, <1>5 DEF AnnouncedExactlyOnce, IInv, Topics
<1>14. HandledInv'
  <2>1. \A t \in Topics, q \in Orders : EventOf(t, q, 1) = e <=> t = e.topic /\ q = o
    BY <1>2 DEF EventOf
  <2>2. \A t \in Topics, q \in Orders :
           EventOf(t, q, 1) \in processed'[SagaConsumer] <=>
              \/ EventOf(t, q, 1) \in processed[SagaConsumer]
              \/ t = e.topic /\ q = o
    BY <1>3, <2>1 DEF Consumers
  <2> QED
    BY <1>2, <1>4, <2>2 DEF HandledInv, IInv, Topics, AnyLegFailed, OrderRow, Leg
<1>15. MailInv'
  BY <1>2, <1>3 DEF MailInv, IInv, Consumers, SagaConsumer, NotificationConsumer
<1> QED
  BY <1>1, <1>7, <1>8, <1>9, <1>10, <1>11, <1>12, <1>13, <1>14, <1>15 DEF IInv

\* Each of the four handlers of the saga preserves it.
LEMMA SagaHandlesKeepsIInv ==
    ASSUME IInv, NEW e \in published, SagaHandles(e)
    PROVE  IInv'
<1> DEFINE o == e.orderId
<1>1. /\ o \in Orders
      /\ orders[o] \in OrderRow
      /\ outbox[e.topic][o] = 1
  BY PublishedIsFirstRow DEF IInv, TypeOK, OrderTypeOK
<1>2. CASE OnPaymentCompleted(e)
  <2> DEFINE row == [orders[o] EXCEPT !.paymentStatus = "SUCCEEDED"]
  <2>1. /\ row \in OrderRow /\ row.status = orders[o].status
        /\ row.paymentStatus = "SUCCEEDED"
        /\ row.inventoryStatus = orders[o].inventoryStatus
    BY <1>1 DEF OrderRow, Leg
  <2>2. /\ e.topic = "payments.completed"
        /\ ProcessOnce(SagaConsumer, e) /\ ApplyLegOutcome(o, row)
    BY <1>2 DEF OnPaymentCompleted
  <2>3. payments[o] = "COMPLETED"
    BY <1>1, <2>2 DEF IInv, PaymentInv
  <2>4. /\ orders[o].inventoryStatus = "SUCCEEDED" => reservations[o] # "NONE"
        /\ orders[o].inventoryStatus = "FAILED" => outbox["inventory.rejected"][o] = 1
    BY <1>1 DEF IInv, LegsInv
  <2> HIDE DEF row
  <2> QED
    BY <2>1, <2>2, <2>3, <2>4, ApplyLegOutcomeKeepsIInv
<1>3. CASE OnPaymentFailed(e)
  <2> DEFINE row == [orders[o] EXCEPT !.paymentStatus = "FAILED"]
  <2>1. /\ row \in OrderRow /\ row.status = orders[o].status
        /\ row.paymentStatus = "FAILED"
        /\ row.inventoryStatus = orders[o].inventoryStatus
    BY <1>1 DEF OrderRow, Leg
  <2>2. /\ e.topic = "payments.failed"
        /\ ProcessOnce(SagaConsumer, e) /\ ApplyLegOutcome(o, row)
    BY <1>3 DEF OnPaymentFailed
  <2>3. payments[o] = "FAILED"
    BY <1>1, <2>2 DEF IInv, PaymentInv
  <2>4. /\ orders[o].inventoryStatus = "SUCCEEDED" => reservations[o] # "NONE"
        /\ orders[o].inventoryStatus = "FAILED" => outbox["inventory.rejected"][o] = 1
    BY <1>1 DEF IInv, LegsInv
  <2> HIDE DEF row
  <2> QED
    BY <2>1, <2>2, <2>3, <2>4, ApplyLegOutcomeKeepsIInv
<1>4. CASE OnInventoryReserved(e)
  <2> DEFINE row == [orders[o] EXCEPT !.inventoryStatus = "SUCCEEDED"]
  <2>1. /\ row \in OrderRow /\ row.status = orders[o].status
        /\ row.inventoryStatus = "SUCCEEDED"
        /\ row.paymentStatus = orders[o].paymentStatus
    BY <1>1 DEF OrderRow, Leg
  <2>2. /\ e.topic = "inventory.reserved"
        /\ ProcessOnce(SagaConsumer, e) /\ ApplyLegOutcome(o, row)
    BY <1>4 DEF OnInventoryReserved
  <2>3. reservations[o] # "NONE"
    BY <1>1, <2>2 DEF IInv, InventoryInv
  <2>4. /\ orders[o].paymentStatus = "SUCCEEDED" => payments[o] = "COMPLETED"
        /\ orders[o].paymentStatus = "FAILED" => payments[o] = "FAILED"
    BY <1>1 DEF IInv, LegsInv
  <2> HIDE DEF row
  <2> QED
    BY <2>1, <2>2, <2>3, <2>4, ApplyLegOutcomeKeepsIInv
<1>5. CASE OnInventoryRejected(e)
  <2> DEFINE row == [orders[o] EXCEPT !.inventoryStatus = "FAILED"]
  <2>1. /\ row \in OrderRow /\ row.status = orders[o].status
        /\ row.inventoryStatus = "FAILED"
        /\ row.paymentStatus = orders[o].paymentStatus
    BY <1>1 DEF OrderRow, Leg
  <2>2. /\ e.topic = "inventory.rejected"
        /\ ProcessOnce(SagaConsumer, e) /\ ApplyLegOutcome(o, row)
    BY <1>5 DEF OnInventoryRejected
  <2>3. outbox["inventory.rejected"][o] = 1
    BY <1>1, <2>2
  <2>4. /\ orders[o].paymentStatus = "SUCCEEDED" => payments[o] = "COMPLETED"
        /\ orders[o].paymentStatus = "FAILED" => payments[o] = "FAILED"
    BY <1>1 DEF IInv, LegsInv
  <2> HIDE DEF row
  <2> QED
    BY <2>1, <2>2, <2>3, <2>4, ApplyLegOutcomeKeepsIInv
<1> QED
  BY <1>2, <1>3, <1>4, <1>5 DEF SagaHandles

\* Every step of every process preserves the inductive invariant.
LEMMA NextIInv == IInv /\ [Next]_vars => IInv'
<1> SUFFICES ASSUME IInv, [Next]_vars
             PROVE  IInv'
  OBVIOUS
<1>1. CASE UNCHANGED vars
  <2>1. TypeOK'
    BY NextTypeOK DEF IInv
  <2> QED
    BY <1>1, <2>1
    DEF vars, IInv, BusInv, CreatedInv, PaymentInv, InventoryInv, LegsInv,
        StatusInv, AnnouncedExactlyOnce, HandledInv, MailInv
<1>2. ASSUME NEW e \in published, InventoryHandles(e)
      PROVE  IInv'
  BY <1>2, InventoryCreatedKeepsIInv, InventoryCancelledKeepsIInv DEF InventoryHandles
<1> QED
  BY <1>1, <1>2, PlaceOrderKeepsIInv, RunRelayKeepsIInv, ParkKeepsIInv,
     SagaHandlesKeepsIInv, PaymentHandlesKeepsIInv, NotificationHandlesKeepsIInv
  DEF Next

\* The parts of IInv hold in every reachable state.
THEOREM InductiveInvariant == Spec => []IInv
BY InitIInv, NextIInv, PTL DEF Spec

-----------------------------------------------------------------------------
(***************************************************************************)
(* The properties of the saga.                                             *)
(***************************************************************************)
\* A confirmed status rests on two succeeded legs, and these on the services.
LEMMA ConfirmedHolds == IInv => ConfirmedIsPaidAndHeld
<1> SUFFICES ASSUME IInv, NEW o \in Orders, orders[o].status = "CONFIRMED"
             PROVE  payments[o] = "COMPLETED" /\ reservations[o] = "RESERVED"
  BY DEF ConfirmedIsPaidAndHeld
<1>1. orders[o].paymentStatus = "SUCCEEDED" /\ orders[o].inventoryStatus = "SUCCEEDED"
  BY DEF IInv, StatusInv, BothLegsSucceeded
<1>2. payments[o] = "COMPLETED" /\ reservations[o] # "NONE"
  BY <1>1 DEF IInv, LegsInv
<1>3. reservations[o] # "RELEASED"
  BY DEF IInv, InventoryInv
<1> QED
  BY <1>2, <1>3 DEF IInv, TypeOK, InventoryTypeOK, ReservationStatus

\* A confirmed order is paid for and its stock is held, whatever the order in
\* which outcomes and cancellations reach the services (applyLegOutcome).
THEOREM ConfirmationIsSafe == Spec => []ConfirmedIsPaidAndHeld
BY ConfirmedHolds, InductiveInvariant, PTL

\* An order is cancelled only for a failed leg, and only then is its stock
\* given back (settleCancelled, release).
THEOREM CancellationIsJustified == Spec => []CancelledForAReason
<1>1. IInv => CancelledForAReason
  <2> SUFFICES ASSUME IInv, NEW o \in Orders
               PROVE  /\ orders[o].status = "CANCELLED" =>
                            \/ payments[o] = "FAILED"
                            \/ outbox["inventory.rejected"][o] > 0
                      /\ reservations[o] = "RELEASED" => orders[o].status = "CANCELLED"
    BY DEF CancelledForAReason
  <2>1. ASSUME orders[o].status = "CANCELLED"
        PROVE  payments[o] = "FAILED" \/ outbox["inventory.rejected"][o] = 1
    BY <2>1 DEF IInv, LegsInv, StatusInv, AnyLegFailed
  <2>2. reservations[o] = "RELEASED" => orders[o].status = "CANCELLED"
    BY DEF IInv, InventoryInv
  <2> QED
    BY <2>1, <2>2
<1> QED
  BY <1>1, InductiveInvariant, PTL

\* The end of an order is announced once, by the topic of its status.
THEOREM AnnouncementIsUnique == Spec => []AnnouncedExactlyOnce
<1>1. IInv => AnnouncedExactlyOnce
  BY DEF IInv
<1> QED
  BY <1>1, InductiveInvariant, PTL

\* Each leg of an order has at most one outcome, under any redelivery.
THEOREM OutcomesAreUnique == Spec => []OneOutcomePerLeg
<1>1. IInv => OneOutcomePerLeg
  <2> SUFFICES ASSUME IInv, NEW o \in Orders
               PROVE  /\ outbox["payments.completed"][o]
                            + outbox["payments.failed"][o] <= 1
                      /\ outbox["inventory.reserved"][o]
                            + outbox["inventory.rejected"][o] <= 1
    BY DEF OneOutcomePerLeg
  <2>1. \/ outbox["payments.completed"][o] = 0 /\ outbox["payments.failed"][o] \in {0, 1}
        \/ outbox["payments.completed"][o] = 1 /\ outbox["payments.failed"][o] = 0
    BY DEF IInv, PaymentInv
  <2>2. \/ outbox["inventory.reserved"][o] = 0 /\ outbox["inventory.rejected"][o] \in {0, 1}
        \/ outbox["inventory.reserved"][o] = 1 /\ outbox["inventory.rejected"][o] = 0
    BY DEF IInv, InventoryInv
  <2> QED
    BY <2>1, <2>2
<1> QED
  BY <1>1, InductiveInvariant, PTL

\* A mail was sent for an event, and the event tells the state of the order.
LEMMA MailsMatch == IInv => MailsTellTheTruth
<1> SUFFICES ASSUME IInv, NEW o \in Orders
             PROVE  /\ "ORDER_CONFIRMED" \in notifications[o] =>
                          orders[o].status = "CONFIRMED"
                    /\ "PAYMENT_FAILED" \in notifications[o] =>
                          payments[o] = "FAILED" /\ orders[o].status # "CONFIRMED"
  BY DEF MailsTellTheTruth
<1>1. ASSUME "ORDER_CONFIRMED" \in notifications[o]
      PROVE  orders[o].status = "CONFIRMED"
  <2>1. outbox["orders.confirmed"][o] = 1
    BY <1>1, HandledIsStaged DEF IInv, MailInv, Consumers, Topics
  <2> QED
    BY <2>1 DEF IInv, AnnouncedExactlyOnce
<1>2. ASSUME "PAYMENT_FAILED" \in notifications[o]
      PROVE  payments[o] = "FAILED" /\ orders[o].status # "CONFIRMED"
  <2>1. outbox["payments.failed"][o] = 1
    BY <1>2, HandledIsStaged DEF IInv, MailInv, Consumers, Topics
  <2>2. payments[o] = "FAILED"
    BY <2>1 DEF IInv, PaymentInv
  <2> QED
    BY <2>2 DEF IInv, StatusInv, LegsInv, BothLegsSucceeded
<1> QED
  BY <1>1, <1>2

\* No mail contradicts the order it is about.
THEOREM MailsAreTruthful == Spec => []MailsTellTheTruth
BY MailsMatch, InductiveInvariant, PTL

\* No leg is ever lost: once every event is published and handled, each placed
\* order is settled and its customer has the mail that is due.
THEOREM NothingIsLeftPending == Spec => []DrainedIsSettled
<1>1. IInv => DrainedIsSettled
  <2> SUFFICES ASSUME IInv, Drained, NEW o \in Orders
               PROVE  /\ orders[o].status # "PENDING"
                      /\ orders[o].status = "CONFIRMED" =>
                            notifications[o] = {"ORDER_CONFIRMED"}
                      /\ payments[o] = "FAILED" =>
                            notifications[o] = {"PAYMENT_FAILED"}
    BY DEF DrainedIsSettled
  <2>1. ASSUME NEW t \in Topics, outbox[t][o] = 1,
               NEW c \in Consumers, t \in Subscriptions(c)
        PROVE  EventOf(t, o, 1) \in processed[c]
    BY <2>1 DEF Drained
  <2>2. /\ {"payments.completed", "payments.failed", "inventory.reserved",
             "inventory.rejected"} \subseteq Subscriptions(SagaConsumer)
        /\ "orders.created" \in Subscriptions(PaymentConsumer)
        /\ "orders.created" \in Subscriptions(InventoryConsumer)
        /\ {"orders.confirmed", "payments.failed"} \subseteq
              Subscriptions(NotificationConsumer)
    BY DEF Subscriptions, SagaConsumer, PaymentConsumer, InventoryConsumer,
           NotificationConsumer
  <2>3. orders[o].status # "PENDING"
    <3> SUFFICES ASSUME orders[o].status = "PENDING"
                 PROVE  FALSE
      OBVIOUS
    <3>1. outbox["orders.created"][o] = 1
      BY DEF IInv, CreatedInv
    <3>2. orders[o].paymentStatus = "SUCCEEDED"
      <4>1. EventOf("orders.created", o, 1) \in processed[PaymentConsumer]
        BY <2>1, <2>2, <3>1 DEF Topics, Consumers
      <4>2. payments[o] = "COMPLETED" \/ payments[o] = "FAILED"
        BY <4>1 DEF IInv, PaymentInv, TypeOK, PaymentTypeOK, PaymentStatus
      <4>3. \/ outbox["payments.completed"][o] = 1
            \/ outbox["payments.failed"][o] = 1
        BY <4>2 DEF IInv, PaymentInv
      <4>4. \/ EventOf("payments.completed", o, 1) \in processed[SagaConsumer]
            \/ EventOf("payments.failed", o, 1) \in processed[SagaConsumer]
        BY <2>1, <2>2, <4>3 DEF Topics, Consumers
      <4> QED
        BY <4>4 DEF IInv, HandledInv
    <3>3. orders[o].inventoryStatus = "SUCCEEDED"
      <4>1. EventOf("orders.created", o, 1) \in processed[InventoryConsumer]
        BY <2>1, <2>2, <3>1 DEF Topics, Consumers
      <4>2. \/ outbox["inventory.reserved"][o] = 1
            \/ outbox["inventory.rejected"][o] = 1
        BY <4>1 DEF IInv, InventoryInv
      <4>3. \/ EventOf("inventory.reserved", o, 1) \in processed[SagaConsumer]
            \/ EventOf("inventory.rejected", o, 1) \in processed[SagaConsumer]
        BY <2>1, <2>2, <4>2 DEF Topics, Consumers
      <4> QED
        BY <4>3 DEF IInv, HandledInv
    <3> QED
      BY <3>2, <3>3 DEF IInv, StatusInv, BothLegsSucceeded
  <2>4. /\ notifications[o] \subseteq {"ORDER_CONFIRMED", "PAYMENT_FAILED"}
        /\ "ORDER_CONFIRMED" \in notifications[o] => orders[o].status = "CONFIRMED"
        /\ "PAYMENT_FAILED" \in notifications[o] =>
              payments[o] = "FAILED" /\ orders[o].status # "CONFIRMED"
    BY MailsMatch DEF IInv, TypeOK, NotificationTypeOK, NotificationKind, MailsTellTheTruth
  <2>5. ASSUME orders[o].status = "CONFIRMED"
        PROVE  notifications[o] = {"ORDER_CONFIRMED"}
    <3>1. outbox["orders.confirmed"][o] = 1
      BY <2>5 DEF IInv, AnnouncedExactlyOnce
    <3>2. EventOf("orders.confirmed", o, 1) \in processed[NotificationConsumer]
      BY <2>1, <2>2, <3>1 DEF Topics, Consumers
    <3>3. "ORDER_CONFIRMED" \in notifications[o]
      BY <3>2 DEF IInv, MailInv
    <3> QED
      BY <2>4, <2>5, <3>3
  <2>6. ASSUME payments[o] = "FAILED"
        PROVE  notifications[o] = {"PAYMENT_FAILED"}
    <3>1. outbox["payments.failed"][o] = 1
      BY <2>6 DEF IInv, PaymentInv
    <3>2. EventOf("payments.failed", o, 1) \in processed[NotificationConsumer]
      BY <2>1, <2>2, <3>1 DEF Topics, Consumers
    <3>3. "PAYMENT_FAILED" \in notifications[o]
      BY <3>2 DEF IInv, MailInv
    <3> QED
      BY <2>4, <3>3
  <2> QED
    BY <2>3, <2>5, <2>6
<1> QED
  BY <1>1, InductiveInvariant, PTL

\* reserve() oversells a product to one order alone, if at all, and by no more
\* than what that order's lines take beside the largest of them, which is the
\* one the availability check has compared with the stock.
THEOREM OversellingIsBounded == Spec => []OversoldByOneOrder
<1>1. Init => OversoldByOneOrder
  BY StockAssumption DEF Init, InventoryInit, OversoldByOneOrder
<1>2. TypeOK /\ OversoldByOneOrder /\ [Next]_vars => OversoldByOneOrder'
  <2> SUFFICES ASSUME TypeOK, OversoldByOneOrder, [Next]_vars,
                      NEW p \in Products, available'[p] < 0
               PROVE  \E o \in Orders :
                          /\ reservations'[o] = "RESERVED"
                          /\ available'[p] + Quantity[o][p] >= LargestLine[o][p]
    BY DEF OversoldByOneOrder
  <2>1. /\ available \in [Products -> Int]
        /\ reservations \in [Orders -> ReservationStatus \cup {"NONE"}]
    BY DEF TypeOK, InventoryTypeOK
  <2>2. available[p] \in Int
    BY <2>1
  <2>3. \A o \in Orders :
            /\ Quantity[o][p] \in Nat /\ LargestLine[o][p] \in Nat
            /\ LargestLine[o][p] <= Quantity[o][p]
            /\ LargestLine[o][p] = 0 => Quantity[o][p] = 0
    BY LinesAssumption
  <2>4. CASE UNCHANGED <<available, reservations>>
    BY <2>4 DEF OversoldByOneOrder
  <2>5. ASSUME NEW e \in published, InventoryHandles(e)
        PROVE  \E o \in Orders :
                   /\ reservations'[o] = "RESERVED"
                   /\ available'[p] + Quantity[o][p] >= LargestLine[o][p]
    <3> DEFINE q == e.orderId
    <3>1. q \in Orders
      BY DEF TypeOK, BusTypeOK, Event
    <3>2. CASE Reserve(q)
      <4>1. /\ available'[p] = available[p] - Quantity[q][p]
            /\ reservations' = [reservations EXCEPT ![q] = "RESERVED"]
        BY <3>2 DEF Reserve
      <4>2. ~(LargestLine[q][p] > 0 /\ available[p] < LargestLine[q][p])
        BY <3>2 DEF Reserve, Shortfalls
      <4>3. CASE LargestLine[q][p] > 0
        <5>1. available'[p] + Quantity[q][p] >= LargestLine[q][p]
          BY <2>2, <2>3, <3>1, <4>1, <4>2, <4>3
        <5> QED
          BY <2>1, <3>1, <4>1, <5>1
      <4>4. CASE ~(LargestLine[q][p] > 0)
        <5>1. available'[p] = available[p]
          BY <2>2, <2>3, <3>1, <4>1, <4>4
        <5>2. PICK o \in Orders :
                  /\ reservations[o] = "RESERVED"
                  /\ available[p] + Quantity[o][p] >= LargestLine[o][p]
          BY <5>1 DEF OversoldByOneOrder
        <5>3. reservations'[o] = "RESERVED"
          BY <2>1, <4>1, <5>2
        <5> QED
          BY <5>1, <5>2, <5>3
      <4> QED
        BY <4>3, <4>4
    <3>3. CASE Reject(q)
      BY <2>4, <3>3 DEF Reject, inventoryVars
    <3>4. CASE Release(q) /\ reservations[q] # "RESERVED"
      BY <2>4, <3>4 DEF Release, inventoryVars
    <3>5. CASE Release(q) /\ reservations[q] = "RESERVED"
      <4>1. /\ available'[p] = available[p] + Quantity[q][p]
            /\ reservations' = [reservations EXCEPT ![q] = "RELEASED"]
        BY <3>5 DEF Release
      <4>2. available[p] < 0
        BY <2>2, <2>3, <3>1, <4>1
      <4>3. PICK o \in Orders :
                /\ reservations[o] = "RESERVED"
                /\ available[p] + Quantity[o][p] >= LargestLine[o][p]
        BY <4>2 DEF OversoldByOneOrder
      <4>4. o # q
        BY <2>2, <2>3, <3>1, <4>1, <4>3
      <4>5. /\ reservations'[o] = "RESERVED"
            /\ available'[p] + Quantity[o][p] >= LargestLine[o][p]
        BY <2>1, <2>2, <2>3, <3>1, <4>1, <4>3, <4>4
      <4> QED
        BY <4>5
    <3> QED
      BY <2>5, <3>2, <3>3, <3>4, <3>5
      DEF InventoryHandles, InventoryOnOrderCreated, InventoryOnOrderCancelled
  <2> QED
    BY <2>4, <2>5
    DEF Next, vars, inventoryVars, PlaceOrder, RunRelay, SagaHandles,
        PaymentHandles, NotificationHandles, Park
<1> QED
  BY <1>1, <1>2, TypeCorrect, PTL DEF Spec

-----------------------------------------------------------------------------
(***************************************************************************)
(* The counters of a product and the reservations that stand behind them.  *)
(* A reservation enters the sum when it is made and leaves it when it is   *)
(* released, and each time both counters move by what it holds.            *)
(***************************************************************************)
Held == {o \in Orders : reservations[o] = "RESERVED"}

QuantityFor(p) == [o \in Orders |-> Quantity[o][p]]

\* Only finitely many orders can have been handled.
StockInv == IsFiniteSet(Held) /\ StockIsAccountedFor

LEMMA QuantitiesAreNaturals ==
    ASSUME NEW p \in Products
    PROVE  \A o \in Orders : QuantityFor(p)[o] = Quantity[o][p] /\ Quantity[o][p] \in Nat
BY LinesAssumption DEF QuantityFor

LEMMA HeldStockIsSum ==
    ASSUME NEW p \in Products
    PROVE  HeldStock(p) = SumFunctionOnSet(QuantityFor(p), Held)
BY DEF HeldStock, QuantityFor, Held

\* A reservation that is made: one more is held.
LEMMA ReserveKeepsStockInv ==
    ASSUME TypeOK, StockInv, NEW o \in Orders, Reserve(o)
    PROVE  StockInv'
<1>1. /\ o \notin Held
      /\ Held' = Held \cup {o}
  BY DEF Reserve, Held, TypeOK, InventoryTypeOK
<1>2. IsFiniteSet(Held) /\ IsFiniteSet(Held')
  BY <1>1, FS_AddElement DEF StockInv
<1>3. ASSUME NEW p \in Products
      PROVE  /\ reserved'[p] = HeldStock(p)'
             /\ available'[p] + reserved'[p] = DefaultStock
  <2>1. /\ available[p] \in Int /\ reserved[p] \in Int /\ Quantity[o][p] \in Nat
        /\ available'[p] = available[p] - Quantity[o][p]
        /\ reserved'[p] = reserved[p] + Quantity[o][p]
    BY LinesAssumption DEF Reserve, TypeOK, InventoryTypeOK
  <2>2. /\ reserved[p] = SumFunctionOnSet(QuantityFor(p), Held)
        /\ available[p] + reserved[p] = DefaultStock
    BY HeldStockIsSum DEF StockInv, StockIsAccountedFor
  <2>3. SumFunctionOnSet(QuantityFor(p), Held \cup {o})
           = Quantity[o][p] + SumFunctionOnSet(QuantityFor(p), Held)
    <3>1. \A q \in Held \cup {o} : QuantityFor(p)[q] \in Int
      BY QuantitiesAreNaturals DEF Held
    <3> HIDE DEF Held
    <3> QED
      BY <1>1, <1>2, <3>1, SumPutsIn, QuantitiesAreNaturals
  <2>4. HeldStock(p)' = SumFunctionOnSet(QuantityFor(p), Held')
    BY DEF HeldStock, QuantityFor, Held
  <2> QED
    BY <1>1, <2>1, <2>2, <2>3, <2>4, StockAssumption
<1> QED
  BY <1>2, <1>3 DEF StockInv, StockIsAccountedFor

\* A reservation that is released: one less is held.
LEMMA ReleaseKeepsStockInv ==
    ASSUME TypeOK, StockInv, NEW o \in Orders, Release(o), reservations[o] = "RESERVED"
    PROVE  StockInv'
<1>1. /\ o \in Held
      /\ Held' = Held \ {o}
  BY DEF Release, Held, TypeOK, InventoryTypeOK
<1>2. IsFiniteSet(Held) /\ IsFiniteSet(Held')
  BY <1>1, FS_RemoveElement DEF StockInv
<1>3. ASSUME NEW p \in Products
      PROVE  /\ reserved'[p] = HeldStock(p)'
             /\ available'[p] + reserved'[p] = DefaultStock
  <2>1. /\ available[p] \in Int /\ reserved[p] \in Int /\ Quantity[o][p] \in Nat
        /\ available'[p] = available[p] + Quantity[o][p]
        /\ reserved'[p] = reserved[p] - Quantity[o][p]
    BY LinesAssumption DEF Release, TypeOK, InventoryTypeOK
  <2>2. /\ reserved[p] = SumFunctionOnSet(QuantityFor(p), Held)
        /\ available[p] + reserved[p] = DefaultStock
    BY HeldStockIsSum DEF StockInv, StockIsAccountedFor
  <2>3. /\ SumFunctionOnSet(QuantityFor(p), Held)
              = Quantity[o][p] + SumFunctionOnSet(QuantityFor(p), Held \ {o})
        /\ SumFunctionOnSet(QuantityFor(p), Held \ {o}) \in Int
    <3>1. \A q \in Held : QuantityFor(p)[q] \in Int
      BY QuantitiesAreNaturals DEF Held
    <3>2. \A q \in Held \ {o} : QuantityFor(p)[q] \in Int
      BY <3>1
    <3> HIDE DEF Held
    <3> QED
      BY <1>1, <1>2, <3>1, <3>2, SumTakesOut, SumIsInt, QuantitiesAreNaturals
  <2>4. HeldStock(p)' = SumFunctionOnSet(QuantityFor(p), Held')
    BY DEF HeldStock, QuantityFor, Held
  <2> QED
    BY <1>1, <2>1, <2>2, <2>3, <2>4, StockAssumption
<1> QED
  BY <1>2, <1>3 DEF StockInv, StockIsAccountedFor

LEMMA InitStockInv == Init => StockInv
<1> SUFFICES ASSUME Init PROVE StockInv
  OBVIOUS
<1>1. Held = {}
  BY DEF Init, InventoryInit, Held
<1>2. \A p \in Products : HeldStock(p) = 0
  BY <1>1, HeldStockIsSum, SumOfNone
<1> QED
  BY <1>1, <1>2, FS_EmptySet, StockAssumption
  DEF Init, InventoryInit, StockInv, StockIsAccountedFor

LEMMA NextStockInv == TypeOK /\ StockInv /\ [Next]_vars => StockInv'
<1> SUFFICES ASSUME TypeOK, StockInv, [Next]_vars PROVE StockInv'
  OBVIOUS
<1>1. ASSUME UNCHANGED inventoryVars PROVE StockInv'
  BY <1>1 DEF inventoryVars, StockInv, StockIsAccountedFor, HeldStock, Held
<1>2. ASSUME NEW e \in published, InventoryHandles(e) PROVE StockInv'
  <2>1. e.orderId \in Orders
    BY DEF TypeOK, BusTypeOK, Event
  <2>2. \/ UNCHANGED inventoryVars
        \/ Reserve(e.orderId)
        \/ Release(e.orderId) /\ reservations[e.orderId] = "RESERVED"
    BY <1>2
    DEF InventoryHandles, InventoryOnOrderCreated, InventoryOnOrderCancelled, Reject, Release
  <2> QED
    BY <1>1, <2>1, <2>2, ReserveKeepsStockInv, ReleaseKeepsStockInv
<1>3. CASE \E o \in Orders : PlaceOrder(o)
  BY <1>1, <1>3 DEF PlaceOrder
<1>4. CASE \E s \in Producers : RunRelay(s)
  BY <1>1, <1>4 DEF RunRelay
<1>5. CASE \E e \in published : SagaHandles(e) \/ PaymentHandles(e) \/ NotificationHandles(e)
  BY <1>1, <1>5 DEF SagaHandles, PaymentHandles, NotificationHandles
<1>6. CASE \E c \in Consumers : Park(c)
  BY <1>1, <1>6 DEF Park
<1>7. CASE UNCHANGED vars
  BY <1>1, <1>7 DEF vars, inventoryVars
<1> QED
  BY <1>2, <1>3, <1>4, <1>5, <1>6, <1>7 DEF Next

\* What is set aside of a product is what the live reservations hold, and with
\* what is available it is the stock there was: no delivery, redelivery or
\* cancellation of any number of orders loses a unit or returns one twice.
THEOREM StockAddsUp == Spec => []StockIsAccountedFor
<1>1. StockInv => StockIsAccountedFor
  BY DEF StockInv
<1> QED
  BY <1>1, TypeCorrect, InitStockInv, NextStockInv, PTL DEF Spec

-----------------------------------------------------------------------------
(***************************************************************************)
(* The saga implements the contract.                                       *)
(***************************************************************************)
\* The contract's view of the state, order by order.
OrdersView == [o \in Orders |-> orders[o].status]
StockView == [o \in Orders |-> StockOf(o)]

\* The saga starts where the contract starts.
LEMMA InitRefines == Init => Contract!Init
BY DEF Init, BusInit, OrderInit, PaymentInit, InventoryInit, NotificationInit,
       Contract!Init, StockOf, Topics

\* A step that changes none of the contract's variables is invisible to it.
LEMMA StockViewKept ==
    ASSUME UNCHANGED reservations,
           \A o \in Orders :
              outbox'["inventory.rejected"][o] = outbox["inventory.rejected"][o]
    PROVE  StockView' = StockView
BY DEF StockView, StockOf

\* Each step of a service is one step of the contract, or none.
LEMMA StepRefines == IInv /\ [Next]_vars => [Contract!Next]_(Contract!contractVars)
<1> SUFFICES ASSUME IInv, [Next]_vars
             PROVE  \/ Contract!Next
                    \/ /\ UNCHANGED <<OrdersView, payments, StockView, notifications>>
  BY DEF Contract!contractVars, OrdersView, StockView
<1> USE DEF OrdersView, StockView
<1>0. TypeOK
  BY DEF IInv
<1>1. ASSUME NEW o \in Orders, PlaceOrder(o)
      PROVE  Contract!Next
  <2>1. orders[o].status = "ABSENT" /\ UNCHANGED <<payments, reservations, notifications>>
    BY <1>1 DEF PlaceOrder, CreateOrder, inventoryVars
  <2>2. OrdersView' = [OrdersView EXCEPT ![o] = "PENDING"]
    BY <1>0, <1>1 DEF PlaceOrder, CreateOrder, TypeOK, OrderTypeOK, OrderRow
  <2>3. \A q \in Orders : outbox'["inventory.rejected"][q] = outbox["inventory.rejected"][q]
    BY <1>0, <1>1, EnqueueAddsOneRow
    DEF PlaceOrder, CreateOrder, TypeOK, BusTypeOK, Topics
  <2>4. StockView' = StockView
    BY <2>1, <2>3, StockViewKept
  <2> QED
    BY <2>1, <2>2, <2>4 DEF Contract!Next, Contract!Place
<1>2. ASSUME NEW e \in published, PaymentHandles(e)
      PROVE  Contract!Next
  <2> DEFINE o == e.orderId
  <2>1. /\ o \in Orders /\ e.topic = "orders.created"
        /\ outbox["orders.created"][o] = 1
        /\ payments[o] = "NONE"
        /\ UNCHANGED <<orders, reservations, notifications>>
    BY <1>2, PublishedIsFirstRow
    DEF PaymentHandles, PaymentOnOrderCreated, Charge, inventoryVars
  <2>2. orders[o].status # "ABSENT"
    BY <2>1 DEF IInv, CreatedInv
  <2>3. \E outcome \in {"COMPLETED", "FAILED"} :
           payments' = [payments EXCEPT ![o] = outcome]
    BY <1>2 DEF PaymentHandles, PaymentOnOrderCreated, Charge
  <2>4. \A q \in Orders : outbox'["inventory.rejected"][q] = outbox["inventory.rejected"][q]
    BY <1>0, <1>2, <2>1, EnqueueAddsOneRow
    DEF PaymentHandles, PaymentOnOrderCreated, Charge, TypeOK, BusTypeOK, Topics
  <2>5. StockView' = StockView
    BY <2>1, <2>4, StockViewKept
  <2> QED
    BY <2>1, <2>2, <2>3, <2>5 DEF Contract!Next, Contract!ChargeCard
<1>3. ASSUME NEW e \in published, InventoryHandles(e), InventoryOnOrderCreated(e)
      PROVE  Contract!Next
  <2> DEFINE o == e.orderId
  <2>1. /\ o \in Orders /\ e = EventOf("orders.created", o, 1)
        /\ outbox["orders.created"][o] = 1
        /\ UNCHANGED <<orders, payments, notifications>>
    BY <1>3, PublishedIsFirstRow DEF InventoryHandles, InventoryOnOrderCreated
  <2>2. orders[o].status # "ABSENT"
    BY <2>1 DEF IInv, CreatedInv
  <2>3. reservations[o] = "NONE" /\ outbox["inventory.rejected"][o] = 0
    BY <1>3, <2>1 DEF InventoryOnOrderCreated, ProcessOnce, IInv, InventoryInv
  <2>4. PICK t \in {"inventory.reserved", "inventory.rejected"} :
           /\ Enqueue(t, o)
           /\ reservations' = IF t = "inventory.reserved"
                                THEN [reservations EXCEPT ![o] = "RESERVED"]
                                ELSE reservations
    BY <1>3 DEF InventoryOnOrderCreated, Reject, Reserve, inventoryVars
  <2>5. \A q \in Orders : outbox'["inventory.rejected"][q] =
           IF q = o /\ t = "inventory.rejected" THEN outbox["inventory.rejected"][q] + 1
                                                ELSE outbox["inventory.rejected"][q]
    BY <1>0, <2>1, <2>4, EnqueueAddsOneRow DEF TypeOK, BusTypeOK, Topics
  <2>6. \A q \in Orders : reservations'[q] =
           IF q = o /\ t = "inventory.reserved" THEN "RESERVED" ELSE reservations[q]
    BY <1>0, <2>1, <2>4 DEF TypeOK, InventoryTypeOK
  <2>7. StockView[o] = "NONE"
    BY <2>1, <2>3 DEF StockOf
  <2>8. StockView' = [StockView EXCEPT
           ![o] = IF t = "inventory.reserved" THEN "RESERVED" ELSE "REFUSED"]
    <3>1. \A q \in Orders : q # o => StockView'[q] = StockView[q]
      BY <2>5, <2>6 DEF StockOf
    <3>2. StockView'[o] = IF t = "inventory.reserved" THEN "RESERVED" ELSE "REFUSED"
      <4>1. CASE t = "inventory.reserved"
        BY <2>1, <2>6, <4>1 DEF StockOf
      <4>2. CASE t = "inventory.rejected"
        <5>1. outbox'["inventory.rejected"][o] = 1 /\ reservations'[o] = "NONE"
          BY <2>1, <2>3, <2>5, <2>6, <4>2
        <5> QED
          BY <2>1, <4>2, <5>1 DEF StockOf
      <4> QED
        BY <4>1, <4>2
    <3> QED
      BY <3>1, <3>2
  <2> QED
    BY <2>1, <2>2, <2>7, <2>8 DEF Contract!Next, Contract!DecideStock
<1>4. ASSUME NEW e \in published, InventoryHandles(e), InventoryOnOrderCancelled(e)
      PROVE  \/ Contract!Next
             \/ UNCHANGED <<OrdersView, payments, StockView, notifications>>
  <2> DEFINE o == e.orderId
  <2>1. /\ o \in Orders /\ e.topic = "orders.cancelled"
        /\ outbox["orders.cancelled"][o] = 1
        /\ UNCHANGED <<outbox, orders, payments, notifications>>
    BY <1>4, PublishedIsFirstRow DEF InventoryHandles, InventoryOnOrderCancelled
  <2>2. orders[o].status = "CANCELLED"
    BY <2>1 DEF IInv, AnnouncedExactlyOnce
  <2>3. CASE UNCHANGED reservations
    BY <2>1, <2>3, StockViewKept
  <2>4. CASE /\ reservations[o] = "RESERVED"
             /\ reservations' = [reservations EXCEPT ![o] = "RELEASED"]
    <3>1. \A q \in Orders :
             reservations'[q] = IF q = o THEN "RELEASED" ELSE reservations[q]
      BY <1>0, <2>4 DEF TypeOK, InventoryTypeOK
    <3>2. StockView' = [StockView EXCEPT ![o] = "RELEASED"]
      BY <2>1, <3>1 DEF StockOf
    <3>3. StockView[o] = "RESERVED"
      BY <2>1, <2>4 DEF StockOf
    <3> QED
      BY <2>1, <2>2, <3>2, <3>3 DEF Contract!Next, Contract!ReturnStock
  <2> QED
    BY <1>4, <2>3, <2>4 DEF InventoryOnOrderCancelled, Release, inventoryVars
<1>5. ASSUME NEW e \in published, NotificationHandles(e)
      PROVE  Contract!Next
  <2> DEFINE o == e.orderId
  <2>1. /\ o \in Orders
        /\ outbox[e.topic][o] = 1
        /\ UNCHANGED <<outbox, orders, payments, reservations>>
    BY <1>5, PublishedIsFirstRow
    DEF NotificationHandles, NotifyOnOrderConfirmed, NotifyOnPaymentFailed, inventoryVars
  <2>2. \E kind \in {"ORDER_CONFIRMED", "PAYMENT_FAILED"} \ notifications[o] :
           /\ kind = "ORDER_CONFIRMED" => orders[o].status = "CONFIRMED"
           /\ kind = "PAYMENT_FAILED" => payments[o] = "FAILED"
           /\ notifications' = [notifications EXCEPT ![o] = @ \cup {kind}]
    <3>1. CASE NotifyOnOrderConfirmed(e)
      <4>1. orders[o].status = "CONFIRMED"
        BY <2>1, <3>1 DEF NotifyOnOrderConfirmed, IInv, AnnouncedExactlyOnce
      <4> QED
        BY <3>1, <4>1 DEF NotifyOnOrderConfirmed, Send
    <3>2. CASE NotifyOnPaymentFailed(e)
      <4>1. payments[o] = "FAILED"
        BY <2>1, <3>2 DEF NotifyOnPaymentFailed, IInv, PaymentInv
      <4> QED
        BY <3>2, <4>1 DEF NotifyOnPaymentFailed, Send
    <3> QED
      BY <1>5, <3>1, <3>2 DEF NotificationHandles
  <2>3. StockView' = StockView
    BY <2>1, StockViewKept
  <2> QED
    BY <2>1, <2>2, <2>3 DEF Contract!Next, Contract!SendMail
<1>6. ASSUME NEW e \in published, SagaHandles(e)
      PROVE  \/ Contract!Next
             \/ UNCHANGED <<OrdersView, payments, StockView, notifications>>
  <2> DEFINE o == e.orderId
  <2>1. /\ o \in Orders /\ orders[o] \in OrderRow
        /\ UNCHANGED <<payments, reservations, notifications>>
    BY <1>0, <1>6, PublishedIsFirstRow
    DEF SagaHandles, inventoryVars, TypeOK, OrderTypeOK
  <2>2. PICK row \in OrderRow : row.status = orders[o].status /\ ApplyLegOutcome(o, row)
    <3>1. \A x \in Leg :
             /\ [orders[o] EXCEPT !.paymentStatus = x] \in OrderRow
             /\ [orders[o] EXCEPT !.paymentStatus = x].status = orders[o].status
             /\ [orders[o] EXCEPT !.inventoryStatus = x] \in OrderRow
             /\ [orders[o] EXCEPT !.inventoryStatus = x].status = orders[o].status
      BY <2>1 DEF OrderRow
    <3> QED
      BY <1>6, <3>1
      DEF SagaHandles, OnPaymentCompleted, OnPaymentFailed, OnInventoryReserved,
          OnInventoryRejected, Leg
  <2>3. /\ \A q \in Orders : q # o => orders'[q] = orders[q]
        /\ orders[o].status # "PENDING" => orders'[o] = orders[o]
        /\ orders[o].status = "PENDING" =>
              orders'[o].status = IF AnyLegFailed(row) THEN "CANCELLED"
                                 ELSE IF BothLegsSucceeded(row) THEN "CONFIRMED"
                                 ELSE "PENDING"
        /\ \A q \in Orders : outbox'["inventory.rejected"][q] = outbox["inventory.rejected"][q]
    BY <1>0, <2>1, <2>2, ApplyLegOutcomeEffect DEF Topics
  <2>4. StockView' = StockView
    BY <2>1, <2>3, StockViewKept
  <2>5. OrdersView' = [OrdersView EXCEPT ![o] = orders'[o].status]
    BY <2>1, <2>3
  <2>6. CASE orders'[o].status = orders[o].status
    BY <2>1, <2>4, <2>5, <2>6
  <2>7. CASE orders'[o].status # orders[o].status
    <3>1. orders[o].status = "PENDING" /\ orders'[o].status \in {"CANCELLED", "CONFIRMED"}
      BY <2>3, <2>7
    <3>2. IInv'
      BY <1>6, SagaHandlesKeepsIInv
    <3>3. CASE orders'[o].status = "CONFIRMED"
      <4>1. payments'[o] = "COMPLETED" /\ reservations'[o] = "RESERVED"
        <5>1. ConfirmedIsPaidAndHeld'
          BY <3>2, ConfirmedHolds, PTL
        <5> QED
          BY <2>1, <3>3, <5>1 DEF ConfirmedIsPaidAndHeld
      <4>2. payments[o] = "COMPLETED" /\ StockView[o] = "RESERVED"
        BY <2>1, <4>1 DEF StockOf
      <4> QED
        BY <2>1, <2>4, <2>5, <3>1, <3>3, <4>2 DEF Contract!Next, Contract!Confirm
    <3>4. CASE orders'[o].status = "CANCELLED"
      <4>1. payments[o] = "FAILED" \/ outbox["inventory.rejected"][o] = 1
        BY <2>1, <2>3, <3>2, <3>4 DEF IInv, StatusInv, LegsInv, AnyLegFailed
      <4>2. payments[o] = "FAILED" \/ StockView[o] = "REFUSED"
        BY <2>1, <4>1 DEF StockOf, IInv, InventoryInv
      <4> QED
        BY <2>1, <2>4, <2>5, <3>1, <3>4, <4>2 DEF Contract!Next, Contract!Cancel
    <3> QED
      BY <3>1, <3>3, <3>4
  <2> QED
    BY <2>6, <2>7
<1>7. ASSUME \/ \E s \in Producers : RunRelay(s)
             \/ \E c \in Consumers : Park(c)
             \/ UNCHANGED vars
      PROVE  UNCHANGED <<OrdersView, payments, StockView, notifications>>
  <2>1. UNCHANGED <<outbox, orders, payments, reservations, notifications>>
    BY <1>7 DEF RunRelay, Relay, Park, DeadLetter, vars, inventoryVars
  <2> QED
    BY <2>1, StockViewKept
<1> QED
  BY <1>1, <1>2, <1>3, <1>4, <1>5, <1>6, <1>7 DEF Next, InventoryHandles

\* The services, their events and their databases implement the contract: what
\* they do to an order, its payment, its stock and its mail is a behaviour of
\* CheckoutContract, with any number of redeliveries, delays and dead letters.
THEOREM SagaImplementsContract == Spec => ImplementsContract
BY InitRefines, StepRefines, InductiveInvariant, PTL
DEF Spec, ImplementsContract, Contract!Spec
=============================================================================
