------------------------------ MODULE EventBus ------------------------------
(***************************************************************************)
(* What the four services share: the transactional outbox each producer    *)
(* writes in its own database, the Kafka log its relay fills from it, and  *)
(* the processed_events table with which each consumer deduplicates.       *)
(*                                                                         *)
(* An event is identified the way its random eventId identifies it in the  *)
(* code: by the outbox row that staged it, the serial-th row of its topic  *)
(* for its order.  Payloads are left out: each is an immutable copy of     *)
(* data of the order, and the services read that data from constants.      *)
(*                                                                         *)
(* The log only grows.  Every published event can be handed to a consumer  *)
(* again at any time and in any order (redelivery after a lost offset      *)
(* commit, a relay that crashed between the broker's ack and the update of *)
(* the row, partitions read at different speeds), so a redelivery needs no *)
(* action of its own: it is ProcessOnce tried again on the same event.     *)
(***************************************************************************)
EXTENDS Naturals

CONSTANTS
    Orders,              \* the order ids that may be created
    UnreliableConsumers  \* consumers whose handler may exhaust its retries

VARIABLES
    outbox,       \* outbox[t][o]: rows staged on topic t for order o
    published,    \* events the broker has acknowledged
    processed,    \* processed[c]: events with a committed row for consumer c
    deadLetters   \* deadLetters[c]: events consumer c parked in a *.DLQ topic

busVars == <<outbox, published, processed, deadLetters>>

Topics == {"orders.created", "orders.confirmed", "orders.cancelled",
           "payments.completed", "payments.failed",
           "inventory.reserved", "inventory.rejected"}

\* The services that own an outbox relay, and the topics of their rows.
Producers == {"order-service", "payment-service", "inventory-service"}

TopicsOf(s) ==
    CASE s = "order-service" ->
             {"orders.created", "orders.confirmed", "orders.cancelled"}
      [] s = "payment-service" -> {"payments.completed", "payments.failed"}
      [] s = "inventory-service" -> {"inventory.reserved", "inventory.rejected"}

SagaConsumer == "order-service.saga"
PaymentConsumer == "payment-service.orders"
InventoryConsumer == "inventory-service.orders"
NotificationConsumer == "notification-service.notifications"

Consumers == {SagaConsumer, PaymentConsumer,
              InventoryConsumer, NotificationConsumer}

\* The topics each consumer registers a handler for.
Subscriptions(c) ==
    CASE c = SagaConsumer ->
             {"payments.completed", "payments.failed",
              "inventory.reserved", "inventory.rejected"}
      [] c = PaymentConsumer -> {"orders.created"}
      [] c = InventoryConsumer -> {"orders.created", "orders.cancelled"}
      [] c = NotificationConsumer -> {"orders.confirmed", "payments.failed"}

ASSUME UnreliableAssumption == UnreliableConsumers \subseteq Consumers

Event == [topic : Topics, orderId : Orders, serial : Nat]

EventOf(t, o, n) == [topic |-> t, orderId |-> o, serial |-> n]

BusTypeOK ==
    /\ outbox \in [Topics -> [Orders -> Nat]]
    /\ published \subseteq Event
    /\ processed \in [Consumers -> SUBSET Event]
    /\ deadLetters \in [Consumers -> SUBSET Event]

BusInit ==
    /\ outbox = [t \in Topics |-> [o \in Orders |-> 0]]
    /\ published = {}
    /\ processed = [c \in Consumers |-> {}]
    /\ deadLetters = [c \in Consumers |-> {}]

-----------------------------------------------------------------------------
\* OutboxService.enqueue: stage one row inside the caller's transaction.
Enqueue(t, o) == outbox' = [outbox EXCEPT ![t][o] = @ + 1]

\* One row of a relay's batch reaches the broker.
Relay(s) ==
    /\ \E t \in TopicsOf(s), o \in Orders : \E n \in 1..outbox[t][o] :
          /\ EventOf(t, o, n) \notin published
          /\ published' = published \cup {EventOf(t, o, n)}
    /\ UNCHANGED <<outbox, processed, deadLetters>>

\* Mutant of ProcessOnce: the dedup insert is forgotten.
ProcessEveryTime(c, e) == processed' = [processed EXCEPT ![c] = @ \cup {e}]

\* Mutant of ProcessOnce: dedup by the order (the message key), not the event.
ProcessOncePerOrder(c, e) ==
    /\ \A f \in processed[c] : f.orderId # e.orderId
    /\ processed' = [processed EXCEPT ![c] = @ \cup {e}]

\* The dedup insert of processOnce: the row of a second delivery violates the
\* primary key (eventId, consumer), which rolls the transaction back.
ProcessOnce(c, e) ==
    /\ e \notin processed[c]
    /\ processed' = [processed EXCEPT ![c] = @ \cup {e}]

\* The handler threw on every attempt: the event is parked and its offset
\* moves on.  It may have been processed all the same, when only the answer to
\* a commit was lost, and it may be processed later, when a crash before the
\* offset is committed brings it back.
DeadLetter(c) ==
    /\ c \in UnreliableConsumers
    /\ \E e \in published \ deadLetters[c] :
          /\ e.topic \in Subscriptions(c)
          /\ deadLetters' = [deadLetters EXCEPT ![c] = @ \cup {e}]
    /\ UNCHANGED <<outbox, published, processed>>
=============================================================================
