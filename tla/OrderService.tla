---------------------------- MODULE OrderService ----------------------------
(***************************************************************************)
(* The order service: it creates orders and drives each one through the    *)
(* saga from the outcomes of its two legs.  Each action is one database    *)
(* transaction; a crash before its commit leaves no trace of it.           *)
(***************************************************************************)
EXTENDS EventBus

VARIABLE orders   \* the orders table: status and the two legs of each order

Leg == {"PENDING", "SUCCEEDED", "FAILED"}
OrderStatus == {"PENDING", "CONFIRMED", "CANCELLED"}

\* An order without a row has status ABSENT.
OrderRow == [status : OrderStatus \cup {"ABSENT"},
             paymentStatus : Leg, inventoryStatus : Leg]

OrderTypeOK == orders \in [Orders -> OrderRow]

OrderInit ==
    orders = [o \in Orders |-> [status |-> "ABSENT",
                                paymentStatus |-> "PENDING",
                                inventoryStatus |-> "PENDING"]]

\* The transaction of createOrder: insert the order, stage orders.created.
CreateOrder(o) ==
    /\ orders[o].status = "ABSENT"
    /\ orders' = [orders EXCEPT ![o].status = "PENDING"]
    /\ Enqueue("orders.created", o)
    /\ UNCHANGED <<published, processed, deadLetters>>

-----------------------------------------------------------------------------
\* Mutant of AnyLegFailed: the inventory leg is forgotten.
PaymentLegFailed(row) == row.paymentStatus = "FAILED"

AnyLegFailed(row) == "FAILED" \in {row.paymentStatus, row.inventoryStatus}

\* Mutant of BothLegsSucceeded: || for &&.
SomeLegSucceeded(row) ==
    row.paymentStatus = "SUCCEEDED" \/ row.inventoryStatus = "SUCCEEDED"

BothLegsSucceeded(row) ==
    row.paymentStatus = "SUCCEEDED" /\ row.inventoryStatus = "SUCCEEDED"

SettleCancelled(o, row) ==
    /\ orders' = [orders EXCEPT ![o] = [row EXCEPT !.status = "CANCELLED"]]
    /\ Enqueue("orders.cancelled", o)

SettleConfirmed(o, row) ==
    /\ orders' = [orders EXCEPT ![o] = [row EXCEPT !.status = "CONFIRMED"]]
    /\ Enqueue("orders.confirmed", o)

\* Mutant of ApplyLegOutcome: a settled order is not left alone.
ApplyLegOutcomeAlways(o, updated) ==
    \/ AnyLegFailed(updated) /\ SettleCancelled(o, updated)
    \/ /\ ~AnyLegFailed(updated)
       /\ BothLegsSucceeded(updated)
       /\ SettleConfirmed(o, updated)
    \/ /\ ~AnyLegFailed(updated)
       /\ ~BothLegsSucceeded(updated)
       /\ orders' = [orders EXCEPT ![o] = updated]
       /\ UNCHANGED outbox

\* Mutant of ApplyLegOutcome: the legs are tested on the row as it was read,
\* before the leg was updated.
ApplyLegOutcomeStale(o, updated) ==
    \/ /\ orders[o].status # "PENDING"
       /\ UNCHANGED <<orders, outbox>>
    \/ /\ orders[o].status = "PENDING"
       /\ AnyLegFailed(updated)
       /\ SettleCancelled(o, updated)
    \/ /\ orders[o].status = "PENDING"
       /\ ~AnyLegFailed(updated)
       /\ BothLegsSucceeded(orders[o])
       /\ SettleConfirmed(o, updated)
    \/ /\ orders[o].status = "PENDING"
       /\ ~AnyLegFailed(updated)
       /\ ~BothLegsSucceeded(orders[o])
       /\ orders' = [orders EXCEPT ![o] = updated]
       /\ UNCHANGED outbox

\* applyLegOutcome: 'updated' is the row of o with one leg decided.  An unknown
\* or settled order is left alone.
ApplyLegOutcome(o, updated) ==
    \/ /\ orders[o].status # "PENDING"
       /\ UNCHANGED <<orders, outbox>>
    \/ /\ orders[o].status = "PENDING"
       /\ AnyLegFailed(updated)
       /\ SettleCancelled(o, updated)
    \/ /\ orders[o].status = "PENDING"
       /\ ~AnyLegFailed(updated)
       /\ BothLegsSucceeded(updated)
       /\ SettleConfirmed(o, updated)
    \/ /\ orders[o].status = "PENDING"
       /\ ~AnyLegFailed(updated)
       /\ ~BothLegsSucceeded(updated)
       /\ orders' = [orders EXCEPT ![o] = updated]
       /\ UNCHANGED outbox

OnPaymentCompleted(e) ==
    /\ e.topic = "payments.completed"
    /\ ProcessOnce(SagaConsumer, e)
    /\ ApplyLegOutcome(e.orderId,
           [orders[e.orderId] EXCEPT !.paymentStatus = "SUCCEEDED"])
    /\ UNCHANGED <<published, deadLetters>>

OnPaymentFailed(e) ==
    /\ e.topic = "payments.failed"
    /\ ProcessOnce(SagaConsumer, e)
    /\ ApplyLegOutcome(e.orderId,
           [orders[e.orderId] EXCEPT !.paymentStatus = "FAILED"])
    /\ UNCHANGED <<published, deadLetters>>

OnInventoryReserved(e) ==
    /\ e.topic = "inventory.reserved"
    /\ ProcessOnce(SagaConsumer, e)
    /\ ApplyLegOutcome(e.orderId,
           [orders[e.orderId] EXCEPT !.inventoryStatus = "SUCCEEDED"])
    /\ UNCHANGED <<published, deadLetters>>

OnInventoryRejected(e) ==
    /\ e.topic = "inventory.rejected"
    /\ ProcessOnce(SagaConsumer, e)
    /\ ApplyLegOutcome(e.orderId,
           [orders[e.orderId] EXCEPT !.inventoryStatus = "FAILED"])
    /\ UNCHANGED <<published, deadLetters>>
=============================================================================
