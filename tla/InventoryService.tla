-------------------------- MODULE InventoryService --------------------------
(***************************************************************************)
(* The inventory service: it reserves stock for an order, all lines or     *)
(* none, and gives the stock back when the order is cancelled.  The        *)
(* service runs one consumer, which handles one message at a time, so that *)
(* the reads and the updates of one reserve() meet no other transaction.   *)
(*                                                                         *)
(* The lines of an order are summed up per product by two numbers: what    *)
(* all its lines of the product take together, and what its largest line   *)
(* asks for, which is all the availability check looks at.  The two differ *)
(* only for an order that lists a product twice.                           *)
(***************************************************************************)
EXTENDS EventBus, Integers

CONSTANTS
    Products,
    DefaultStock,   \* stock of a product whose row is created on first mention
    Quantity,       \* Quantity[o][p]: sum over the lines of o for p, 0 if none
    LargestLine     \* LargestLine[o][p]: quantity of the largest of these lines

ASSUME StockAssumption == DefaultStock \in Nat

ASSUME LinesAssumption ==
    /\ Quantity \in [Orders -> [Products -> Nat]]
    /\ LargestLine \in [Orders -> [Products -> Nat]]
    /\ \A o \in Orders, p \in Products :
          /\ LargestLine[o][p] <= Quantity[o][p]
          /\ LargestLine[o][p] = 0 => Quantity[o][p] = 0

VARIABLES
    available,     \* availableQty of each product
    reserved,      \* reservedQty of each product
    reservations   \* the reservations table, at most one row for an order

inventoryVars == <<available, reserved, reservations>>

ReservationStatus == {"RESERVED", "RELEASED"}

InventoryTypeOK ==
    /\ available \in [Products -> Int]
    /\ reserved \in [Products -> Int]
    /\ reservations \in [Orders -> ReservationStatus \cup {"NONE"}]

InventoryInit ==
    /\ available = [p \in Products |-> DefaultStock]
    /\ reserved = [p \in Products |-> 0]
    /\ reservations = [o \in Orders |-> "NONE"]

\* Mutant of Shortfalls: only a product that is sold out is short.
SoldOut(o) == {p \in Products : LargestLine[o][p] > 0 /\ available[p] = 0}

\* The products of the order of which some line exceeds the available stock.
Shortfalls(o) ==
    {p \in Products : LargestLine[o][p] > 0 /\ available[p] < LargestLine[o][p]}

Reject(o) ==
    /\ Shortfalls(o) # {}
    /\ Enqueue("inventory.rejected", o)
    /\ UNCHANGED inventoryVars

\* The insert of the reservation needs its orderId to be new (unique column).
Reserve(o) ==
    /\ Shortfalls(o) = {}
    /\ reservations[o] = "NONE"
    /\ available' = [p \in Products |-> available[p] - Quantity[o][p]]
    /\ reserved' = [p \in Products |-> reserved[p] + Quantity[o][p]]
    /\ reservations' = [reservations EXCEPT ![o] = "RESERVED"]
    /\ Enqueue("inventory.reserved", o)

\* Mutant of Release: the reservation is not looked up first.
ReleaseAlways(o) ==
    /\ available' = [p \in Products |-> available[p] + Quantity[o][p]]
    /\ reserved' = [p \in Products |-> reserved[p] - Quantity[o][p]]
    /\ reservations' = [reservations EXCEPT ![o] = "RELEASED"]

\* Mutant of Release: the reservation's row is deleted, not marked.
ReleaseDeletesRow(o) ==
    \/ /\ reservations[o] # "RESERVED"
       /\ UNCHANGED inventoryVars
    \/ /\ reservations[o] = "RESERVED"
       /\ available' = [p \in Products |-> available[p] + Quantity[o][p]]
       /\ reserved' = [p \in Products |-> reserved[p] - Quantity[o][p]]
       /\ reservations' = [reservations EXCEPT ![o] = "NONE"]

Release(o) ==
    \/ /\ reservations[o] # "RESERVED"
       /\ UNCHANGED inventoryVars
    \/ /\ reservations[o] = "RESERVED"
       /\ available' = [p \in Products |-> available[p] + Quantity[o][p]]
       /\ reserved' = [p \in Products |-> reserved[p] - Quantity[o][p]]
       /\ reservations' = [reservations EXCEPT ![o] = "RELEASED"]

InventoryOnOrderCreated(e) ==
    /\ e.topic = "orders.created"
    /\ ProcessOnce(InventoryConsumer, e)
    /\ Reject(e.orderId) \/ Reserve(e.orderId)
    /\ UNCHANGED <<published, deadLetters>>

InventoryOnOrderCancelled(e) ==
    /\ e.topic = "orders.cancelled"
    /\ ProcessOnce(InventoryConsumer, e)
    /\ Release(e.orderId)
    /\ UNCHANGED <<outbox, published, deadLetters>>

-----------------------------------------------------------------------------
\* A product is never oversold by two orders together, and not by an order that
\* lists it once.  reserve() compares each line on its own with the stock (and
\* create-order.dto.ts lets an order list a product on several lines), so one
\* order alone may be promised more than there is: it still holds its stock,
\* and what is missing is no more than its lines beside the largest one.
OversoldByOneOrder ==
    \A p \in Products :
        available[p] < 0 =>
            \E o \in Orders :
                /\ reservations[o] = "RESERVED"
                /\ available[p] + Quantity[o][p] >= LargestLine[o][p]
=============================================================================
