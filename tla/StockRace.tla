----------------------------- MODULE StockRace -----------------------------
(***************************************************************************)
(* The inventory service with any number of instances, one SQL statement   *)
(* at a time.  Each instance handles one event at a time in a transaction  *)
(* at Postgres' default isolation, READ COMMITTED: a statement reads what  *)
(* is committed and what its own transaction wrote; an INSERT or UPDATE    *)
(* waits for the open transaction that holds the key or the row, and then  *)
(* works on what that transaction left.                                    *)
(*                                                                         *)
(* Different keys go to different partitions and a rebalance hands an      *)
(* event to a new instance while the old one is still at it, so any idle   *)
(* instance may be given any event whose offset is not committed.          *)
(***************************************************************************)
EXTENDS Integers, Sequences, FiniteSets, FiniteSetsExt,
        Functions

CONSTANTS
    Instances,
    Orders,
    Cancellations,  \* Cancellations[o]: the events orders.cancelled of order o,
                    \* two at most (OrderSettlementProofs: AnnouncedAtMostTwice)
    Products,
    KnownAtStart,   \* products that earlier orders have mentioned
    DefaultStock,
    Lines,          \* Lines[o]: the lines of order o, a sequence of records
    MaxFailures     \* bound on crashes and failed attempts in a behaviour

Line == [product : Products, quantity : Nat \ {0}]

ASSUME RaceAssumption ==
    /\ IsFiniteSet(Instances)
    /\ Cancellations \in [Orders -> 0..2]
    /\ KnownAtStart \subseteq Products
    /\ DefaultStock \in Nat
    /\ \A o \in Orders :
          /\ Lines[o] \in Seq(Line)
          /\ Len(Lines[o]) > 0
    /\ MaxFailures \in Nat

EventOf(t, o, n) == [topic |-> t, orderId |-> o, serial |-> n]

Events ==
    {EventOf("orders.created", o, 1) : o \in Orders}
        \cup UNION {{EventOf("orders.cancelled", o, n) : n \in 1..Cancellations[o]} :
                      o \in Orders}

VARIABLES
    known,          \* products that have a committed row
    stock,          \* the committed row; DefaultStock for an unknown product
    reservations,   \* the committed reservation of each order
    processed,      \* events with a committed row in processed_events
    outbox,         \* committed outbox rows, as <<topic, orderId>>
    handled,        \* events whose offset is committed
    tx,             \* tx[w]: the handler running in instance w
    deployed,       \* the instances there are; never changes
    failures

vars == <<known, stock, reservations, processed, outbox, handled, tx, deployed,
          failures>>

Row == [available : Int, reserved : Int]

\* What the handler has to report when it commits.
Results == {"nothing", "inventory.reserved", "inventory.rejected", "released"}

Steps == {"mark", "find", "insert", "check", "lookup", "update", "commit",
          "done"}

Idle == [step |-> "idle"]

\* A handler at work.  rows holds the product rows its transaction has inserted
\* or updated: nobody else sees them, and they are locked against the others.
HandlerOK(h) ==
    /\ DOMAIN h = {"step", "event", "line", "result", "rows"}
    /\ h.step \in Steps
    /\ h.event \in Events
    /\ h.line \in DOMAIN Lines[h.event.orderId]
    /\ h.result \in Results
    /\ DOMAIN h.rows \subseteq Products
    /\ \A p \in DOMAIN h.rows : h.rows[p] \in Row

\* Every handler is at a line of its order, and its uncommitted rows are rows of
\* products: the loops over the lines end where the lines do.
TypeOK ==
    /\ known \subseteq Products
    /\ stock \in [Products -> Row]
    /\ reservations \in [Orders -> {"NONE", "RESERVED", "RELEASED"}]
    /\ processed \subseteq Events
    /\ outbox \subseteq {"inventory.reserved", "inventory.rejected"} \X Orders
    /\ handled \subseteq Events
    /\ DOMAIN tx = Instances
    /\ \A w \in Instances : tx[w] = Idle \/ (w \in deployed /\ HandlerOK(tx[w]))
    /\ deployed \subseteq Instances
    /\ failures \in 0..MaxFailures

Init ==
    /\ known = KnownAtStart
    /\ stock = [p \in Products |-> [available |-> DefaultStock, reserved |-> 0]]
    /\ reservations = [o \in Orders |-> "NONE"]
    /\ processed = {}
    /\ outbox = {}
    /\ handled = {}
    /\ tx = [w \in Instances |-> Idle]
    /\ deployed \in (SUBSET Instances) \ {{}}
    /\ failures = 0

-----------------------------------------------------------------------------
tables == <<known, stock, reservations, processed, outbox>>

Busy(w) == tx[w] # Idle

OrderOf(w) == tx[w].event.orderId

LineOf(w) == Lines[OrderOf(w)][tx[w].line]

ProductOf(w) == LineOf(w).product

\* A statement that leaves the committed tables alone.
Continue(w, h) ==
    /\ tx' = [tx EXCEPT ![w] = h]
    /\ UNCHANGED <<tables, handled, deployed, failures>>

\* for (const item of order.items): the next line in this loop, or the first
\* line of what follows the loop.
NextLine(h, loop, next) ==
    IF h.line < Len(Lines[h.event.orderId])
    THEN [h EXCEPT !.step = loop, !.line = @ + 1]
    ELSE [h EXCEPT !.step = next, !.line = 1]

\* The row as the statements of w read it.
Visible(w, p) ==
    IF p \in DOMAIN tx[w].rows THEN tx[w].rows[p] ELSE stock[p]

\* w's handler after it wrote r to the row of its line's product.
WithRow(w, r) ==
    LET p == ProductOf(w)
    IN [tx[w] EXCEPT !.rows = [q \in DOMAIN @ \cup {p} |-> IF q = p THEN r ELSE @[q]]]

\* Another open transaction has inserted or updated the row of p.
RowHeldBy(v, w, p) == v # w /\ Busy(v) /\ p \in DOMAIN tx[v].rows

\* Another open transaction has inserted the marker of w's event.
MarkerHeldBy(v, w) ==
    /\ v # w
    /\ Busy(v)
    /\ tx[v].event = tx[w].event
    /\ tx[v].step \notin {"mark", "done"}

Waits(w, v) ==
    /\ Busy(w)
    /\ \/ tx[w].step = "mark" /\ MarkerHeldBy(v, w)
       \/ tx[w].step \in {"insert", "update"} /\ RowHeldBy(v, w, ProductOf(w))

Blocked(w) == \E v \in Instances : Waits(w, v)

-----------------------------------------------------------------------------
\* Kafka hands an instance a message whose offset is not committed.
Deliver(w, e) ==
    /\ w \in deployed
    /\ ~Busy(w)
    /\ e \notin handled
    /\ Continue(w, [step |-> "mark", event |-> e, line |-> 1,
                    result |-> "nothing", rows |-> <<>>])

\* A statement raised P2002, which rolls the transaction back: processOnce
\* takes the event for a duplicate and returns normally.
SkipDuplicate(w) ==
    Continue(w, [tx[w] EXCEPT !.step = "done", !.rows = <<>>])

\* Mutant of MarkProcessed: a look-up in place of the insert, which waits for
\* nobody.
LookForMark(w) ==
    /\ Busy(w) /\ tx[w].step = "mark"
    /\ \/ /\ tx[w].event \in processed
          /\ SkipDuplicate(w)
       \/ /\ tx[w].event \notin processed
          /\ Continue(w, [tx[w] EXCEPT !.step =
                              IF tx[w].event.topic = "orders.created"
                              THEN "find" ELSE "lookup"])

\* tx.processedEvent.create
MarkProcessed(w) ==
    /\ Busy(w) /\ tx[w].step = "mark"
    /\ ~Blocked(w)
    /\ \/ /\ tx[w].event \in processed
          /\ SkipDuplicate(w)
       \/ /\ tx[w].event \notin processed
          /\ Continue(w, [tx[w] EXCEPT !.step =
                              IF tx[w].event.topic = "orders.created"
                              THEN "find" ELSE "lookup"])

\* The read of tx.product.upsert; the update of a row that is found is empty.
FindProduct(w) ==
    /\ Busy(w) /\ tx[w].step = "find"
    /\ Continue(w, IF ProductOf(w) \in known \cup DOMAIN tx[w].rows
                   THEN NextLine(tx[w], "find", "check")
                   ELSE [tx[w] EXCEPT !.step = "insert"])

\* The insert of tx.product.upsert.
InsertProduct(w) ==
    /\ Busy(w) /\ tx[w].step = "insert"
    /\ ~Blocked(w)
    /\ \/ /\ ProductOf(w) \in known
          /\ SkipDuplicate(w)
       \/ /\ ProductOf(w) \notin known
          /\ Continue(w, NextLine(WithRow(w, stock[ProductOf(w)]),
                                 "find", "check"))

\* Mutant of CheckLine: a quantity that takes the last piece is short too.
KeepOneInStock(w) ==
    /\ Busy(w) /\ tx[w].step = "check"
    /\ LET h == IF Visible(w, ProductOf(w)).available <= LineOf(w).quantity
                THEN [tx[w] EXCEPT !.result = "inventory.rejected"] ELSE tx[w]
       IN Continue(w, NextLine(h, "check", IF h.result = "nothing"
                                           THEN "update" ELSE "commit"))

\* tx.product.findUniqueOrThrow and the comparison with the line's quantity.
CheckLine(w) ==
    /\ Busy(w) /\ tx[w].step = "check"
    /\ LET h == IF Visible(w, ProductOf(w)).available < LineOf(w).quantity
                THEN [tx[w] EXCEPT !.result = "inventory.rejected"] ELSE tx[w]
       IN Continue(w, NextLine(h, "check", IF h.result = "nothing"
                                           THEN "update" ELSE "commit"))

\* tx.reservation.findUnique: only an active reservation is released.
FindReservation(w) ==
    /\ Busy(w) /\ tx[w].step = "lookup"
    /\ Continue(w, [tx[w] EXCEPT !.step =
                       IF reservations[OrderOf(w)] = "RESERVED"
                       THEN "update" ELSE "commit"])

\* The row of the line's product after the increments of reserve or release.
Moved(w) ==
    LET n == IF tx[w].event.topic = "orders.created"
             THEN LineOf(w).quantity ELSE -LineOf(w).quantity
        r == Visible(w, ProductOf(w))
    IN [available |-> r.available - n, reserved |-> r.reserved + n]

DoneWith(e) ==
    IF e.topic = "orders.created" THEN "inventory.reserved" ELSE "released"

\* Mutant of UpdateProduct: the new quantities are computed from what the
\* transaction read, not by the database from the row it has locked.
OverwriteProduct(w) ==
    /\ Busy(w) /\ tx[w].step = "update"
    /\ LET h == WithRow(w, Moved(w))
       IN Continue(w, NextLine([h EXCEPT !.result = DoneWith(h.event)],
                               "update", "commit"))

\* tx.product.update with increment and decrement: the database adds to the
\* row it has locked.
UpdateProduct(w) ==
    /\ Busy(w) /\ tx[w].step = "update"
    /\ ~Blocked(w)
    /\ LET h == WithRow(w, Moved(w))
       IN Continue(w, NextLine([h EXCEPT !.result = DoneWith(h.event)],
                               "update", "commit"))

\* The row of the reservation, and the outbox row, follow from the result.
\* They meet no other transaction: those of the order wait for its marker.
Commit(w) ==
    /\ Busy(w) /\ tx[w].step = "commit"
    /\ known' = known \cup DOMAIN tx[w].rows
    /\ stock' = [p \in Products |-> Visible(w, p)]
    /\ processed' = processed \cup {tx[w].event}
    /\ \/ /\ tx[w].result = "inventory.reserved"
          /\ reservations[OrderOf(w)] = "NONE"
          /\ reservations' = [reservations EXCEPT ![OrderOf(w)] = "RESERVED"]
       \/ /\ tx[w].result = "released"
          /\ reservations' = [reservations EXCEPT ![OrderOf(w)] = "RELEASED"]
       \/ /\ tx[w].result \in {"inventory.rejected", "nothing"}
          /\ UNCHANGED reservations
    /\ outbox' = outbox \cup
          ({<<tx[w].result, OrderOf(w)>>} \cap
              ({"inventory.reserved", "inventory.rejected"} \X Orders))
    /\ tx' = [tx EXCEPT ![w].step = "done", ![w].rows = <<>>]
    /\ UNCHANGED <<handled, deployed, failures>>

\* The handler has returned normally, and the offset is committed.
Acknowledge(w) ==
    /\ Busy(w) /\ tx[w].step = "done"
    /\ handled' = handled \cup {tx[w].event}
    /\ tx' = [tx EXCEPT ![w] = Idle]
    /\ UNCHANGED <<tables, deployed, failures>>

\* Mutant of Fail: processOnce swallows every error.
FailAndAcknowledge(w) ==
    /\ Busy(w)
    /\ failures < MaxFailures
    /\ failures' = failures + 1
    /\ handled' = handled \cup {tx[w].event}
    /\ tx' = [tx EXCEPT ![w] = Idle]
    /\ UNCHANGED <<tables, deployed>>

\* A crash, or a failed statement or the time limit of the transaction, which
\* processOnce rethrows: nothing is committed and the message will be delivered,
\* or tried, again.
Fail(w) ==
    /\ Busy(w)
    /\ failures < MaxFailures
    /\ failures' = failures + 1
    /\ tx' = [tx EXCEPT ![w] = Idle]
    /\ UNCHANGED <<tables, handled, deployed>>

Deadlocked(w) ==
    \E S \in SUBSET Instances :
        /\ w \in S
        /\ \A u \in S : \E v \in S : Waits(u, v)

\* Mutant of AbortDeadlocked: nobody breaks a deadlock.
WaitForEver(w) == Deadlocked(w) /\ UNCHANGED vars

\* Postgres aborts one of the transactions that wait for each other, and the
\* consumer's retry starts again.
AbortDeadlocked(w) ==
    /\ Deadlocked(w)
    /\ Continue(w, Idle)

\* The next statement, or the acknowledgement, of the handler in w.
Proceed(w) ==
    \/ MarkProcessed(w) \/ FindProduct(w) \/ InsertProduct(w) \/ CheckLine(w)
    \/ FindReservation(w) \/ UpdateProduct(w) \/ Commit(w) \/ Acknowledge(w)

Next ==
    \E w \in Instances :
        \/ \E e \in Events : Deliver(w, e)
        \/ Proceed(w)
        \/ Fail(w)
        \/ AbortDeadlocked(w)

Spec == Init /\ [][Next]_vars

\* Consumers fetch for ever and statements end.  A statement that waits for a
\* row or a key is queued for it, so that one whose row is free again and again
\* is granted in the end: strong fairness of each insert and update.  Failures
\* are never forced.
Fairness ==
    /\ \A w \in Instances :
          /\ WF_vars((\E e \in Events : Deliver(w, e)) \/ Proceed(w))
          /\ \A n \in 1..Max({Len(Lines[o]) : o \in Orders}) :
                SF_vars(/\ Busy(w) /\ tx[w].line = n
                        /\ InsertProduct(w) \/ UpdateProduct(w))
    /\ WF_vars(\E w \in Instances : AbortDeadlocked(w))

FairSpec == Spec /\ Fairness

-----------------------------------------------------------------------------
Alone == Cardinality(deployed) = 1

\* All the lines of order o for product p.
QuantityOf(o, p) ==
    SumFunctionOnSet([i \in DOMAIN Lines[o] |-> Lines[o][i].quantity],
                     {i \in DOMAIN Lines[o] : Lines[o][i].product = p})

LargestLineOf(o, p) ==
    Max({0} \cup {Lines[o][i].quantity :
                     i \in {j \in DOMAIN Lines[o] : Lines[o][j].product = p}})

\* The orders whose stock may have been given back twice: two instances both
\* looked up the reservation before either of them released it, each to handle
\* a cancellation of its own.
ReleasedTwice ==
    {o \in Orders :
        /\ ~Alone
        /\ reservations[o] = "RELEASED"
        /\ \A n \in 1..2 : EventOf("orders.cancelled", o, n) \in processed}

QuantityIn(p, S) == SumFunctionOnSet([o \in Orders |-> QuantityOf(o, p)], S)

\* Whatever the instances do at once, no unit of stock is lost or made, and what
\* is set aside of a product is what the active reservations hold: no update
\* of reserve() or release() overwrites another one.  The comment of release()
\* that a redelivered cancel never double-restores fails in one way only: the
\* two events of an order that was announced as cancelled twice, handled by
\* two instances at once, may take its quantities off once too often.
OnlyRepeatedCancelsDistortStock ==
    \E twice \in SUBSET ReleasedTwice :
        \A p \in Products :
            /\ stock[p].available + stock[p].reserved = DefaultStock
            /\ stock[p].reserved =
                  QuantityIn(p, {o \in Orders : reservations[o] = "RESERVED"})
                      - QuantityIn(p, twice)

\* The order service is told one outcome of the inventory leg, although a
\* rebalance lets two instances handle orders.created at once, and it is told
\* that stock is reserved exactly if there is a reservation.
OneAnswerPerOrder ==
    \A o \in Orders :
        /\ ~ (/\ <<"inventory.reserved", o>> \in outbox
              /\ <<"inventory.rejected", o>> \in outbox)
        /\ <<"inventory.reserved", o>> \in outbox <=> reservations[o] # "NONE"

\* README.md: overselling the last item in stock because two orders raced each
\* other must never happen.
NoOversell == \A p \in Products : stock[p].available >= 0

\* The event that creates o was taken for a duplicate and is passed over.
Dropped(o) == EventOf("orders.created", o, 1) \in handled \ processed

\* The comment of processOnce says that P2002 means already processed.  It fails
\* in one way only: an order is dropped when several instances race to insert
\* the row of a product nobody has ordered before.  No other event is ever
\* acknowledged without having been processed.
OnlyNewProductsLoseOrders ==
    /\ \A e \in handled \ processed : e.topic = "orders.created"
    /\ \A o \in Orders :
          Dropped(o) => /\ ~Alone
                        /\ \E i \in DOMAIN Lines[o] :
                              Lines[o][i].product \notin KnownAtStart

\* Every order is answered or dropped, although instances wait for each other's
\* rows and markers and fail: no deadlock and no endless wait.
OrdersAreAnswered ==
    \A o \in Orders :
        <>(\/ <<"inventory.reserved", o>> \in outbox
           \/ <<"inventory.rejected", o>> \in outbox
           \/ Dropped(o))

Atomic == INSTANCE InventoryService WITH
    UnreliableConsumers <- {},
    Quantity <- [o \in Orders |-> [p \in Products |-> QuantityOf(o, p)]],
    LargestLine <- [o \in Orders |-> [p \in Products |-> LargestLineOf(o, p)]],
    outbox <- [t \in {"inventory.reserved", "inventory.rejected"} |->
                 [o \in Orders |-> IF <<t, o>> \in outbox THEN 1 ELSE 0]],
    published <- Events,
    processed <- [c \in {"inventory-service.orders"} |-> processed],
    deadLetters <- {},
    available <- [p \in Products |-> stock[p].available],
    reserved <- [p \in Products |-> stock[p].reserved]

\* With one instance the statements of a handler amount to one atomic step of
\* InventoryService, the module that CheckoutSaga composes: the handler either
\* leaves no trace or does exactly what that step does.
ReservationsAreAtomic ==
    [][Alone => \E e \in Events : \/ Atomic!InventoryOnOrderCreated(e)
                                  \/ Atomic!InventoryOnOrderCancelled(e)]_<<
          stock, reservations, processed, outbox>>
=============================================================================
