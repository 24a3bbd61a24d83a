-------------------------- MODULE OrderSettlement --------------------------
(***************************************************************************)
(* Any number of instances of the order service settling orders at once,   *)
(* one SQL statement at a time.  The outcomes of the two legs of an order  *)
(* travel on different topics, whose partitions may belong to different    *)
(* instances; and a rebalance can hand an event to a second instance while *)
(* the first is still at it.                                               *)
(*                                                                         *)
(* Postgres is at READ COMMITTED: findUnique reads the committed row; an   *)
(* UPDATE waits for the open transaction that has updated the row, works   *)
(* on the row that one leaves, and returns the row it has made.            *)
(***************************************************************************)
EXTENDS Naturals, FiniteSets

CONSTANTS
    Instances,
    Orders,
    MaxFailures   \* bound on crashes and failed attempts in a behaviour

ASSUME InstancesAssumption == IsFiniteSet(Instances)
ASSUME FailuresAssumption == MaxFailures \in Nat

Legs == {"payment", "inventory"}
Outcome == {"SUCCEEDED", "FAILED"}
Leg == Outcome \cup {"PENDING"}
OrderStatus == {"PENDING", "CONFIRMED", "CANCELLED"}

\* A row of the orders table; its legs under the names of the outcome topics.
OrderRow == [status : OrderStatus, legs : [Legs -> Leg]]

\* The one outcome of each leg (CheckoutSaga's OneOutcomePerLeg).
Event == [orderId : Orders, leg : Legs]

Announcements == {"orders.confirmed", "orders.cancelled"}

VARIABLES
    outcome,    \* what the other two services decide; never changes
    orders,     \* the committed rows
    processed,  \* events with a committed row in processed_events
    outbox,     \* outbox[o][t]: committed rows of topic t for order o
    handled,    \* events whose offset is committed
    tx,         \* tx[w]: the handler running in instance w
    deployed,   \* the instances there are; never changes
    failures

vars == <<outcome, orders, processed, outbox, handled, tx, deployed, failures>>

NoTopic == "none"

\* A handler at work: the row as its open transaction has updated it, and the
\* topic of the event it has staged.  The row is locked from step "commit" on.
Handler == [step : {"mark", "read", "update", "commit", "done"}, event : Event,
            row : OrderRow, staged : Announcements \cup {NoTopic},
            locked : BOOLEAN]

Idle == [step |-> "idle"]

\* Rows, handlers and announcements have the types of the schema: no status but
\* those of OrderStatus is ever written, whatever the leg that decides.
TypeOK ==
    /\ outcome \in [Orders -> [Legs -> Outcome]]
    /\ orders \in [Orders -> OrderRow]
    /\ processed \subseteq Event
    /\ outbox \in [Orders -> [Announcements -> Nat]]
    /\ handled \subseteq Event
    /\ tx \in [Instances -> Handler \cup {Idle}]
    /\ deployed \subseteq Instances
    /\ \A w \in Instances \ deployed : tx[w] = Idle
    /\ failures \in 0..MaxFailures

Undecided == [status |-> "PENDING", legs |-> [l \in Legs |-> "PENDING"]]

Init ==
    /\ outcome \in [Orders -> [Legs -> Outcome]]
    /\ orders = [o \in Orders |-> Undecided]
    /\ processed = {}
    /\ outbox = [o \in Orders |-> [t \in Announcements |-> 0]]
    /\ handled = {}
    /\ tx = [w \in Instances |-> Idle]
    /\ deployed \in (SUBSET Instances) \ {{}}
    /\ failures = 0

-----------------------------------------------------------------------------
tables == <<orders, processed, outbox>>

Busy(w) == tx[w] # Idle

OrderOf(w) == tx[w].event.orderId

\* A statement that leaves the committed tables alone.
Continue(w, h) ==
    /\ tx' = [tx EXCEPT ![w] = h]
    /\ UNCHANGED <<outcome, tables, handled, deployed, failures>>

\* Mutant of MarkerTaken: whoever has the same event is waited for, even one
\* that has not inserted the marker yet.
SameEventElsewhere(w) ==
    \E v \in Instances \ {w} : Busy(v) /\ tx[v].event = tx[w].event

\* The insert of w's marker waits for the transaction that inserted it first.
MarkerTaken(w) ==
    \E v \in Instances \ {w} :
        Busy(v) /\ tx[v].event = tx[w].event /\ tx[v].step \in
                                                   {"read", "update", "commit"}

\* The update of w's order waits for the transaction that updated it first.
RowTaken(w) ==
    \E v \in Instances \ {w} :
        Busy(v) /\ OrderOf(v) = OrderOf(w) /\ tx[v].step = "commit"
                /\ tx[v].locked

\* Kafka hands an instance a message whose offset is not committed.
Deliver(w, e) ==
    /\ w \in deployed
    /\ ~Busy(w)
    /\ e \notin handled
    /\ Continue(w, [step |-> "mark", event |-> e, row |-> Undecided,
                    staged |-> NoTopic, locked |-> FALSE])

\* tx.processedEvent.create; P2002 ends the handler as a duplicate.
MarkProcessed(w) ==
    /\ Busy(w) /\ tx[w].step = "mark"
    /\ ~MarkerTaken(w)
    /\ Continue(w, [tx[w] EXCEPT !.step = IF tx[w].event \in processed
                                          THEN "done" ELSE "read"])

\* tx.order.findUnique, and the test of the status.
ReadOrder(w) ==
    /\ Busy(w) /\ tx[w].step = "read"
    /\ Continue(w, [tx[w] EXCEPT
                       !.step = IF orders[OrderOf(w)].status = "PENDING"
                                THEN "update" ELSE "commit",
                       !.row = orders[OrderOf(w)]])

\* The row with the leg of w's event decided.
WithLeg(w, row) ==
    [row EXCEPT !.legs[tx[w].event.leg] = outcome[OrderOf(w)][tx[w].event.leg]]

AnyLegFailed(row) == \E l \in Legs : row.legs[l] = "FAILED"

BothLegsSucceeded(row) == \A l \in Legs : row.legs[l] = "SUCCEEDED"

\* Mutant of Settle: a leg still open is closed as failed with the order.
CancelEveryLeg(h, row) ==
    IF AnyLegFailed(row)
    THEN [h EXCEPT !.row = [status |-> "CANCELLED",
                            legs |-> [l \in Legs |-> "FAILED"]],
                   !.staged = "orders.cancelled"]
    ELSE IF BothLegsSucceeded(row)
    THEN [h EXCEPT !.row = [row EXCEPT !.status = "CONFIRMED"],
                   !.staged = "orders.confirmed"]
    ELSE [h EXCEPT !.row = row]

\* settleCancelled, settleConfirmed, or neither, on the row just updated.
Settle(h, row) ==
    IF AnyLegFailed(row)
    THEN [h EXCEPT !.row = [row EXCEPT !.status = "CANCELLED"],
                   !.staged = "orders.cancelled"]
    ELSE IF BothLegsSucceeded(row)
    THEN [h EXCEPT !.row = [row EXCEPT !.status = "CONFIRMED"],
                   !.staged = "orders.confirmed"]
    ELSE [h EXCEPT !.row = row]

\* Mutant of UpdateLeg: whether to settle is decided on the row that was read.
DecideOnRead(w) ==
    /\ Busy(w) /\ tx[w].step = "update"
    /\ ~RowTaken(w)
    /\ LET seen == WithLeg(w, tx[w].row)
           row == WithLeg(w, orders[OrderOf(w)])
       IN Continue(w, [(IF AnyLegFailed(seen) \/ BothLegsSucceeded(seen)
                        THEN Settle(tx[w], row) ELSE [tx[w] EXCEPT !.row = row])
                       EXCEPT !.step = "commit", !.locked = TRUE])

\* Mutant of UpdateLeg: the whole row is written back as it was read.
WriteBack(w) ==
    /\ Busy(w) /\ tx[w].step = "update"
    /\ ~RowTaken(w)
    /\ Continue(w, [Settle(tx[w], WithLeg(w, tx[w].row)) EXCEPT
                       !.step = "commit", !.locked = TRUE])

\* tx.order.update of the leg, which returns the row, and the settlement, which
\* finds the row locked by its own transaction and so waits for nobody.
UpdateLeg(w) ==
    /\ Busy(w) /\ tx[w].step = "update"
    /\ ~RowTaken(w)
    /\ Continue(w, [Settle(tx[w], WithLeg(w, orders[OrderOf(w)])) EXCEPT
                       !.step = "commit", !.locked = TRUE])

Commit(w) ==
    /\ Busy(w) /\ tx[w].step = "commit"
    /\ processed' = processed \cup {tx[w].event}
    /\ orders' = IF tx[w].locked
                 THEN [orders EXCEPT ![OrderOf(w)] = tx[w].row] ELSE orders
    /\ outbox' = [outbox EXCEPT ![OrderOf(w)] =
                    [t \in Announcements |->
                        IF t = tx[w].staged THEN @[t] + 1 ELSE @[t]]]
    /\ tx' = [tx EXCEPT ![w].step = "done", ![w].locked = FALSE]
    /\ UNCHANGED <<outcome, handled, deployed, failures>>

\* The handler has returned normally, and the offset is committed.
Acknowledge(w) ==
    /\ Busy(w) /\ tx[w].step = "done"
    /\ handled' = handled \cup {tx[w].event}
    /\ tx' = [tx EXCEPT ![w] = Idle]
    /\ UNCHANGED <<outcome, tables, deployed, failures>>

\* A crash, a failed statement or the time limit of the transaction: nothing is
\* committed, and the message will be delivered, or tried, again.
Fail(w) ==
    /\ Busy(w)
    /\ failures < MaxFailures
    /\ failures' = failures + 1
    /\ tx' = [tx EXCEPT ![w] = Idle]
    /\ UNCHANGED <<outcome, tables, handled, deployed>>

Proceed(w) ==
    \/ MarkProcessed(w) \/ ReadOrder(w) \/ UpdateLeg(w) \/ Commit(w)
    \/ Acknowledge(w)

Next ==
    \E w \in Instances :
        (\E e \in Event : Deliver(w, e)) \/ Proceed(w) \/ Fail(w)

Spec == Init /\ [][Next]_vars

\* Consumers fetch for ever and statements end.  A wait for a lock ends with the
\* transaction that holds it, which itself waits for nobody.
Fairness ==
    \A w \in Instances : WF_vars((\E e \in Event : Deliver(w, e)) \/ Proceed(w))

FairSpec == Spec /\ Fairness

-----------------------------------------------------------------------------
\* Whichever instances handle the legs of an order, and however their
\* statements interleave, it ends CONFIRMED only if both legs succeeded and
\* CANCELLED only if one failed, and it is never announced both ways.
VerdictFitsTheLegs ==
    \A o \in Orders :
        /\ orders[o].status = "CONFIRMED" =>
              outcome[o] = [l \in Legs |-> "SUCCEEDED"]
        /\ orders[o].status = "CANCELLED" => AnyLegFailed(orders[o])
        /\ outbox[o]["orders.confirmed"] > 0 <=> orders[o].status = "CONFIRMED"
        /\ outbox[o]["orders.cancelled"] > 0 <=> orders[o].status = "CANCELLED"

\* No decided leg is lost: once both outcomes of an order are handled the order
\* is settled, although each handler may have read it before the other wrote.
NoLegIsLost ==
    \A o \in Orders :
        (\A l \in Legs : [orderId |-> o, leg |-> l] \in handled) =>
            orders[o].status # "PENDING"

\* Every order is settled although attempts fail and instances crash.
OrdersSettle == \A o \in Orders : <>(orders[o].status # "PENDING")

\* The comment of applyLegOutcome: an outcome of an order that is already
\* settled does nothing.  So an order's end is announced once.
AnnouncedOnce ==
    \A o \in Orders :
        outbox[o]["orders.confirmed"] + outbox[o]["orders.cancelled"] <= 1

Alone == Cardinality(deployed) = 1

\* The event of the order service's topics that a leg's outcome stands for.
OutcomeEvent(e) ==
    [topic |-> CASE e.leg = "payment" ->
                      IF outcome[e.orderId]["payment"] = "SUCCEEDED"
                      THEN "payments.completed" ELSE "payments.failed"
                 [] e.leg = "inventory" ->
                      IF outcome[e.orderId]["inventory"] = "SUCCEEDED"
                      THEN "inventory.reserved" ELSE "inventory.rejected",
     orderId |-> e.orderId,
     serial |-> 1]

Atomic == INSTANCE OrderService WITH
    UnreliableConsumers <- {},
    outbox <- [t \in Announcements |-> [o \in Orders |-> outbox[o][t]]],
    published <- {OutcomeEvent(e) : e \in Event},
    processed <- [c \in {"order-service.saga"} |->
                    {OutcomeEvent(e) : e \in processed}],
    deadLetters <- {},
    orders <- [o \in Orders |->
                 [status |-> orders[o].status,
                  paymentStatus |-> orders[o].legs["payment"],
                  inventoryStatus |-> orders[o].legs["inventory"]]]

\* With one instance the statements of a handler amount to one atomic step of
\* OrderService, the module that CheckoutSaga composes.
SettlementsAreAtomic ==
    [][Alone => \E a \in {OutcomeEvent(e) : e \in Event} :
                        \/ Atomic!OnPaymentCompleted(a)
                        \/ Atomic!OnPaymentFailed(a)
                        \/ Atomic!OnInventoryReserved(a)
                        \/ Atomic!OnInventoryRejected(a)]_<<
          orders, processed, outbox>>
=============================================================================
