----------------------- MODULE OrderSettlementProofs -----------------------
(***************************************************************************)
(* Proofs about OrderSettlement, for any number of instances, orders and   *)
(* failures.                                                               *)
(*                                                                         *)
(* Neither property is inductive: what an instance has read may be stale.  *)
(* What carries both is that the leg's UPDATE works on the row as the last *)
(* transaction left it, and locks it until its own commit: so the row that *)
(* is committed is always the committed row with one leg more, and settled *)
(* if its legs say so.                                                     *)
(*                                                                         *)
(* A part is about a single instance, whose handlers are shown to be those *)
(* of OrderService, and one about how often an order is announced.         *)
(***************************************************************************)
EXTENDS OrderSettlement, FiniteSetTheorems, TLAPS

\* A row is settled exactly when its legs decide it.
RowFits(row) ==
    /\ row.status = "CANCELLED" <=> AnyLegFailed(row)
    /\ row.status = "CONFIRMED" <=> BothLegsSucceeded(row)

\* Legs are undecided, or as the other services decided them.
RowInv ==
    \A o \in Orders :
        /\ RowFits(orders[o])
        /\ \A l \in Legs : orders[o].legs[l] \in {"PENDING", outcome[o][l]}

\* What handler h is about to commit: its order's row with its own leg.
Updated(h) ==
    LET o == h.event.orderId
        l == h.event.leg
    IN  /\ h.row.legs = [orders[o].legs EXCEPT ![l] = outcome[o][l]]
        /\ RowFits(h.row)
        /\ h.staged = "orders.cancelled" <=> AnyLegFailed(h.row)
        /\ h.staged = "orders.confirmed" <=> BothLegsSucceeded(h.row)

\* What a handler's step says of its transaction.
HandlerInv ==
    \A w \in Instances :
        Busy(w) =>
            /\ tx[w].locked => tx[w].step = "commit" /\ Updated(tx[w])
            /\ ~tx[w].locked /\ tx[w].step # "done" => tx[w].staged = NoTopic
            /\ ~tx[w].locked /\ tx[w].step = "commit" =>
                  orders[OrderOf(w)].status # "PENDING"
            /\ tx[w].step = "done" => tx[w].event \in processed

\* A row is locked by one transaction at a time.
LockInv ==
    \A w, v \in Instances :
        Busy(w) /\ Busy(v) /\ tx[w].locked /\ tx[v].locked /\ OrderOf(w) = OrderOf(v)
            => w = v

\* What is processed is in its order's row, unless the order was settled first.
ProcessedInv ==
    /\ handled \subseteq processed
    /\ \A e \in processed :
          \/ orders[e.orderId].status # "PENDING"
          \/ orders[e.orderId].legs[e.leg] = outcome[e.orderId][e.leg]

\* Announcements agree with the status of the order.
OutboxInv ==
    \A o \in Orders :
        /\ outbox[o]["orders.confirmed"] > 0 <=> orders[o].status = "CONFIRMED"
        /\ outbox[o]["orders.cancelled"] > 0 <=> orders[o].status = "CANCELLED"

IInv ==
    /\ TypeOK
    /\ RowInv
    /\ HandlerInv
    /\ LockInv
    /\ ProcessedInv
    /\ OutboxInv

-----------------------------------------------------------------------------
\* A row with a leg decided is a row.
LEMMA LegDecided ==
    ASSUME NEW row \in OrderRow, NEW l \in Legs, NEW v \in Outcome
    PROVE  LET new == [row EXCEPT !.legs[l] = v]
           IN  /\ new \in OrderRow
               /\ new.status = row.status
               /\ new.legs = [row.legs EXCEPT ![l] = v]
BY DEF OrderRow, Leg, Outcome

\* Deciding a leg as its service did, and settling, makes a row that fits, and
\* stages what its status says.
LEMMA SettleFits ==
    ASSUME NEW h \in Handler, h.staged = NoTopic,
           NEW old \in OrderRow, RowFits(old),
           NEW l \in Legs, NEW decided \in [Legs -> Outcome],
           \A k \in Legs : old.legs[k] \in {"PENDING", decided[k]},
           NEW row \in OrderRow, row.status = old.status,
           row.legs = [old.legs EXCEPT ![l] = decided[l]]
    PROVE  LET new == Settle(h, row)
           IN  /\ new \in Handler
               /\ new.event = h.event
               /\ new.row.legs = row.legs
               /\ RowFits(new.row)
               /\ new.staged = "orders.cancelled" <=> AnyLegFailed(new.row)
               /\ new.staged = "orders.confirmed" <=> BothLegsSucceeded(new.row)
<1>1. \A k \in Legs : row.legs[k] = IF k = l THEN decided[l] ELSE old.legs[k]
  BY DEF OrderRow
<1>2. ~(AnyLegFailed(row) /\ BothLegsSucceeded(row))
  BY DEF AnyLegFailed, BothLegsSucceeded, Legs
<1>3. AnyLegFailed(old) => AnyLegFailed(row)
  <2> SUFFICES ASSUME NEW k \in Legs, old.legs[k] = "FAILED" PROVE row.legs[k] = "FAILED"
    BY DEF AnyLegFailed
  <2>1. decided[k] = "FAILED"
    OBVIOUS
  <2> QED
    BY <1>1, <2>1
<1>4. BothLegsSucceeded(old) => BothLegsSucceeded(row)
  <2> SUFFICES ASSUME BothLegsSucceeded(old), NEW k \in Legs PROVE row.legs[k] = "SUCCEEDED"
    BY DEF BothLegsSucceeded
  <2>1. old.legs[k] = "SUCCEEDED" /\ decided[k] = "SUCCEEDED"
    BY DEF BothLegsSucceeded
  <2> QED
    BY <1>1, <2>1
<1>5. CASE AnyLegFailed(row)
  <2> DEFINE settled == [row EXCEPT !.status = "CANCELLED"]
             new == Settle(h, row)
  <2>1. settled \in OrderRow
    BY DEF OrderRow, OrderStatus
  <2>2. new = [h EXCEPT !.row = settled, !.staged = "orders.cancelled"]
    BY <1>5 DEF Settle
  <2>3. settled.legs = row.legs /\ settled.status = "CANCELLED"
    BY DEF OrderRow
  <2> HIDE DEF new, settled
  <2>4. /\ new \in Handler /\ new.event = h.event
        /\ new.staged = "orders.cancelled" /\ new.row = settled
    BY <2>1, <2>2 DEF Handler, Announcements
  <2>5. AnyLegFailed(new.row) /\ ~BothLegsSucceeded(new.row)
    BY <1>2, <1>5, <2>3, <2>4 DEF AnyLegFailed, BothLegsSucceeded
  <2>6. RowFits(new.row)
    BY <2>3, <2>4, <2>5 DEF RowFits
  <2> QED
    BY <2>3, <2>4, <2>5, <2>6 DEF new
<1>6. CASE ~AnyLegFailed(row) /\ BothLegsSucceeded(row)
  <2> DEFINE settled == [row EXCEPT !.status = "CONFIRMED"]
             new == Settle(h, row)
  <2>1. settled \in OrderRow
    BY DEF OrderRow, OrderStatus
  <2>2. new = [h EXCEPT !.row = settled, !.staged = "orders.confirmed"]
    BY <1>6 DEF Settle
  <2>3. settled.legs = row.legs /\ settled.status = "CONFIRMED"
    BY DEF OrderRow
  <2> HIDE DEF new, settled
  <2>4. /\ new \in Handler /\ new.event = h.event
        /\ new.staged = "orders.confirmed" /\ new.row = settled
    BY <2>1, <2>2 DEF Handler, Announcements
  <2>5. ~AnyLegFailed(new.row) /\ BothLegsSucceeded(new.row)
    BY <1>2, <1>6, <2>3, <2>4 DEF AnyLegFailed, BothLegsSucceeded
  <2>6. RowFits(new.row)
    BY <2>3, <2>4, <2>5 DEF RowFits
  <2> QED
    BY <2>3, <2>4, <2>5, <2>6 DEF new
<1>7. CASE ~AnyLegFailed(row) /\ ~BothLegsSucceeded(row)
  <2> DEFINE new == Settle(h, row)
  <2>1. new = [h EXCEPT !.row = row]
    BY <1>7 DEF Settle
  <2>2. new \in Handler /\ new.event = h.event /\ new.staged = NoTopic /\ new.row = row
    BY <2>1 DEF Handler
  <2>3. row.status \notin {"CANCELLED", "CONFIRMED"}
    BY <1>3, <1>4, <1>7 DEF RowFits
  <2> HIDE DEF new
  <2>4. RowFits(new.row)
    BY <1>7, <2>2, <2>3 DEF RowFits
  <2> QED
    BY <1>7, <2>2, <2>4 DEF NoTopic, new
<1> QED
  BY <1>5, <1>6, <1>7

-----------------------------------------------------------------------------
\* Nothing is decided, and nobody is at work, at the start.
LEMMA InitIInv == Init => IInv
<1> SUFFICES ASSUME Init PROVE IInv
  OBVIOUS
<1>1. Undecided \in OrderRow /\ RowFits(Undecided)
      /\ \A l \in Legs : Undecided.legs[l] = "PENDING"
  BY DEF Undecided, OrderRow, OrderStatus, Leg, Outcome, RowFits, AnyLegFailed,
         BothLegsSucceeded, Legs
<1>2. TypeOK
  BY <1>1, FailuresAssumption DEF Init, TypeOK
<1>3. RowInv
  BY <1>1 DEF Init, RowInv
<1>4. HandlerInv /\ LockInv
  BY DEF Init, HandlerInv, LockInv, Busy
<1>5. ProcessedInv
  BY DEF Init, ProcessedInv
<1>6. OutboxInv
  BY DEF Init, OutboxInv, Undecided, Announcements
<1> QED
  BY <1>2, <1>3, <1>4, <1>5, <1>6 DEF IInv

\* A statement that commits nothing and takes no lock keeps the invariant if the
\* handler it leaves agrees with the tables.
LEMMA ContinueKeepsIInv ==
    ASSUME IInv, NEW w \in deployed, NEW h \in Handler, Continue(w, h),
           ~h.locked,
           h.step # "done" => h.staged = NoTopic,
           h.step = "commit" => orders[h.event.orderId].status # "PENDING",
           h.step = "done" => h.event \in processed
    PROVE  IInv'
<1>1. /\ w \in Instances
      /\ \A v \in Instances : tx'[v] = IF v = w THEN h ELSE tx[v]
      /\ tx' \in [Instances -> Handler \cup {Idle}]
  BY DEF Continue, IInv, TypeOK
<1>2. UNCHANGED <<outcome, orders, processed, outbox, handled, deployed, failures>>
  BY DEF Continue, tables
<1>3. TypeOK'
  BY <1>1, <1>2 DEF IInv, TypeOK
<1>4. RowInv' /\ ProcessedInv' /\ OutboxInv'
  BY <1>2 DEF IInv, RowInv, RowFits, AnyLegFailed, BothLegsSucceeded, ProcessedInv, OutboxInv
<1>5. HandlerInv'
  <2> SUFFICES ASSUME NEW v \in Instances, Busy(v)'
               PROVE  /\ tx'[v].locked => tx'[v].step = "commit" /\ Updated(tx[v])'
                      /\ ~tx'[v].locked /\ tx'[v].step # "done" => tx'[v].staged = NoTopic
                      /\ ~tx'[v].locked /\ tx'[v].step = "commit" =>
                            orders'[tx'[v].event.orderId].status # "PENDING"
                      /\ tx'[v].step = "done" => tx'[v].event \in processed'
    BY DEF HandlerInv, OrderOf
  <2>1. CASE v = w
    BY <1>1, <1>2, <2>1
  <2>2. CASE v # w
    <3>1. tx'[v] = tx[v] /\ Busy(v)
      BY <1>1, <2>2 DEF Busy
    <3>2. Updated(tx[v]) => Updated(tx[v])'
      BY <1>2, <3>1 DEF Updated, RowFits, AnyLegFailed, BothLegsSucceeded
    <3> QED
      BY <1>2, <3>1, <3>2 DEF IInv, HandlerInv, OrderOf
  <2> QED
    BY <2>1, <2>2
<1>6. LockInv'
  BY <1>1 DEF IInv, LockInv, Busy, OrderOf
<1> QED
  BY <1>3, <1>4, <1>5, <1>6 DEF IInv

\* A handler at work has its type, and its instance is deployed.
LEMMA BusyHandler ==
    ASSUME TypeOK, NEW w \in Instances, Busy(w)
    PROVE  /\ tx[w] \in Handler /\ w \in deployed
           /\ OrderOf(w) \in Orders /\ tx[w].event.leg \in Legs
           /\ orders[OrderOf(w)] \in OrderRow
           /\ outcome[OrderOf(w)] \in [Legs -> Outcome]
BY DEF TypeOK, Busy, Handler, Event, OrderOf

\* A handler that has just been given its event claims nothing.
LEMMA DeliverKeepsIInv ==
    ASSUME IInv, NEW w \in Instances, NEW e \in Event, Deliver(w, e)
    PROVE  IInv'
<1> DEFINE h == [step |-> "mark", event |-> e, row |-> Undecided,
                 staged |-> NoTopic, locked |-> FALSE]
<1>1. h \in Handler
  BY DEF Handler, Undecided, OrderRow, OrderStatus, Leg, Outcome, Legs
<1>2. Continue(w, h) /\ w \in deployed
  BY DEF Deliver
<1>3. ~h.locked /\ h.staged = NoTopic /\ h.step = "mark"
  OBVIOUS
<1> HIDE DEF h
<1> QED
  BY <1>1, <1>2, <1>3, ContinueKeepsIInv

\* The marker is inserted, or the event is known to be processed.
LEMMA MarkProcessedKeepsIInv ==
    ASSUME IInv, NEW w \in Instances, MarkProcessed(w)
    PROVE  IInv'
<1> DEFINE h == [tx[w] EXCEPT !.step = IF tx[w].event \in processed
                                       THEN "done" ELSE "read"]
<1>1. tx[w] \in Handler /\ w \in deployed /\ Busy(w) /\ tx[w].step = "mark"
  BY BusyHandler DEF MarkProcessed, IInv
<1>2. ~tx[w].locked /\ tx[w].staged = NoTopic
  BY <1>1 DEF IInv, HandlerInv, Handler
<1>3. /\ h \in Handler /\ h.event = tx[w].event /\ h.staged = NoTopic /\ ~h.locked
      /\ h.step = IF tx[w].event \in processed THEN "done" ELSE "read"
  BY <1>1, <1>2 DEF Handler
<1>4. Continue(w, h)
  BY DEF MarkProcessed
<1> HIDE DEF h
<1> QED
  BY <1>1, <1>3, <1>4, ContinueKeepsIInv

\* What is read may be stale at once; only a settled status is relied upon.
LEMMA ReadOrderKeepsIInv ==
    ASSUME IInv, NEW w \in Instances, ReadOrder(w)
    PROVE  IInv'
<1> DEFINE h == [tx[w] EXCEPT
                    !.step = IF orders[OrderOf(w)].status = "PENDING"
                             THEN "update" ELSE "commit",
                    !.row = orders[OrderOf(w)]]
<1>1. /\ tx[w] \in Handler /\ w \in deployed /\ Busy(w) /\ tx[w].step = "read"
      /\ orders[OrderOf(w)] \in OrderRow
  BY BusyHandler DEF ReadOrder, IInv
<1>2. ~tx[w].locked /\ tx[w].staged = NoTopic
  BY <1>1 DEF IInv, HandlerInv, Handler
<1>3. /\ h \in Handler /\ h.event = tx[w].event /\ h.staged = NoTopic /\ ~h.locked
      /\ h.step = IF orders[OrderOf(w)].status = "PENDING" THEN "update" ELSE "commit"
  BY <1>1, <1>2 DEF Handler
<1>4. Continue(w, h)
  BY DEF ReadOrder
<1> HIDE DEF h
<1> QED
  BY <1>1, <1>3, <1>4, ContinueKeepsIInv DEF OrderOf

\* The UPDATE works on the committed row, and locks it.
LEMMA UpdateLegKeepsIInv ==
    ASSUME IInv, NEW w \in Instances, UpdateLeg(w)
    PROVE  IInv'
<1> DEFINE o == OrderOf(w)
           l == tx[w].event.leg
           row == WithLeg(w, orders[o])
           s == Settle(tx[w], row)
           h == [s EXCEPT !.step = "commit", !.locked = TRUE]
<1>1. /\ tx[w] \in Handler /\ w \in deployed /\ Busy(w) /\ tx[w].step = "update"
      /\ o \in Orders /\ l \in Legs /\ orders[o] \in OrderRow
      /\ outcome[o] \in [Legs -> Outcome]
  BY BusyHandler DEF UpdateLeg, IInv
<1>2. ~tx[w].locked /\ tx[w].staged = NoTopic
  BY <1>1 DEF IInv, HandlerInv, Handler
<1>3. /\ row \in OrderRow /\ row.status = orders[o].status
      /\ row.legs = [orders[o].legs EXCEPT ![l] = outcome[o][l]]
  BY <1>1, LegDecided DEF WithLeg
<1>4. RowFits(orders[o]) /\ \A k \in Legs : orders[o].legs[k] \in {"PENDING", outcome[o][k]}
  BY <1>1 DEF IInv, RowInv
<1> HIDE DEF row
<1>5. /\ s \in Handler
      /\ s.event = tx[w].event
      /\ s.row.legs = row.legs
      /\ RowFits(s.row)
      /\ s.staged = "orders.cancelled" <=> AnyLegFailed(s.row)
      /\ s.staged = "orders.confirmed" <=> BothLegsSucceeded(s.row)
  BY <1>1, <1>2, <1>3, <1>4, SettleFits
<1> HIDE DEF s
<1>6. /\ h \in Handler /\ h.step = "commit" /\ h.locked
      /\ h.event = tx[w].event /\ h.row = s.row /\ h.staged = s.staged
  BY <1>5 DEF Handler
<1>7. Continue(w, h)
  BY DEF UpdateLeg, s, row
<1> HIDE DEF h
<1>8. /\ \A v \in Instances : tx'[v] = IF v = w THEN h ELSE tx[v]
      /\ tx' \in [Instances -> Handler \cup {Idle}]
      /\ UNCHANGED <<outcome, orders, processed, outbox, handled, deployed, failures>>
  BY <1>6, <1>7 DEF Continue, tables, IInv, TypeOK
<1>9. TypeOK'
  BY <1>1, <1>8 DEF IInv, TypeOK
<1>10. RowInv' /\ ProcessedInv' /\ OutboxInv'
  BY <1>8 DEF IInv, RowInv, RowFits, AnyLegFailed, BothLegsSucceeded, ProcessedInv, OutboxInv
<1>11. Updated(h)
  BY <1>3, <1>5, <1>6 DEF Updated, OrderOf
<1>12. HandlerInv'
  <2> SUFFICES ASSUME NEW v \in Instances, Busy(v)'
               PROVE  /\ tx'[v].locked => tx'[v].step = "commit" /\ Updated(tx[v])'
                      /\ ~tx'[v].locked /\ tx'[v].step # "done" => tx'[v].staged = NoTopic
                      /\ ~tx'[v].locked /\ tx'[v].step = "commit" =>
                            orders'[tx'[v].event.orderId].status # "PENDING"
                      /\ tx'[v].step = "done" => tx'[v].event \in processed'
    BY DEF HandlerInv, OrderOf
  <2>1. CASE v = w
    <3>1. tx'[v] = h
      BY <1>8, <2>1
    <3>2. Updated(tx[v])'
      BY <1>8, <1>11, <3>1 DEF Updated, RowFits, AnyLegFailed, BothLegsSucceeded
    <3> QED
      BY <1>6, <3>1, <3>2
  <2>2. CASE v # w
    <3>1. tx'[v] = tx[v] /\ Busy(v)
      BY <1>8, <2>2 DEF Busy
    <3>2. Updated(tx[v]) => Updated(tx[v])'
      BY <1>8, <3>1 DEF Updated, RowFits, AnyLegFailed, BothLegsSucceeded
    <3> QED
      BY <1>8, <3>1, <3>2 DEF IInv, HandlerInv, OrderOf
  <2> QED
    BY <2>1, <2>2
<1>13. LockInv'
  <2>1. \A v \in Instances \ {w} : Busy(v) /\ tx[v].locked => OrderOf(v) # o
    <3> SUFFICES ASSUME NEW v \in Instances \ {w}, Busy(v), tx[v].locked, OrderOf(v) = o
                 PROVE  FALSE
      OBVIOUS
    <3>1. tx[v].step = "commit"
      BY DEF IInv, HandlerInv
    <3> QED
      BY <3>1 DEF UpdateLeg, RowTaken
  <2> QED
    BY <1>6, <1>8, <2>1 DEF IInv, LockInv, Busy, OrderOf
<1> QED
  BY <1>9, <1>10, <1>12, <1>13 DEF IInv

-----------------------------------------------------------------------------
\* The commit: of a row with its leg and its announcement, or of the marker.
LEMMA CommitKeepsIInv ==
    ASSUME IInv, NEW w \in Instances, Commit(w)
    PROVE  IInv'
<1> DEFINE o == OrderOf(w)
           l == tx[w].event.leg
           e == tx[w].event
           h == [tx[w] EXCEPT !.step = "done", !.locked = FALSE]
<1>1. /\ tx[w] \in Handler /\ w \in deployed /\ Busy(w) /\ tx[w].step = "commit"
      /\ o \in Orders /\ l \in Legs /\ orders[o] \in OrderRow
      /\ outcome[o] \in [Legs -> Outcome]
  BY BusyHandler DEF Commit, IInv
<1>2. e \in Event /\ e.orderId = o /\ e.leg = l /\ tx[w].row \in OrderRow
      /\ tx[w].locked \in BOOLEAN
  BY <1>1 DEF Handler, OrderOf
<1>3. /\ tx[w].locked => Updated(tx[w])
      /\ ~tx[w].locked => tx[w].staged = NoTopic /\ orders[o].status # "PENDING"
  BY <1>1, <1>2 DEF IInv, HandlerInv
<1>4. h \in Handler /\ h.step = "done" /\ ~h.locked /\ h.event = e
  BY <1>1 DEF Handler
<1>5. /\ processed' = processed \cup {e}
      /\ \A v \in Instances : tx'[v] = IF v = w THEN h ELSE tx[v]
      /\ tx' \in [Instances -> Handler \cup {Idle}]
      /\ UNCHANGED <<outcome, handled, deployed, failures>>
  <2>1. tx' = [tx EXCEPT ![w] = h]
    BY DEF Commit
  <2> HIDE DEF h
  <2> QED
    BY <1>4, <2>1 DEF Commit, IInv, TypeOK
<1> HIDE DEF h
<1>6. \A x \in Orders : orders'[x] = IF x = o /\ tx[w].locked THEN tx[w].row ELSE orders[x]
  BY DEF Commit, IInv, TypeOK
<1>7. orders' \in [Orders -> OrderRow]
  BY <1>1, <1>2 DEF Commit, IInv, TypeOK
<1>8. \A x \in Orders, t \in Announcements :
         outbox'[x][t] = IF x = o /\ t = tx[w].staged THEN outbox[x][t] + 1 ELSE outbox[x][t]
  BY <1>1 DEF Commit, IInv, TypeOK
<1>9. outbox' \in [Orders -> [Announcements -> Nat]]
  BY <1>1 DEF Commit, IInv, TypeOK
<1>10. TypeOK'
  BY <1>1, <1>2, <1>5, <1>7, <1>9 DEF IInv, TypeOK
<1>11. tx[w].locked =>
          /\ orders'[o] = tx[w].row
          /\ RowFits(orders'[o])
          /\ \A k \in Legs : orders'[o].legs[k] =
                IF k = l THEN outcome[o][l] ELSE orders[o].legs[k]
  BY <1>1, <1>2, <1>3, <1>6 DEF Updated, OrderRow
<1>12. RowInv'
  <2> SUFFICES ASSUME NEW x \in Orders
               PROVE  /\ RowFits(orders'[x])
                      /\ \A k \in Legs : orders'[x].legs[k] \in {"PENDING", outcome[x][k]}
    BY <1>5 DEF RowInv, RowFits, AnyLegFailed, BothLegsSucceeded
  <2>1. CASE x = o /\ tx[w].locked
    BY <1>1, <1>11, <2>1 DEF IInv, RowInv
  <2>2. CASE ~(x = o /\ tx[w].locked)
    BY <1>6, <2>2 DEF IInv, RowInv
  <2> QED
    BY <2>1, <2>2
\* A settled order stays settled as it was.
<1>13. \A x \in Orders : orders[x].status # "PENDING" => orders'[x].status = orders[x].status
  <2> SUFFICES ASSUME NEW x \in Orders, orders[x].status # "PENDING"
               PROVE  orders'[x].status = orders[x].status
    OBVIOUS
  <2>1. RowFits(orders[x]) /\ orders[x].status \in OrderStatus
        /\ \A k \in Legs : orders[x].legs[k] \in {"PENDING", outcome[x][k]}
    BY DEF IInv, RowInv, TypeOK, OrderRow
  <2>2. CASE x = o /\ tx[w].locked
    <3>1. CASE orders[x].status = "CANCELLED"
      <4>1. PICK k \in Legs : orders[x].legs[k] = "FAILED"
        BY <2>1, <3>1 DEF RowFits, AnyLegFailed
      <4>2. outcome[x][k] = "FAILED"
        BY <2>1, <4>1
      <4>3. orders'[x].legs[k] = "FAILED"
        BY <1>11, <2>2, <4>1, <4>2
      <4> QED
        BY <1>11, <2>2, <3>1, <4>3 DEF RowFits, AnyLegFailed
    <3>2. CASE orders[x].status = "CONFIRMED"
      <4>1. \A k \in Legs : orders[x].legs[k] = "SUCCEEDED" /\ outcome[x][k] = "SUCCEEDED"
        BY <2>1, <3>2 DEF RowFits, BothLegsSucceeded
      <4>2. \A k \in Legs : orders'[x].legs[k] = "SUCCEEDED"
        BY <1>1, <1>11, <2>2, <4>1
      <4> QED
        BY <1>11, <2>2, <3>2, <4>2 DEF RowFits, BothLegsSucceeded
    <3> QED
      BY <2>1, <3>1, <3>2 DEF OrderStatus
  <2>3. CASE ~(x = o /\ tx[w].locked)
    BY <1>6, <2>3
  <2> QED
    BY <2>2, <2>3
<1>14. HandlerInv'
  <2> SUFFICES ASSUME NEW v \in Instances, Busy(v)'
               PROVE  /\ tx'[v].locked => tx'[v].step = "commit" /\ Updated(tx[v])'
                      /\ ~tx'[v].locked /\ tx'[v].step # "done" => tx'[v].staged = NoTopic
                      /\ ~tx'[v].locked /\ tx'[v].step = "commit" =>
                            orders'[tx'[v].event.orderId].status # "PENDING"
                      /\ tx'[v].step = "done" => tx'[v].event \in processed'
    BY DEF HandlerInv, OrderOf
  <2>1. CASE v = w
    BY <1>4, <1>5, <2>1
  <2>2. CASE v # w
    <3>1. tx'[v] = tx[v] /\ Busy(v) /\ OrderOf(v) \in Orders
      BY <1>5, <2>2, BusyHandler DEF Busy, IInv
    <3>2. tx[v].locked => orders'[OrderOf(v)] = orders[OrderOf(v)]
      BY <1>1, <1>6, <2>2, <3>1 DEF IInv, LockInv
    <3>3. tx[v].locked => Updated(tx[v])'
      BY <1>5, <3>1, <3>2
      DEF IInv, HandlerInv, Updated, OrderOf, RowFits, AnyLegFailed, BothLegsSucceeded
    <3> QED
      BY <1>5, <1>13, <3>1, <3>3 DEF IInv, HandlerInv, OrderOf
  <2> QED
    BY <2>1, <2>2
<1>15. LockInv'
  BY <1>4, <1>5 DEF IInv, LockInv, Busy, OrderOf
<1>16. ProcessedInv'
  <2>1. handled' \subseteq processed'
    BY <1>5 DEF IInv, ProcessedInv
  <2>2. ASSUME NEW f \in processed'
        PROVE  \/ orders'[f.orderId].status # "PENDING"
               \/ orders'[f.orderId].legs[f.leg] = outcome'[f.orderId][f.leg]
    <3>1. CASE f = e
      BY <1>1, <1>2, <1>3, <1>5, <1>6, <1>11, <3>1
    <3>2. CASE f \in processed
      <4>1. f \in Event /\ f.orderId \in Orders /\ f.leg \in Legs
        BY <3>2 DEF IInv, TypeOK, Event
      <4>2. \/ orders[f.orderId].status # "PENDING"
            \/ orders[f.orderId].legs[f.leg] = outcome[f.orderId][f.leg]
        BY <3>2 DEF IInv, ProcessedInv
      <4>3. CASE orders[f.orderId].status # "PENDING"
        BY <1>13, <4>1, <4>3
      <4>4. CASE orders[f.orderId].legs[f.leg] = outcome[f.orderId][f.leg]
        BY <1>5, <1>6, <1>11, <4>1, <4>4
      <4> QED
        BY <4>2, <4>3, <4>4
    <3> QED
      BY <1>5, <3>1, <3>2
  <2> QED
    BY <2>1, <2>2 DEF ProcessedInv
<1>17. OutboxInv'
  <2> SUFFICES ASSUME NEW x \in Orders
               PROVE  /\ outbox'[x]["orders.confirmed"] > 0 <=> orders'[x].status = "CONFIRMED"
                      /\ outbox'[x]["orders.cancelled"] > 0 <=> orders'[x].status = "CANCELLED"
    BY DEF OutboxInv
  <2>1. /\ outbox[x]["orders.confirmed"] \in Nat /\ outbox[x]["orders.cancelled"] \in Nat
        /\ outbox[x]["orders.confirmed"] > 0 <=> orders[x].status = "CONFIRMED"
        /\ outbox[x]["orders.cancelled"] > 0 <=> orders[x].status = "CANCELLED"
    BY DEF IInv, TypeOK, OutboxInv, Announcements
  <2>2. /\ outbox'[x]["orders.confirmed"] =
              IF x = o /\ tx[w].staged = "orders.confirmed"
              THEN outbox[x]["orders.confirmed"] + 1 ELSE outbox[x]["orders.confirmed"]
        /\ outbox'[x]["orders.cancelled"] =
              IF x = o /\ tx[w].staged = "orders.cancelled"
              THEN outbox[x]["orders.cancelled"] + 1 ELSE outbox[x]["orders.cancelled"]
    BY <1>8 DEF Announcements
  <2>3. CASE x = o /\ tx[w].locked
    <3>1. /\ tx[w].staged = "orders.cancelled" <=> orders'[x].status = "CANCELLED"
          /\ tx[w].staged = "orders.confirmed" <=> orders'[x].status = "CONFIRMED"
      BY <1>3, <1>11, <2>3 DEF Updated, RowFits
    <3> QED
      BY <1>13, <2>1, <2>2, <2>3, <3>1
  <2>4. CASE ~(x = o /\ tx[w].locked)
    BY <1>3, <1>6, <2>1, <2>2, <2>4 DEF NoTopic
  <2> QED
    BY <2>3, <2>4
<1> QED
  BY <1>10, <1>12, <1>14, <1>15, <1>16, <1>17 DEF IInv

\* An instance becomes idle, having committed or having failed.
LEMMA IdleKeepsIInv ==
    ASSUME IInv, NEW w \in Instances, tx' = [tx EXCEPT ![w] = Idle],
           failures' \in 0..MaxFailures,
           handled' = handled \/ (\E e \in processed : handled' = handled \cup {e}),
           UNCHANGED <<outcome, tables, deployed>>
    PROVE  IInv'
<1>1. /\ \A v \in Instances : tx'[v] = IF v = w THEN Idle ELSE tx[v]
      /\ tx' \in [Instances -> Handler \cup {Idle}]
  BY DEF IInv, TypeOK
<1>2. UNCHANGED <<outcome, orders, processed, outbox, deployed>>
  BY DEF tables
<1>3. TypeOK'
  BY <1>1, <1>2 DEF IInv, TypeOK
<1>4. RowInv' /\ OutboxInv'
  BY <1>2 DEF IInv, RowInv, RowFits, AnyLegFailed, BothLegsSucceeded, OutboxInv
<1>5. ProcessedInv'
  BY <1>2 DEF IInv, ProcessedInv
<1>6. HandlerInv'
  <2> SUFFICES ASSUME NEW v \in Instances, Busy(v)'
               PROVE  /\ tx'[v].locked => tx'[v].step = "commit" /\ Updated(tx[v])'
                      /\ ~tx'[v].locked /\ tx'[v].step # "done" => tx'[v].staged = NoTopic
                      /\ ~tx'[v].locked /\ tx'[v].step = "commit" =>
                            orders'[tx'[v].event.orderId].status # "PENDING"
                      /\ tx'[v].step = "done" => tx'[v].event \in processed'
    BY DEF HandlerInv, OrderOf
  <2>1. tx'[v] = tx[v] /\ Busy(v)
    BY <1>1 DEF Busy
  <2>2. Updated(tx[v]) => Updated(tx[v])'
    BY <1>2, <2>1 DEF Updated, RowFits, AnyLegFailed, BothLegsSucceeded
  <2> QED
    BY <1>2, <2>1, <2>2 DEF IInv, HandlerInv, OrderOf
<1>7. LockInv'
  BY <1>1 DEF IInv, LockInv, Busy, OrderOf
<1> QED
  BY <1>3, <1>4, <1>5, <1>6, <1>7 DEF IInv

\* Every step of every instance keeps the invariant.
LEMMA NextKeepsIInv == IInv /\ [Next]_vars => IInv'
<1> SUFFICES ASSUME IInv, [Next]_vars PROVE IInv'
  OBVIOUS
<1>1. ASSUME NEW w \in Instances, NEW e \in Event, Deliver(w, e) PROVE IInv'
  BY <1>1, DeliverKeepsIInv
<1>2. ASSUME NEW w \in Instances, Proceed(w) PROVE IInv'
  <2>1. CASE Acknowledge(w)
    <3>1. tx[w].event \in processed
      BY <2>1 DEF Acknowledge, IInv, HandlerInv
    <3> QED
      BY <2>1, <3>1, IdleKeepsIInv DEF Acknowledge, IInv, TypeOK
  <2> QED
    BY <1>2, <2>1, MarkProcessedKeepsIInv, ReadOrderKeepsIInv, UpdateLegKeepsIInv,
       CommitKeepsIInv DEF Proceed
<1>3. ASSUME NEW w \in Instances, Fail(w) PROVE IInv'
  <2>1. failures' \in 0..MaxFailures
    BY <1>3, FailuresAssumption DEF Fail, IInv, TypeOK
  <2> QED
    BY <1>3, <2>1, IdleKeepsIInv DEF Fail
<1>4. CASE UNCHANGED vars
  <2>1. \A w : Busy(w)' <=> Busy(w)
    BY <1>4 DEF vars, Busy
  <2>2. TypeOK' /\ RowInv'
    BY <1>4 DEF vars, IInv, TypeOK, RowInv
  <2>3. HandlerInv'
    BY <1>4 DEF vars, IInv, HandlerInv, Updated, Busy, OrderOf
  <2>4. LockInv'
    BY <1>4 DEF vars, IInv, LockInv, Busy, OrderOf
  <2>5. ProcessedInv' /\ OutboxInv'
    BY <1>4 DEF vars, IInv, ProcessedInv, OutboxInv
  <2> QED
    BY <2>2, <2>3, <2>4, <2>5 DEF IInv
<1> QED
  BY <1>1, <1>2, <1>3, <1>4 DEF Next

-----------------------------------------------------------------------------
\* What the rows, the markers and every open transaction say of each other holds
\* in every state, with any number of instances.
THEOREM InductiveInvariant == Spec => []IInv
BY InitIInv, NextKeepsIInv, PTL DEF Spec

\* However many instances settle an order at once, the verdict fits its legs and
\* is never announced both ways (applyLegOutcome).
THEOREM VerdictsFit == Spec => []VerdictFitsTheLegs
<1>1. IInv => VerdictFitsTheLegs
  <2> SUFFICES ASSUME IInv, NEW o \in Orders, orders[o].status = "CONFIRMED"
               PROVE  outcome[o] = [l \in Legs |-> "SUCCEEDED"]
    BY DEF IInv, RowInv, RowFits, OutboxInv, VerdictFitsTheLegs
  <2>1. \A l \in Legs : outcome[o][l] = "SUCCEEDED"
    BY DEF IInv, RowInv, RowFits, BothLegsSucceeded
  <2> QED
    BY <2>1 DEF IInv, TypeOK
<1> QED
  BY <1>1, InductiveInvariant, PTL

\* Once both outcomes of an order are handled, by whichever instances and from
\* whatever they had read, the order is settled.
THEOREM LegsAreNotLost == Spec => []NoLegIsLost
<1>1. IInv => NoLegIsLost
  <2> SUFFICES ASSUME IInv, NEW o \in Orders,
                      \A l \in Legs : [orderId |-> o, leg |-> l] \in handled,
                      orders[o].status = "PENDING"
               PROVE  FALSE
    BY DEF NoLegIsLost
  <2>1. \A l \in Legs : orders[o].legs[l] = outcome[o][l]
    <3> TAKE l \in Legs
    <3>1. [orderId |-> o, leg |-> l] \in processed
      BY DEF IInv, ProcessedInv
    <3> QED
      BY <3>1 DEF IInv, ProcessedInv
  <2>2. \A l \in Legs : outcome[o][l] \in {"SUCCEEDED", "FAILED"}
    BY DEF IInv, TypeOK, Outcome
  <2>3. AnyLegFailed(orders[o]) \/ BothLegsSucceeded(orders[o])
    BY <2>1, <2>2 DEF AnyLegFailed, BothLegsSucceeded
  <2> QED
    BY <2>3 DEF IInv, RowInv, RowFits
<1> QED
  BY <1>1, InductiveInvariant, PTL

-----------------------------------------------------------------------------
(***************************************************************************)
(* How often an order is announced.  The marker of an outcome is a lock on *)
(* it, so that each outcome is committed once; and each of the two commits *)
(* of an order announces at most one event.                                *)
(***************************************************************************)
\* A transaction that is past its marker and not over.
PastMarker(h) == h.step \in {"read", "update", "commit"}

\* The marker of an event is held by one transaction at a time, before it is
\* committed.
MarkerInv ==
    /\ \A w \in Instances :
          Busy(w) /\ PastMarker(tx[w]) => tx[w].event \notin processed
    /\ \A w, v \in Instances :
          /\ Busy(w) /\ Busy(v)
          /\ tx[w].event = tx[v].event
          /\ PastMarker(tx[w]) /\ PastMarker(tx[v])
          => w = v

\* A leg is decided by the commit that processes its outcome.
DecidedInv ==
    \A o \in Orders, l \in Legs :
        orders[o].legs[l] # "PENDING" => [orderId |-> o, leg |-> l] \in processed

\* The commits of o's outcomes there have been.
Commits(o) ==
    (IF [orderId |-> o, leg |-> "payment"] \in processed THEN 1 ELSE 0)
        + (IF [orderId |-> o, leg |-> "inventory"] \in processed THEN 1 ELSE 0)

CountInv ==
    \A o \in Orders : /\ outbox[o]["orders.confirmed"] <= 1
                      /\ outbox[o]["orders.cancelled"] <= Commits(o)

AnnouncementInv == MarkerInv /\ DecidedInv /\ CountInv

\* A statement that commits nothing keeps the markers, if the handler it leaves is
\* the only one past the marker of an event that is not processed.
LEMMA ContinueKeepsAnnouncementInv ==
    ASSUME IInv, AnnouncementInv, NEW w \in Instances, NEW h,
           tx' = [tx EXCEPT ![w] = h], UNCHANGED tables,
           \/ h = Idle
           \/ ~PastMarker(h)
           \/ /\ h.event \notin processed
              /\ \A v \in Instances \ {w} :
                    Busy(v) /\ tx[v].event = h.event => ~PastMarker(tx[v])
    PROVE  AnnouncementInv'
<1>1. tx'[w] = h /\ \A v \in Instances \ {w} : tx'[v] = tx[v]
  BY DEF IInv, TypeOK
<1>2. UNCHANGED <<orders, processed, outbox>>
  BY DEF tables
<1>3. MarkerInv'
  BY <1>1, <1>2 DEF AnnouncementInv, MarkerInv, Busy
<1>4. DecidedInv' /\ CountInv'
  BY <1>2 DEF AnnouncementInv, DecidedInv, CountInv, Commits
<1> QED
  BY <1>3, <1>4 DEF AnnouncementInv

\* The marker that a transaction holds stays its own.
LEMMA PastMarkerStays ==
    ASSUME IInv, AnnouncementInv, NEW w \in Instances, Busy(w), PastMarker(tx[w]), NEW h,
           tx' = [tx EXCEPT ![w] = h], UNCHANGED tables, h.event = tx[w].event
    PROVE  AnnouncementInv'
<1>1. /\ h.event \notin processed
      /\ \A v \in Instances \ {w} :
            Busy(v) /\ tx[v].event = h.event => ~PastMarker(tx[v])
  BY DEF AnnouncementInv, MarkerInv
<1> QED
  BY <1>1, ContinueKeepsAnnouncementInv

\* A commit processes an outcome that was not processed, decides its leg and
\* announces one event at most.
LEMMA CommitKeepsAnnouncementInv ==
    ASSUME IInv, AnnouncementInv, NEW w \in Instances, Commit(w)
    PROVE  AnnouncementInv'
<1> DEFINE e == tx[w].event
           o == OrderOf(w)
           h == [tx[w] EXCEPT !.step = "done", !.locked = FALSE]
<1>1. /\ Busy(w) /\ tx[w] \in Handler /\ tx[w].step = "commit" /\ o \in Orders
      /\ e.leg \in Legs /\ e = [orderId |-> o, leg |-> e.leg] /\ PastMarker(tx[w])
      /\ tx[w].locked \in BOOLEAN
  BY BusyHandler DEF Commit, IInv, PastMarker, Handler, Event, OrderOf
<1>2. e \notin processed /\ processed' = processed \cup {e}
  BY <1>1 DEF AnnouncementInv, MarkerInv, Commit
<1>3. tx' = [tx EXCEPT ![w] = h]
  BY <1>1 DEF Commit, IInv, TypeOK, Handler
<1>4. h.step = "done"
  BY <1>1 DEF Handler
<1> HIDE DEF h
<1>5. tx'[w] = h /\ \A v \in Instances \ {w} : tx'[v] = tx[v]
  BY <1>3 DEF IInv, TypeOK
<1>6. MarkerInv'
  <2>1. ~PastMarker(tx'[w])
    BY <1>4, <1>5 DEF PastMarker
  <2>2. \A v \in Instances \ {w} : Busy(v) /\ PastMarker(tx[v]) => tx[v].event # e
    BY <1>1 DEF AnnouncementInv, MarkerInv
  <2> QED
    BY <1>2, <1>5, <2>1, <2>2 DEF AnnouncementInv, MarkerInv, Busy
<1>7. orders[o].legs[e.leg] = "PENDING"
  BY <1>1, <1>2 DEF AnnouncementInv, DecidedInv
<1>8. tx[w].locked => Updated(tx[w])
  BY <1>1 DEF IInv, HandlerInv
<1>9. /\ orders' = IF tx[w].locked THEN [orders EXCEPT ![o] = tx[w].row] ELSE orders
      /\ orders \in [Orders -> OrderRow]
  BY DEF Commit, IInv, TypeOK
<1>10. DecidedInv'
  <2> SUFFICES ASSUME NEW x \in Orders, NEW l \in Legs, orders'[x].legs[l] # "PENDING"
               PROVE  [orderId |-> x, leg |-> l] \in processed'
    BY DEF DecidedInv
  <2>1. CASE x = o /\ l = e.leg
    BY <1>1, <1>2, <2>1
  <2>2. CASE ~(x = o /\ l = e.leg)
    <3>1. CASE x = o /\ tx[w].locked
      <4>1. l # e.leg /\ orders'[x] = tx[w].row
        BY <1>1, <1>9, <2>2, <3>1
      <4>2. tx[w].row.legs = [orders[o].legs EXCEPT ![e.leg] = outcome[o][e.leg]]
        BY <1>8, <3>1 DEF Updated, OrderOf
      <4>3. orders[o].legs \in [Legs -> Leg]
        BY <1>1, <1>9 DEF OrderRow
      <4>4. orders[x].legs[l] # "PENDING"
        BY <1>1, <3>1, <4>1, <4>2, <4>3
      <4> QED
        BY <1>2, <4>4 DEF AnnouncementInv, DecidedInv
    <3>2. CASE ~(x = o /\ tx[w].locked)
      <4>1. orders'[x] = orders[x]
        BY <1>1, <1>9, <3>2
      <4> QED
        BY <1>2, <4>1 DEF AnnouncementInv, DecidedInv
    <3> QED
      BY <3>1, <3>2
  <2> QED
    BY <2>1, <2>2
<1>11. \A x \in Orders, t \in Announcements :
          /\ outbox[x][t] \in Nat
          /\ outbox'[x][t] = IF x = o /\ t = tx[w].staged THEN outbox[x][t] + 1
                                                           ELSE outbox[x][t]
  BY <1>1 DEF Commit, IInv, TypeOK
<1>12. \A x \in Orders :
          /\ Commits(x) \in Nat
          /\ Commits(x)' = IF x = o THEN Commits(x) + 1 ELSE Commits(x)
  <2> SUFFICES ASSUME NEW x \in Orders
               PROVE  /\ Commits(x) \in Nat
                      /\ Commits(x)' = IF x = o THEN Commits(x) + 1 ELSE Commits(x)
    OBVIOUS
  <2> DEFINE At(l) == [orderId |-> x, leg |-> l]
  <2>1. \A l \in Legs : At(l) = e <=> x = o /\ l = e.leg
    BY <1>1
  <2>2. \A l \in Legs : At(l) \in processed' <=> At(l) \in processed \/ At(l) = e
    BY <1>2
  <2>3. e.leg = "payment" \/ e.leg = "inventory"
    BY <1>1 DEF Legs
  <2> HIDE DEF e, o
  <2> QED
    BY <1>2, <2>1, <2>2, <2>3 DEF Commits, Legs
<1>13. tx[w].staged = "orders.confirmed" => outbox[o]["orders.confirmed"] = 0
  <2> SUFFICES ASSUME outbox[o]["orders.confirmed"] > 0 PROVE FALSE
    BY <1>1, <1>11 DEF Announcements
  <2>1. BothLegsSucceeded(orders[o])
    BY <1>1 DEF IInv, OutboxInv, RowInv, RowFits
  <2> QED
    BY <1>1, <1>7, <2>1 DEF BothLegsSucceeded
<1>14. CountInv'
  <2> SUFFICES ASSUME NEW x \in Orders
               PROVE  /\ outbox'[x]["orders.confirmed"] <= 1
                      /\ outbox'[x]["orders.cancelled"] <= Commits(x)'
    BY DEF CountInv
  <2>1. /\ outbox[x]["orders.confirmed"] <= 1
        /\ outbox[x]["orders.cancelled"] <= Commits(x)
    BY DEF AnnouncementInv, CountInv
  <2> HIDE DEF o
  <2> QED
    BY <1>11, <1>12, <1>13, <2>1 DEF Announcements
<1> QED
  BY <1>6, <1>10, <1>14 DEF AnnouncementInv

LEMMA NextKeepsAnnouncementInv ==
    IInv /\ AnnouncementInv /\ [Next]_vars => AnnouncementInv'
<1> SUFFICES ASSUME IInv, AnnouncementInv, [Next]_vars PROVE AnnouncementInv'
  OBVIOUS
<1>1. ASSUME NEW w \in Instances, NEW e \in Event, Deliver(w, e) PROVE AnnouncementInv'
  <2> DEFINE h == [step |-> "mark", event |-> e, row |-> Undecided,
                   staged |-> NoTopic, locked |-> FALSE]
  <2>1. ~PastMarker(h) /\ tx' = [tx EXCEPT ![w] = h] /\ UNCHANGED tables
    BY <1>1 DEF Deliver, Continue, PastMarker, tables
  <2> HIDE DEF h
  <2> QED
    BY <2>1, ContinueKeepsAnnouncementInv
<1>2. ASSUME NEW w \in Instances, MarkProcessed(w) PROVE AnnouncementInv'
  <2> DEFINE h == [tx[w] EXCEPT !.step = IF tx[w].event \in processed
                                         THEN "done" ELSE "read"]
  <2>1. Busy(w) /\ tx[w] \in Handler /\ ~MarkerTaken(w)
    BY <1>2, BusyHandler DEF MarkProcessed, IInv
  <2>2. tx' = [tx EXCEPT ![w] = h] /\ UNCHANGED tables
    BY <1>2 DEF MarkProcessed, Continue, tables
  <2>3. h.event = tx[w].event /\ (h.event \in processed => ~PastMarker(h))
    BY <2>1 DEF Handler, PastMarker
  <2>4. \A v \in Instances \ {w} :
           Busy(v) /\ tx[v].event = tx[w].event => ~PastMarker(tx[v])
    BY <2>1 DEF MarkerTaken, PastMarker
  <2> HIDE DEF h
  <2> QED
    BY <2>2, <2>3, <2>4, ContinueKeepsAnnouncementInv
<1>3. ASSUME NEW w \in Instances, ReadOrder(w) PROVE AnnouncementInv'
  <2> DEFINE h == [tx[w] EXCEPT
                      !.step = IF orders[OrderOf(w)].status = "PENDING"
                               THEN "update" ELSE "commit",
                      !.row = orders[OrderOf(w)]]
  <2>1. Busy(w) /\ tx[w] \in Handler /\ PastMarker(tx[w])
    BY <1>3, BusyHandler DEF ReadOrder, IInv, PastMarker
  <2>2. tx' = [tx EXCEPT ![w] = h] /\ UNCHANGED tables
    BY <1>3 DEF ReadOrder, Continue, tables
  <2>3. h.event = tx[w].event
    BY <2>1 DEF Handler
  <2> HIDE DEF h
  <2> QED
    BY <2>1, <2>2, <2>3, PastMarkerStays
<1>4. ASSUME NEW w \in Instances, UpdateLeg(w) PROVE AnnouncementInv'
  <2> DEFINE s == Settle(tx[w], WithLeg(w, orders[OrderOf(w)]))
             h == [s EXCEPT !.step = "commit", !.locked = TRUE]
  <2>1. Busy(w) /\ tx[w] \in Handler /\ PastMarker(tx[w])
    BY <1>4, BusyHandler DEF UpdateLeg, IInv, PastMarker
  <2>2. tx' = [tx EXCEPT ![w] = h] /\ UNCHANGED tables
    BY <1>4 DEF UpdateLeg, Continue, tables
  <2>3. h.event = tx[w].event
    BY <2>1 DEF Settle, Handler
  <2> HIDE DEF h
  <2> QED
    BY <2>1, <2>2, <2>3, PastMarkerStays
<1>5. ASSUME NEW w \in Instances, Acknowledge(w) \/ Fail(w) PROVE AnnouncementInv'
  BY <1>5, ContinueKeepsAnnouncementInv DEF Acknowledge, Fail, tables
<1>6. CASE UNCHANGED vars
  BY <1>6 DEF vars, AnnouncementInv, MarkerInv, DecidedInv, CountInv, Commits, Busy
<1> QED
  BY <1>1, <1>2, <1>3, <1>4, <1>5, <1>6, CommitKeepsAnnouncementInv DEF Next, Proceed

\* However many instances settle an order at once, it is announced as confirmed
\* once and as cancelled twice at most, once for each leg: what the test of the
\* status on a row that was read without a lock leaves open in applyLegOutcome.
THEOREM AnnouncedAtMostTwice ==
    Spec => [](\A o \in Orders : /\ outbox[o]["orders.confirmed"] <= 1
                                 /\ outbox[o]["orders.cancelled"] <= 2)
<1>1. Init => AnnouncementInv
  <2> SUFFICES ASSUME Init PROVE AnnouncementInv
    OBVIOUS
  <2>1. MarkerInv /\ DecidedInv
    BY DEF Init, MarkerInv, DecidedInv, Busy, Undecided
  <2>2. CountInv
    BY DEF Init, CountInv, Commits, Announcements
  <2> QED
    BY <2>1, <2>2 DEF AnnouncementInv
<1>2. IInv /\ AnnouncementInv =>
         \A o \in Orders : /\ outbox[o]["orders.confirmed"] <= 1
                           /\ outbox[o]["orders.cancelled"] <= 2
  <2> SUFFICES ASSUME IInv, AnnouncementInv, NEW o \in Orders
               PROVE  /\ outbox[o]["orders.confirmed"] <= 1
                      /\ outbox[o]["orders.cancelled"] <= 2
    OBVIOUS
  <2>1. outbox[o]["orders.cancelled"] \in Nat
    BY DEF IInv, TypeOK, Announcements
  <2>2. Commits(o) \in 0..2
    BY DEF Commits
  <2>3. /\ outbox[o]["orders.confirmed"] <= 1
        /\ outbox[o]["orders.cancelled"] <= Commits(o)
    BY DEF AnnouncementInv, CountInv
  <2> QED
    BY <2>1, <2>2, <2>3
<1> QED
  BY <1>1, <1>2, InductiveInvariant, NextKeepsAnnouncementInv, PTL DEF Spec

-----------------------------------------------------------------------------
(***************************************************************************)
(* A single instance: its transactions are atomic steps of OrderService.   *)
(***************************************************************************)
\* With one instance at work, nothing changes under its transaction.
AloneInv ==
    Alone =>
        \A w \in Instances :
            Busy(w) =>
                /\ tx[w].step \in {"read", "update", "commit"} =>
                      tx[w].event \notin processed
                /\ tx[w].step = "update" \/ tx[w].locked =>
                      orders[OrderOf(w)].status = "PENDING"

\* If one instance is deployed, only one is at work.
LEMMA OneAtWork ==
    ASSUME IInv, Alone, NEW w \in Instances, NEW v \in Instances, Busy(w), Busy(v)
    PROVE  v = w
<1>1. IsFiniteSet(deployed) /\ w \in deployed /\ v \in deployed
  BY InstancesAssumption, FS_Subset DEF IInv, TypeOK, Busy
<1>2. PICK u : deployed = {u}
  BY <1>1, FS_Singleton DEF Alone
<1> QED
  BY <1>1, <1>2

\* What holds of a single instance's transaction is kept by its own steps, the
\* only ones that touch the tables.
LEMMA StepKeepsAloneInv == IInv /\ AloneInv /\ [Next]_vars => AloneInv'
<1> DEFINE Keeps(w) ==
             /\ tx'[w].step \in {"read", "update", "commit"} =>
                   tx'[w].event \notin processed'
             /\ tx'[w].step = "update" \/ tx'[w].locked =>
                   orders'[tx'[w].event.orderId].status = "PENDING"
<1> SUFFICES ASSUME IInv, AloneInv, [Next]_vars, Alone', NEW w \in Instances, Busy(w)'
             PROVE  Keeps(w)
  BY DEF AloneInv, OrderOf
<1>1. Alone
  BY DEF Next, vars, Deliver, Proceed, MarkProcessed, ReadOrder, UpdateLeg, Commit,
     Acknowledge, Fail, Continue, Alone
<1>2. tx \in [Instances -> Handler \cup {Idle}]
  BY DEF IInv, TypeOK
<1>3. ASSUME tx'[w] = tx[w], UNCHANGED tables PROVE Keeps(w)
  BY <1>1, <1>3 DEF AloneInv, Busy, OrderOf, tables
<1>4. ASSUME Busy(w)
      PROVE  /\ tx[w] \in Handler
             /\ tx[w].step # "commit" => ~tx[w].locked
             /\ tx[w].step \in {"read", "update"} => tx[w].event \notin processed
             /\ tx[w].step = "update" => orders[OrderOf(w)].status = "PENDING"
  BY <1>1, <1>4, BusyHandler DEF AloneInv, IInv, HandlerInv
<1>5. ASSUME NEW v \in Instances, NEW e \in Event, Deliver(v, e) PROVE Keeps(w)
  <2>1. CASE v = w
    <3> DEFINE h == [step |-> "mark", event |-> e, row |-> Undecided,
                     staged |-> NoTopic, locked |-> FALSE]
    <3>1. tx'[w] = h
      BY <1>2, <1>5, <2>1 DEF Deliver, Continue
    <3> QED
      BY <3>1
  <2>2. CASE v # w
    BY <1>2, <1>3, <1>5, <2>2 DEF Deliver, Continue
  <2> QED
    BY <2>1, <2>2
<1>6. ASSUME NEW v \in Instances, Proceed(v) \/ Fail(v), v # w PROVE Keeps(w)
  <2>1. CASE Commit(v)
    <3>1. Busy(v) /\ Busy(w)
      BY <1>2, <1>6, <2>1 DEF Commit, Busy
    <3> QED
      BY <1>1, <1>6, <3>1, OneAtWork
  <2>2. CASE ~Commit(v)
    <3>1. tx'[w] = tx[w] /\ UNCHANGED tables
      BY <1>2, <1>6, <2>2 DEF Proceed, MarkProcessed, ReadOrder, UpdateLeg,
         Acknowledge, Fail, Continue, Idle
    <3> QED
      BY <1>3, <3>1
  <2> QED
    BY <2>1, <2>2
<1>7. CASE MarkProcessed(w)
  <2> DEFINE h == [tx[w] EXCEPT !.step = IF tx[w].event \in processed
                                         THEN "done" ELSE "read"]
  <2>1. tx'[w] = h /\ UNCHANGED tables /\ Busy(w) /\ tx[w].step = "mark"
    BY <1>2, <1>7 DEF MarkProcessed, Continue
  <2>2. /\ h.event = tx[w].event /\ h.locked = tx[w].locked
        /\ h.step = IF tx[w].event \in processed THEN "done" ELSE "read"
    BY <1>4, <2>1 DEF Handler
  <2> HIDE DEF h
  <2> QED
    BY <1>4, <2>1, <2>2 DEF tables
<1>8. CASE ReadOrder(w)
  <2> DEFINE h == [tx[w] EXCEPT
                      !.step = IF orders[OrderOf(w)].status = "PENDING"
                               THEN "update" ELSE "commit",
                      !.row = orders[OrderOf(w)]]
  <2>1. tx'[w] = h /\ UNCHANGED tables /\ Busy(w) /\ tx[w].step = "read"
    BY <1>2, <1>8 DEF ReadOrder, Continue
  <2>2. /\ h.event = tx[w].event /\ h.locked = tx[w].locked
        /\ h.step = IF orders[OrderOf(w)].status = "PENDING" THEN "update" ELSE "commit"
    BY <1>4, <2>1 DEF Handler
  <2> HIDE DEF h
  <2> QED
    BY <1>4, <2>1, <2>2 DEF tables, OrderOf
<1>9. CASE UpdateLeg(w)
  <2> DEFINE s == Settle(tx[w], WithLeg(w, orders[OrderOf(w)]))
             h == [s EXCEPT !.step = "commit", !.locked = TRUE]
  <2>1. tx'[w] = h /\ UNCHANGED tables /\ Busy(w) /\ tx[w].step = "update"
    BY <1>2, <1>9 DEF UpdateLeg, Continue
  <2>2. h.event = tx[w].event
    BY <1>4, <2>1 DEF Settle, Handler
  <2> HIDE DEF h
  <2> QED
    BY <1>4, <2>1, <2>2 DEF tables, OrderOf
<1>10. CASE Commit(w)
  <2> DEFINE h == [tx[w] EXCEPT !.step = "done", !.locked = FALSE]
  <2>1. tx'[w] = h /\ tx[w] \in Handler
    BY <1>2, <1>4, <1>10 DEF Commit
  <2>2. h.step = "done" /\ ~h.locked
    BY <2>1 DEF Handler
  <2> QED
    BY <2>1, <2>2
<1>11. CASE Acknowledge(w) \/ Fail(w)
  BY <1>2, <1>11 DEF Acknowledge, Fail, Busy
<1>12. CASE UNCHANGED vars
  BY <1>3, <1>12 DEF vars, tables
<1> QED
  BY <1>5, <1>6, <1>7, <1>8, <1>9, <1>10, <1>11, <1>12 DEF Next, Proceed

\* The comment of applyLegOutcome, that an outcome of a settled order does nothing,
\* is true of one instance: it announces the end of an order once.
THEOREM AloneAnnouncesOnce == Spec => [](Alone => AnnouncedOnce)
<1> DEFINE Once == Alone => AnnouncedOnce
<1>1. Init => AloneInv /\ Once
  <2>1. Init => AloneInv
    BY DEF Init, AloneInv, Busy, Idle
  <2>2. Init => AnnouncedOnce
    BY DEF Init, AnnouncedOnce, Announcements
  <2> QED
    BY <2>1, <2>2
<1>2. IInv /\ AloneInv /\ Once /\ [Next]_vars => Once'
  <2> SUFFICES ASSUME IInv, AloneInv, Once, [Next]_vars, Alone', NEW o \in Orders
               PROVE  outbox'[o]["orders.confirmed"] + outbox'[o]["orders.cancelled"] <= 1
    BY DEF AnnouncedOnce
  <2>1. Alone
    BY DEF Next, vars, Deliver, Proceed, MarkProcessed, ReadOrder, UpdateLeg, Commit,
       Acknowledge, Fail, Continue, Alone
  <2>2. /\ outbox[o]["orders.confirmed"] \in Nat /\ outbox[o]["orders.cancelled"] \in Nat
        /\ outbox[o]["orders.confirmed"] + outbox[o]["orders.cancelled"] <= 1
    BY <2>1 DEF AnnouncedOnce, IInv, TypeOK, Announcements
  <2>3. CASE UNCHANGED outbox
    BY <2>2, <2>3
  <2>4. ASSUME NEW w \in Instances, Commit(w)
        PROVE  outbox'[o]["orders.confirmed"] + outbox'[o]["orders.cancelled"] <= 1
    <3>1. Busy(w) /\ tx[w] \in Handler /\ tx[w].step = "commit"
      BY <2>4, BusyHandler DEF Commit, IInv
    <3>2. \A t \in Announcements :
             outbox'[o][t] = IF o = OrderOf(w) /\ t = tx[w].staged
                             THEN outbox[o][t] + 1 ELSE outbox[o][t]
      BY <2>4 DEF Commit, IInv, TypeOK
    <3>3. CASE tx[w].locked /\ o = OrderOf(w)
      <4>1. orders[o].status = "PENDING"
        BY <2>1, <3>1, <3>3 DEF AloneInv
      <4>2. outbox[o]["orders.confirmed"] = 0 /\ outbox[o]["orders.cancelled"] = 0
        BY <2>2, <4>1 DEF IInv, OutboxInv
      <4> QED
        BY <3>2, <4>2 DEF Announcements
    <3>4. CASE ~(tx[w].locked /\ o = OrderOf(w))
      <4>1. o = OrderOf(w) => tx[w].staged = NoTopic
        BY <3>1, <3>4 DEF IInv, HandlerInv
      <4> QED
        BY <2>2, <3>2, <4>1 DEF Announcements, NoTopic
    <3> QED
      BY <3>3, <3>4
  <2> QED
    BY <2>3, <2>4 DEF Next, vars, tables, Deliver, Proceed, MarkProcessed, ReadOrder,
       UpdateLeg, Acknowledge, Fail, Continue
<1> QED
  BY <1>1, <1>2, InductiveInvariant, StepKeepsAloneInv, PTL DEF Spec

-----------------------------------------------------------------------------
\* The tables as OrderService has them.
AtomicRow(row) == [status |-> row.status,
                   paymentStatus |-> row.legs["payment"],
                   inventoryStatus |-> row.legs["inventory"]]
AtomicOrders == [o \in Orders |-> AtomicRow(orders[o])]
AtomicOutbox == [t \in Announcements |-> [o \in Orders |-> outbox[o][t]]]
AtomicProcessed ==
    [c \in {"order-service.saga"} |-> {OutcomeEvent(e) : e \in processed}]
AtomicPublished == {OutcomeEvent(e) : e \in Event}

\* A leg's outcome is one event, and different legs have different events.
LEMMA OutcomeEvents ==
    ASSUME TypeOK, NEW e \in Event, NEW f \in Event,
           OutcomeEvent(e) = OutcomeEvent(f)
    PROVE  e = f
<1>1. e.leg \in Legs /\ f.leg \in Legs /\ e.orderId \in Orders /\ f.orderId \in Orders
  BY DEF Event
<1>2. /\ outcome[e.orderId] \in [Legs -> Outcome]
      /\ OutcomeEvent(e).orderId = e.orderId /\ OutcomeEvent(f).orderId = f.orderId
  BY <1>1 DEF TypeOK, OutcomeEvent
<1>3. e.leg = f.leg
  BY <1>1, <1>2 DEF OutcomeEvent, Legs
<1> QED
  BY <1>2, <1>3 DEF Event

\* A commit marks the event, once, and publishes nothing.
LEMMA CommitMarks ==
    ASSUME IInv, AloneInv, Alone, NEW w \in Instances, Commit(w)
    PROVE  LET a == OutcomeEvent(tx[w].event)
           IN  /\ a \notin AtomicProcessed["order-service.saga"]
               /\ AtomicProcessed' = [AtomicProcessed EXCEPT
                                         !["order-service.saga"] = @ \cup {a}]
               /\ AtomicPublished' = AtomicPublished
<1> DEFINE e == tx[w].event
<1>1. TypeOK /\ e \in Event /\ e \notin processed /\ processed \subseteq Event
  BY BusyHandler DEF Commit, IInv, TypeOK, AloneInv, Handler
<1>2. processed' = processed \cup {e} /\ outcome' = outcome
  BY DEF Commit
<1> HIDE DEF e
<1>3. \A f \in processed : OutcomeEvent(f) # OutcomeEvent(e)
  BY <1>1, OutcomeEvents
<1>4. AtomicProcessed["order-service.saga"] = {OutcomeEvent(f) : f \in processed}
  BY DEF AtomicProcessed
<1>5. \A f : OutcomeEvent(f)' = OutcomeEvent(f')
  BY <1>2 DEF OutcomeEvent
<1>6. AtomicPublished' = AtomicPublished
  BY <1>2 DEF AtomicPublished, OutcomeEvent
<1>7. AtomicProcessed' =
         [c \in {"order-service.saga"} |-> {OutcomeEvent(f) : f \in processed \cup {e}}]
  BY <1>2 DEF AtomicProcessed, OutcomeEvent
<1>8. {OutcomeEvent(f) : f \in processed \cup {e}} =
         {OutcomeEvent(f) : f \in processed} \cup {OutcomeEvent(e)}
  OBVIOUS
<1>9. AtomicProcessed' = [AtomicProcessed EXCEPT
                             !["order-service.saga"] = @ \cup {OutcomeEvent(e)}]
  BY <1>7, <1>8 DEF AtomicProcessed
<1> QED
  BY <1>3, <1>4, <1>6, <1>9 DEF e

\* A commit leaves a settled order alone, or writes a pending one with its own
\* leg decided and stages what the legs then say.
LEMMA CommitSettles ==
    ASSUME IInv, AloneInv, Alone, NEW w \in Instances, Commit(w)
    PROVE  LET o == OrderOf(w)
               row == tx[w].row
           IN  \/ /\ AtomicOrders[o].status # "PENDING"
                  /\ AtomicOrders' = AtomicOrders
                  /\ AtomicOutbox' = AtomicOutbox
               \/ /\ AtomicOrders[o].status = "PENDING"
                  /\ row \in OrderRow
                  /\ row.legs = [orders[o].legs EXCEPT
                                    ![tx[w].event.leg] = outcome[o][tx[w].event.leg]]
                  /\ AtomicOrders' = [AtomicOrders EXCEPT ![o] = AtomicRow(row)]
                  /\ \/ /\ AnyLegFailed(row)
                        /\ row.status = "CANCELLED"
                        /\ AtomicOutbox' =
                             [AtomicOutbox EXCEPT !["orders.cancelled"][o] = @ + 1]
                     \/ /\ ~AnyLegFailed(row)
                        /\ BothLegsSucceeded(row)
                        /\ row.status = "CONFIRMED"
                        /\ AtomicOutbox' =
                             [AtomicOutbox EXCEPT !["orders.confirmed"][o] = @ + 1]
                     \/ /\ ~AnyLegFailed(row)
                        /\ ~BothLegsSucceeded(row)
                        /\ row.status = "PENDING"
                        /\ AtomicOutbox' = AtomicOutbox
<1> DEFINE o == OrderOf(w)
           row == tx[w].row
<1>1. /\ Busy(w) /\ tx[w] \in Handler /\ tx[w].step = "commit" /\ o \in Orders
      /\ o = tx[w].event.orderId
      /\ row \in OrderRow /\ row.status \in OrderStatus /\ tx[w].locked \in BOOLEAN
  BY BusyHandler DEF Commit, IInv, Handler, OrderRow, OrderOf
<1>2. AtomicOrders[o].status = orders[o].status
  BY <1>1 DEF AtomicOrders, AtomicRow
<1>3. /\ orders' = IF tx[w].locked THEN [orders EXCEPT ![o] = row] ELSE orders
      /\ \A x \in Orders, t \in Announcements :
            outbox'[x][t] = IF x = o /\ t = tx[w].staged THEN outbox[x][t] + 1
                                                         ELSE outbox[x][t]
  BY <1>1 DEF Commit, IInv, TypeOK
<1>4. orders \in [Orders -> OrderRow]
  BY DEF IInv, TypeOK
<1>5. ASSUME tx[w].staged \notin Announcements PROVE AtomicOutbox' = AtomicOutbox
  BY <1>3, <1>5 DEF AtomicOutbox
<1>6. ASSUME NEW t \in Announcements, tx[w].staged = t
      PROVE  AtomicOutbox' = [AtomicOutbox EXCEPT ![t][o] = @ + 1]
  <2> DEFINE new == [AtomicOutbox EXCEPT ![t][o] = @ + 1]
  <2>1. \A s \in Announcements, x \in Orders :
           new[s][x] = IF s = t /\ x = o THEN outbox[x][s] + 1 ELSE outbox[x][s]
    BY <1>1 DEF AtomicOutbox
  <2>2. \A s \in Announcements : AtomicOutbox'[s] = new[s]
    BY <1>1, <1>3, <1>6, <2>1 DEF AtomicOutbox
  <2> QED
    BY <2>2 DEF AtomicOutbox
<1>7. CASE ~tx[w].locked
  <2>1. orders[o].status # "PENDING" /\ tx[w].staged = NoTopic
    BY <1>1, <1>7 DEF IInv, HandlerInv
  <2>2. AtomicOrders' = AtomicOrders
    BY <1>3, <1>7 DEF AtomicOrders, AtomicRow
  <2> QED
    BY <1>2, <1>5, <2>1, <2>2 DEF NoTopic, Announcements
<1>8. CASE tx[w].locked
  <2>1. orders[o].status = "PENDING" /\ Updated(tx[w])
    BY <1>1, <1>8 DEF IInv, HandlerInv, AloneInv
  <2>2. /\ row.legs = [orders[o].legs EXCEPT
                          ![tx[w].event.leg] = outcome[o][tx[w].event.leg]]
        /\ RowFits(row)
        /\ tx[w].staged = "orders.cancelled" <=> AnyLegFailed(row)
        /\ tx[w].staged = "orders.confirmed" <=> BothLegsSucceeded(row)
    BY <1>1, <2>1 DEF Updated
  <2>3. AtomicOrders' = [AtomicOrders EXCEPT ![o] = AtomicRow(row)]
    <3> HIDE DEF row
    <3>1. orders' = [orders EXCEPT ![o] = row]
      BY <1>3, <1>8
    <3> QED
      BY <1>1, <1>4, <3>1 DEF AtomicOrders, AtomicRow
  <2>4. AnyLegFailed(row) => ~BothLegsSucceeded(row)
    BY <2>2
  <2> HIDE DEF row
  <2>5. CASE AnyLegFailed(row)
    BY <1>1, <1>2, <1>6, <2>1, <2>2, <2>3, <2>5 DEF RowFits, Announcements, row
  <2>6. CASE ~AnyLegFailed(row) /\ BothLegsSucceeded(row)
    BY <1>1, <1>2, <1>6, <2>1, <2>2, <2>3, <2>6 DEF RowFits, Announcements, row
  <2>7. CASE ~AnyLegFailed(row) /\ ~BothLegsSucceeded(row)
    BY <1>1, <1>2, <1>5, <2>1, <2>2, <2>3, <2>7
       DEF RowFits, Announcements, OrderStatus, row
  <2> QED
    BY <2>5, <2>6, <2>7
<1> QED
  BY <1>1, <1>7, <1>8

\* Both modules test the legs alike.
LEMMA LegsTestedAlike ==
    ASSUME NEW row
    PROVE  /\ Atomic!AnyLegFailed(AtomicRow(row)) <=> AnyLegFailed(row)
           /\ Atomic!BothLegsSucceeded(AtomicRow(row)) <=> BothLegsSucceeded(row)
BY DEF Atomic!AnyLegFailed, Atomic!BothLegsSucceeded, AtomicRow, AnyLegFailed,
       BothLegsSucceeded, Legs

\* applyLegOutcome of OrderService, on the tables as they map to it.
LEMMA AtomicApplyLegOutcome ==
    ASSUME NEW o, NEW updated,
           \/ /\ AtomicOrders[o].status # "PENDING"
              /\ AtomicOrders' = AtomicOrders
              /\ AtomicOutbox' = AtomicOutbox
           \/ /\ AtomicOrders[o].status = "PENDING"
              /\ Atomic!AnyLegFailed(updated)
              /\ AtomicOrders' =
                   [AtomicOrders EXCEPT ![o] = [updated EXCEPT !.status = "CANCELLED"]]
              /\ AtomicOutbox' = [AtomicOutbox EXCEPT !["orders.cancelled"][o] = @ + 1]
           \/ /\ AtomicOrders[o].status = "PENDING"
              /\ ~Atomic!AnyLegFailed(updated)
              /\ Atomic!BothLegsSucceeded(updated)
              /\ AtomicOrders' =
                   [AtomicOrders EXCEPT ![o] = [updated EXCEPT !.status = "CONFIRMED"]]
              /\ AtomicOutbox' = [AtomicOutbox EXCEPT !["orders.confirmed"][o] = @ + 1]
           \/ /\ AtomicOrders[o].status = "PENDING"
              /\ ~Atomic!AnyLegFailed(updated)
              /\ ~Atomic!BothLegsSucceeded(updated)
              /\ AtomicOrders' = [AtomicOrders EXCEPT ![o] = updated]
              /\ AtomicOutbox' = AtomicOutbox
    PROVE  Atomic!ApplyLegOutcome(o, updated)
BY DEF Atomic!ApplyLegOutcome, Atomic!SettleCancelled, Atomic!SettleConfirmed,
       Atomic!Enqueue, AtomicOrders, AtomicRow, AtomicOutbox

\* A commit is applyLegOutcome in one step, with 'updated' the row of the order
\* with the leg decided.
LEMMA CommitApplies ==
    ASSUME IInv, AloneInv, Alone, NEW w \in Instances, Commit(w),
           NEW o, o = OrderOf(w),
           NEW updated,
           updated = AtomicRow([status |-> orders[o].status,
                                legs |-> [orders[o].legs EXCEPT
                            ![tx[w].event.leg] = outcome[o][tx[w].event.leg]]])
    PROVE  Atomic!ApplyLegOutcome(o, updated)
<1> DEFINE row == tx[w].row
<1>1. o \in Orders
  BY BusyHandler DEF Commit, IInv
<1>2. AtomicOrders[o].status = orders[o].status
  BY <1>1 DEF AtomicOrders, AtomicRow
<1> HIDE DEF row
<1>3. CASE AtomicOrders[o].status # "PENDING" /\ AtomicOrders' = AtomicOrders
           /\ AtomicOutbox' = AtomicOutbox
  BY <1>3, AtomicApplyLegOutcome
<1>4. ASSUME AtomicOrders[o].status = "PENDING", row \in OrderRow,
             row.legs = [orders[o].legs EXCEPT
                            ![tx[w].event.leg] = outcome[o][tx[w].event.leg]]
      PROVE  /\ row.status = "CANCELLED" =>
                   AtomicRow(row) = [updated EXCEPT !.status = "CANCELLED"]
             /\ row.status = "CONFIRMED" =>
                   AtomicRow(row) = [updated EXCEPT !.status = "CONFIRMED"]
             /\ row.status = "PENDING" => AtomicRow(row) = updated
             /\ Atomic!AnyLegFailed(updated) <=> AnyLegFailed(row)
             /\ Atomic!BothLegsSucceeded(updated) <=> BothLegsSucceeded(row)
  <2>1. updated = [status |-> "PENDING", paymentStatus |-> row.legs["payment"],
                   inventoryStatus |-> row.legs["inventory"]]
    BY <1>2, <1>4 DEF AtomicRow
  <2>2. row.legs["payment"] \in Leg /\ row.legs["inventory"] \in Leg
    BY <1>4 DEF OrderRow, Legs
  <2>3. /\ updated \in [status : OrderStatus, paymentStatus : Leg, inventoryStatus : Leg]
        /\ updated.paymentStatus = row.legs["payment"]
        /\ updated.inventoryStatus = row.legs["inventory"]
        /\ updated.status = "PENDING"
    BY <2>1, <2>2 DEF OrderStatus
  <2>4. /\ row.status = "CANCELLED" =>
                AtomicRow(row) = [updated EXCEPT !.status = "CANCELLED"]
        /\ row.status = "CONFIRMED" =>
                AtomicRow(row) = [updated EXCEPT !.status = "CONFIRMED"]
        /\ row.status = "PENDING" => AtomicRow(row) = updated
    BY <2>3 DEF AtomicRow
  <2>5. /\ Atomic!AnyLegFailed(updated) <=> AnyLegFailed(row)
        /\ Atomic!BothLegsSucceeded(updated) <=> BothLegsSucceeded(row)
    BY <2>3 DEF Legs, Atomic!AnyLegFailed, Atomic!BothLegsSucceeded, AnyLegFailed,
       BothLegsSucceeded
  <2> QED
    BY <2>4, <2>5
<1> DEFINE Pending == /\ AtomicOrders[o].status = "PENDING"
                      /\ row \in OrderRow
                      /\ row.legs = [orders[o].legs EXCEPT
                             ![tx[w].event.leg] = outcome[o][tx[w].event.leg]]
                      /\ AtomicOrders' = [AtomicOrders EXCEPT ![o] = AtomicRow(row)]
<1>5. CASE /\ Pending
           /\ AnyLegFailed(row)
           /\ row.status = "CANCELLED"
           /\ AtomicOutbox' = [AtomicOutbox EXCEPT !["orders.cancelled"][o] = @ + 1]
  <2>1. /\ AtomicRow(row) = [updated EXCEPT !.status = "CANCELLED"]
        /\ Atomic!AnyLegFailed(updated)
    BY <1>4, <1>5, Zenon
  <2> QED
    BY <1>5, <2>1, AtomicApplyLegOutcome, Zenon
<1>6. CASE /\ Pending
           /\ ~AnyLegFailed(row)
           /\ BothLegsSucceeded(row)
           /\ row.status = "CONFIRMED"
           /\ AtomicOutbox' = [AtomicOutbox EXCEPT !["orders.confirmed"][o] = @ + 1]
  <2>1. /\ AtomicRow(row) = [updated EXCEPT !.status = "CONFIRMED"]
        /\ ~Atomic!AnyLegFailed(updated)
        /\ Atomic!BothLegsSucceeded(updated)
    BY <1>4, <1>6, Zenon
  <2> QED
    BY <1>6, <2>1, AtomicApplyLegOutcome, Zenon
<1>7. CASE /\ Pending
           /\ ~AnyLegFailed(row)
           /\ ~BothLegsSucceeded(row)
           /\ row.status = "PENDING"
           /\ AtomicOutbox' = AtomicOutbox
  BY <1>4, <1>7, AtomicApplyLegOutcome, Zenon
<1> QED
  BY <1>3, <1>5, <1>6, <1>7, CommitSettles DEF row

\* The handlers of OrderService, on the tables as they map to it.
LEMMA AtomicHandlers ==
    ASSUME NEW a, NEW updated,
           a \notin AtomicProcessed["order-service.saga"],
           AtomicProcessed' = [AtomicProcessed EXCEPT
                                  !["order-service.saga"] = @ \cup {a}],
           AtomicPublished' = AtomicPublished,
           Atomic!ApplyLegOutcome(a.orderId, updated)
    PROVE  LET row == AtomicOrders[a.orderId]
           IN  /\ a.topic = "payments.completed" /\ updated = [row EXCEPT !.paymentStatus = "SUCCEEDED"]
                  => Atomic!OnPaymentCompleted(a)
               /\ a.topic = "payments.failed" /\ updated = [row EXCEPT !.paymentStatus = "FAILED"]
                  => Atomic!OnPaymentFailed(a)
               /\ a.topic = "inventory.reserved" /\ updated = [row EXCEPT !.inventoryStatus = "SUCCEEDED"]
                  => Atomic!OnInventoryReserved(a)
               /\ a.topic = "inventory.rejected" /\ updated = [row EXCEPT !.inventoryStatus = "FAILED"]
                  => Atomic!OnInventoryRejected(a)
<1> DEFINE Row == [o \in Orders |->
                     [status |-> orders[o].status,
                      paymentStatus |-> orders[o].legs["payment"],
                      inventoryStatus |-> orders[o].legs["inventory"]]][a.orderId]
<1>1. Atomic!ProcessOnce(Atomic!SagaConsumer, a) /\ UNCHANGED AtomicPublished
  BY DEF Atomic!ProcessOnce, Atomic!SagaConsumer, AtomicProcessed
<1>2. ASSUME a.topic = "payments.completed",
             updated = [AtomicOrders[a.orderId] EXCEPT !.paymentStatus = "SUCCEEDED"]
      PROVE  Atomic!OnPaymentCompleted(a)
  <2>1. Atomic!ApplyLegOutcome(a.orderId, [Row EXCEPT !.paymentStatus = "SUCCEEDED"])
    BY <1>2 DEF AtomicOrders, AtomicRow, Atomic!ApplyLegOutcome,
       Atomic!SettleCancelled, Atomic!SettleConfirmed, Atomic!Enqueue
  <2> QED
    BY <1>1, <1>2, <2>1, Zenon DEF Atomic!OnPaymentCompleted, AtomicPublished
<1>3. ASSUME a.topic = "payments.failed",
             updated = [AtomicOrders[a.orderId] EXCEPT !.paymentStatus = "FAILED"]
      PROVE  Atomic!OnPaymentFailed(a)
  <2>1. Atomic!ApplyLegOutcome(a.orderId, [Row EXCEPT !.paymentStatus = "FAILED"])
    BY <1>3 DEF AtomicOrders, AtomicRow, Atomic!ApplyLegOutcome,
       Atomic!SettleCancelled, Atomic!SettleConfirmed, Atomic!Enqueue
  <2> QED
    BY <1>1, <1>3, <2>1, Zenon DEF Atomic!OnPaymentFailed, AtomicPublished
<1>4. ASSUME a.topic = "inventory.reserved",
             updated = [AtomicOrders[a.orderId] EXCEPT !.inventoryStatus = "SUCCEEDED"]
      PROVE  Atomic!OnInventoryReserved(a)
  <2>1. Atomic!ApplyLegOutcome(a.orderId, [Row EXCEPT !.inventoryStatus = "SUCCEEDED"])
    BY <1>4 DEF AtomicOrders, AtomicRow, Atomic!ApplyLegOutcome,
       Atomic!SettleCancelled, Atomic!SettleConfirmed, Atomic!Enqueue
  <2> QED
    BY <1>1, <1>4, <2>1, Zenon DEF Atomic!OnInventoryReserved, AtomicPublished
<1>5. ASSUME a.topic = "inventory.rejected",
             updated = [AtomicOrders[a.orderId] EXCEPT !.inventoryStatus = "FAILED"]
      PROVE  Atomic!OnInventoryRejected(a)
  <2>1. Atomic!ApplyLegOutcome(a.orderId, [Row EXCEPT !.inventoryStatus = "FAILED"])
    BY <1>5 DEF AtomicOrders, AtomicRow, Atomic!ApplyLegOutcome,
       Atomic!SettleCancelled, Atomic!SettleConfirmed, Atomic!Enqueue
  <2> QED
    BY <1>1, <1>5, <2>1, Zenon DEF Atomic!OnInventoryRejected, AtomicPublished
<1> QED
  BY <1>2, <1>3, <1>4, <1>5, Zenon

\* So a commit is the step of one handler of OrderService.
LEMMA CommitIsAtomic ==
    ASSUME IInv, AloneInv, Alone, NEW w \in Instances, Commit(w)
    PROVE  \E a \in {OutcomeEvent(e) : e \in Event} :
               \/ Atomic!OnPaymentCompleted(a)
               \/ Atomic!OnPaymentFailed(a)
               \/ Atomic!OnInventoryReserved(a)
               \/ Atomic!OnInventoryRejected(a)
<1> PICK e, o, l, a : e = tx[w].event /\ o = OrderOf(w) /\ l = e.leg /\ a = OutcomeEvent(e)
  OBVIOUS
<1> PICK updated : updated = AtomicRow([status |-> orders[o].status,
                        legs |-> [orders[o].legs EXCEPT ![l] = outcome[o][l]]])
  OBVIOUS
<1>1. /\ e \in Event /\ o \in Orders /\ l \in Legs /\ o = e.orderId
      /\ orders[o] \in OrderRow
      /\ outcome[o][l] \in {"SUCCEEDED", "FAILED"}
  BY BusyHandler DEF Commit, IInv, Handler, OrderOf, Outcome
<1>2. AtomicOrders[o] = [status |-> orders[o].status,
                         paymentStatus |-> orders[o].legs["payment"],
                         inventoryStatus |-> orders[o].legs["inventory"]]
  BY <1>1 DEF AtomicOrders, AtomicRow
<1>3. updated = [status |-> orders[o].status,
                 paymentStatus |-> IF l = "payment" THEN outcome[o][l]
                                                    ELSE orders[o].legs["payment"],
                 inventoryStatus |-> IF l = "inventory" THEN outcome[o][l]
                                                    ELSE orders[o].legs["inventory"]]
  BY <1>1 DEF AtomicRow, OrderRow, Legs
<1>4. a.orderId = o
  BY <1>1 DEF OutcomeEvent
<1>5. /\ a \notin AtomicProcessed["order-service.saga"]
      /\ AtomicProcessed' = [AtomicProcessed EXCEPT
                                !["order-service.saga"] = @ \cup {a}]
      /\ AtomicPublished' = AtomicPublished
  BY CommitMarks
<1>6. Atomic!ApplyLegOutcome(o, updated)
  BY CommitApplies
<1>7. Atomic!ApplyLegOutcome(a.orderId, updated)
  BY <1>4, <1>6 DEF Atomic!ApplyLegOutcome, Atomic!SettleCancelled,
     Atomic!SettleConfirmed, Atomic!Enqueue
<1>8. CASE l = "payment" /\ outcome[o][l] = "SUCCEEDED"
  <2>1. a.topic = "payments.completed"
    BY <1>1, <1>8 DEF OutcomeEvent
  <2>2. updated = [AtomicOrders[a.orderId] EXCEPT !.paymentStatus = "SUCCEEDED"]
    BY <1>2, <1>3, <1>4, <1>8
  <2>3. Atomic!OnPaymentCompleted(a)
    BY <1>5, <1>7, <2>1, <2>2, AtomicHandlers
  <2> QED
    BY <1>1, <2>3
<1>9. CASE l = "payment" /\ outcome[o][l] = "FAILED"
  <2>1. a.topic = "payments.failed"
    BY <1>1, <1>9 DEF OutcomeEvent
  <2>2. updated = [AtomicOrders[a.orderId] EXCEPT !.paymentStatus = "FAILED"]
    BY <1>2, <1>3, <1>4, <1>9
  <2>3. Atomic!OnPaymentFailed(a)
    BY <1>5, <1>7, <2>1, <2>2, AtomicHandlers
  <2> QED
    BY <1>1, <2>3
<1>10. CASE l = "inventory" /\ outcome[o][l] = "SUCCEEDED"
  <2>1. a.topic = "inventory.reserved"
    BY <1>1, <1>10 DEF OutcomeEvent
  <2>2. updated = [AtomicOrders[a.orderId] EXCEPT !.inventoryStatus = "SUCCEEDED"]
    BY <1>2, <1>3, <1>4, <1>10
  <2>3. Atomic!OnInventoryReserved(a)
    BY <1>5, <1>7, <2>1, <2>2, AtomicHandlers
  <2> QED
    BY <1>1, <2>3
<1>11. CASE l = "inventory" /\ outcome[o][l] = "FAILED"
  <2>1. a.topic = "inventory.rejected"
    BY <1>1, <1>11 DEF OutcomeEvent
  <2>2. updated = [AtomicOrders[a.orderId] EXCEPT !.inventoryStatus = "FAILED"]
    BY <1>2, <1>3, <1>4, <1>11
  <2>3. Atomic!OnInventoryRejected(a)
    BY <1>5, <1>7, <2>1, <2>2, AtomicHandlers
  <2> QED
    BY <1>1, <2>3
<1> QED
  BY <1>1, <1>8, <1>9, <1>10, <1>11 DEF Legs

\* With one instance the statements of a handler amount to one atomic step of
\* OrderService: what CheckoutSaga takes for granted of applyLegOutcome.
THEOREM AloneIsAtomic == Spec => SettlementsAreAtomic
<1>1. Init => AloneInv
  BY DEF Init, AloneInv, Busy, Idle
<1>2. IInv /\ AloneInv /\ [Next]_vars =>
         [Alone => \E a \in {OutcomeEvent(e) : e \in Event} :
                        \/ Atomic!OnPaymentCompleted(a)
                        \/ Atomic!OnPaymentFailed(a)
                        \/ Atomic!OnInventoryReserved(a)
                        \/ Atomic!OnInventoryRejected(a)]_<<orders, processed, outbox>>
  <2> SUFFICES ASSUME IInv, AloneInv, [Next]_vars, Alone,
                      ~UNCHANGED <<orders, processed, outbox>>
               PROVE  \E w \in Instances : Commit(w)
    BY CommitIsAtomic
  <2> QED
    BY DEF Next, vars, tables, Deliver, Proceed, MarkProcessed, ReadOrder, UpdateLeg,
       Acknowledge, Fail, Continue
<1> QED
  BY <1>1, <1>2, InductiveInvariant, StepKeepsAloneInv, PTL DEF Spec, SettlementsAreAtomic
=============================================================================
