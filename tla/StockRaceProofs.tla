-------------------------- MODULE StockRaceProofs --------------------------
(***************************************************************************)
(* Proofs about StockRace, for any number of instances, orders, products   *)
(* and lines.                                                              *)
(*                                                                         *)
(* The insert of the marker is a lock on the event: while a transaction is *)
(* past it, the event is not processed and no other transaction is past it.*)
(* So what an order's creation reports is reported once.                   *)
(*                                                                         *)
(* The loops lock every row they change until the end of the transaction,  *)
(* so what they take of a product is exactly what the lines behind them    *)
(* say: the stock adds up.  The last part is about a single instance,      *)
(* whose decision is that of InventoryService.                             *)
(***************************************************************************)
EXTENDS StockRace, Sums

\* Product rows that a transaction has inserted or updated.
Rows == UNION {[S -> Row] : S \in SUBSET Products}

Handler == [step : Steps, event : Events, line : Nat, result : Results, rows : Rows]

Created(o) == EventOf("orders.created", o, 1)

Creates(h) == h.event.topic = "orders.created"

\* A transaction that is past its marker and not over.
PastMarker(h) == h.step \notin {"mark", "done"}

ProductAt(h) == Lines[h.event.orderId][h.line].product

\* The one way to drop an event: another instance was quicker to insert a product
\* that nobody had ordered.
MayDrop(e) ==
    /\ e.topic = "orders.created"
    /\ ~Alone
    /\ \E i \in DOMAIN Lines[e.orderId] : Lines[e.orderId][i].product \notin KnownAtStart

\* What a handler at work says of its transaction and of the tables.
HandlerFits(h) ==
    /\ h \in Handler
    /\ h.line \in DOMAIN Lines[h.event.orderId]
    /\ h.step \in {"find", "insert", "check"} => Creates(h)
    /\ h.step = "lookup" => ~Creates(h)
    /\ h.result \in {"inventory.reserved", "inventory.rejected"} => Creates(h)
    /\ h.result = "released" => ~Creates(h)
    /\ ~Creates(h) /\ (h.step = "update" \/ h.result = "released")
          => reservations[h.event.orderId] # "NONE"
    /\ PastMarker(h) => h.event \notin processed
    /\ h.step = "insert" => /\ ProductAt(h) \notin KnownAtStart
                            /\ Alone => ProductAt(h) \notin known
    /\ h.step = "done" => h.event \in processed \/ MayDrop(h.event)

HandlerInv ==
    \A w \in Instances : Busy(w) => w \in deployed /\ HandlerFits(tx[w])

\* The marker of an event is held by one transaction at a time.
MarkerInv ==
    \A w, v \in Instances :
        /\ Busy(w) /\ Busy(v)
        /\ tx[w].event = tx[v].event
        /\ PastMarker(tx[w]) /\ PastMarker(tx[v])
        => w = v

TablesInv ==
    /\ known \subseteq Products /\ KnownAtStart \subseteq known
    /\ stock \in [Products -> Row]
    /\ reservations \in [Orders -> {"NONE", "RESERVED", "RELEASED"}]
    /\ processed \subseteq Events
    /\ outbox \subseteq {"inventory.reserved", "inventory.rejected"} \X Orders
    /\ handled \subseteq Events
    /\ DOMAIN tx = Instances
    /\ deployed \subseteq Instances
    /\ failures \in 0..MaxFailures

\* Only the handler of an order's creation answers for it.
AnswerInv ==
    \A o \in Orders, t \in {"inventory.reserved", "inventory.rejected"} :
        <<t, o>> \in outbox => Created(o) \in processed

DropInv == \A e \in handled \ processed : MayDrop(e)

IInv ==
    /\ TablesInv
    /\ HandlerInv
    /\ MarkerInv
    /\ AnswerInv
    /\ DropInv
    /\ OneAnswerPerOrder

-----------------------------------------------------------------------------
\* Events are of orders, and an order is created by one event.
LEMMA EventsOfOrders ==
    \A e \in Events : /\ e.orderId \in Orders
                      /\ e.topic = "orders.created" => e = Created(e.orderId)
BY DEF Events, EventOf, Created

\* An order's lines are lines, and there is one.
LEMMA LinesOfOrders ==
    ASSUME NEW o \in Orders
    PROVE  /\ Len(Lines[o]) \in Nat /\ DOMAIN Lines[o] = 1..Len(Lines[o])
           /\ 1 \in DOMAIN Lines[o]
           /\ \A i \in DOMAIN Lines[o] : /\ Lines[o][i].product \in Products
                                         /\ Lines[o][i].quantity \in Nat
<1>1. Lines[o] \in Seq(Line) /\ Len(Lines[o]) > 0
  BY RaceAssumption
<1>2. Len(Lines[o]) \in Nat /\ DOMAIN Lines[o] = 1..Len(Lines[o])
  BY <1>1
<1>3. \A i \in DOMAIN Lines[o] : Lines[o][i] \in Line
  BY <1>1
<1> QED
  BY <1>1, <1>2, <1>3 DEF Line

\* The loop over the lines stays on the lines, and touches nothing else.
LEMMA NextLineFits ==
    ASSUME NEW h \in Handler, h.line \in DOMAIN Lines[h.event.orderId],
           NEW loop \in Steps, NEW next \in Steps
    PROVE  LET new == NextLine(h, loop, next)
           IN  /\ new \in Handler
               /\ new.line \in DOMAIN Lines[h.event.orderId]
               /\ new.step \in {loop, next}
               /\ new.event = h.event /\ new.result = h.result /\ new.rows = h.rows
<1> DEFINE lines == Lines[h.event.orderId]
           new == NextLine(h, loop, next)
<1>1. h.event.orderId \in Orders
  BY EventsOfOrders DEF Handler
<1>2. Len(lines) \in Nat /\ DOMAIN lines = 1..Len(lines) /\ 1 \in DOMAIN lines
  BY <1>1, LinesOfOrders
<1>3. CASE h.line < Len(lines)
  <2>1. new = [h EXCEPT !.step = loop, !.line = h.line + 1]
    BY <1>3 DEF NextLine
  <2>2. h.line + 1 \in DOMAIN lines /\ h.line + 1 \in Nat
    BY <1>2, <1>3
  <2>3. /\ new \in Handler /\ new.line = h.line + 1 /\ new.step = loop
        /\ new.event = h.event /\ new.result = h.result /\ new.rows = h.rows
    <3> HIDE DEF new
    <3> QED
      BY <2>1, <2>2 DEF Handler
  <2> QED
    BY <2>2, <2>3
<1>4. CASE ~(h.line < Len(lines))
  <2>1. new = [h EXCEPT !.step = next, !.line = 1]
    BY <1>4 DEF NextLine
  <2>2. /\ new \in Handler /\ new.line = 1 /\ new.step = next
        /\ new.event = h.event /\ new.result = h.result /\ new.rows = h.rows
    <3> HIDE DEF new
    <3> QED
      BY <2>1 DEF Handler
  <2> QED
    BY <1>2, <2>2
<1> QED
  BY <1>3, <1>4

\* A handler that writes a product's row is a handler.
LEMMA RowsFit ==
    ASSUME NEW rows \in Rows, NEW p \in Products, NEW r \in Row
    PROVE  [q \in DOMAIN rows \cup {p} |-> IF q = p THEN r ELSE rows[q]] \in Rows
<1>1. PICK S \in SUBSET Products : rows \in [S -> Row]
  BY DEF Rows
<1>2. [q \in DOMAIN rows \cup {p} |-> IF q = p THEN r ELSE rows[q]] \in [S \cup {p} -> Row]
  BY <1>1
<1>3. S \cup {p} \in SUBSET Products
  OBVIOUS
<1> QED
  BY <1>2, <1>3 DEF Rows

\* A transaction that has written nothing.
LEMMA NoRows == <<>> \in Rows
<1>1. <<>> \in [{} -> Row]
  OBVIOUS
<1> QED
  BY <1>1 DEF Rows

-----------------------------------------------------------------------------
\* Nobody is at work and nothing is answered at the start.
LEMMA InitIInv == Init => IInv
<1> SUFFICES ASSUME Init PROVE IInv
  OBVIOUS
<1>1. TablesInv
  BY RaceAssumption DEF Init, TablesInv, Row
<1>2. HandlerInv /\ MarkerInv
  BY DEF Init, HandlerInv, MarkerInv, Busy
<1>3. AnswerInv /\ DropInv /\ OneAnswerPerOrder
  BY DEF Init, AnswerInv, DropInv, OneAnswerPerOrder
<1> QED
  BY <1>1, <1>2, <1>3 DEF IInv

\* A statement that commits nothing keeps the invariant, if the handler it leaves
\* fits the tables and, past its marker, shares its event with no other one.
LEMMA ContinueKeepsIInv ==
    ASSUME IInv, NEW w \in Instances, NEW h, Continue(w, h),
           h = Idle \/ (w \in deployed /\ HandlerFits(h)),
           h # Idle /\ PastMarker(h) =>
              \A v \in Instances \ {w} :
                  Busy(v) /\ tx[v].event = h.event => ~PastMarker(tx[v])
    PROVE  IInv'
<1>1. /\ UNCHANGED <<known, stock, reservations, processed, outbox, handled,
                     deployed, failures>>
      /\ tx' = [tx EXCEPT ![w] = h]
  BY DEF Continue, tables
<1>2. /\ DOMAIN tx' = Instances /\ tx'[w] = h
      /\ \A v \in Instances \ {w} : tx'[v] = tx[v]
  BY <1>1 DEF IInv, TablesInv
<1>3. \A g : HandlerFits(g) => HandlerFits(g)'
  BY <1>1 DEF HandlerFits, MayDrop, Alone, ProductAt, Creates, PastMarker
<1>4. TablesInv'
  BY <1>1, <1>2 DEF IInv, TablesInv
<1>5. HandlerInv'
  <2> SUFFICES ASSUME NEW v \in Instances, Busy(v)'
               PROVE  v \in deployed' /\ HandlerFits(tx[v])'
    BY DEF HandlerInv
  <2>1. v \in deployed /\ HandlerFits(tx'[v])
    BY <1>2 DEF Busy, IInv, HandlerInv
  <2>2. PICK g : g = tx'[v]
    OBVIOUS
  <2>3. HandlerFits(g)'
    BY <1>3, <2>1, <2>2
  <2> QED
    BY <1>1, <2>1, <2>2, <2>3 DEF HandlerFits
<1>6. MarkerInv'
  BY <1>2 DEF IInv, MarkerInv, Busy, PastMarker
<1>7. AnswerInv' /\ DropInv' /\ OneAnswerPerOrder'
  BY <1>1 DEF IInv, AnswerInv, DropInv, MayDrop, Alone, OneAnswerPerOrder
<1> QED
  BY <1>4, <1>5, <1>6, <1>7 DEF IInv

\* What a busy instance is at.
LEMMA AtWork ==
    ASSUME IInv, NEW w \in Instances, Busy(w)
    PROVE  /\ HandlerFits(tx[w]) /\ tx[w] \in Handler /\ w \in deployed
           /\ OrderOf(w) \in Orders
           /\ ProductOf(w) = ProductAt(tx[w]) /\ ProductOf(w) \in Products
           /\ tx[w].line \in DOMAIN Lines[OrderOf(w)]
           /\ PastMarker(tx[w]) =>
                 \A v \in Instances \ {w} :
                     Busy(v) /\ tx[v].event = tx[w].event => ~PastMarker(tx[v])
<1>1. HandlerFits(tx[w]) /\ tx[w] \in Handler /\ w \in deployed
  BY DEF IInv, HandlerInv, HandlerFits
<1>2. tx[w].event \in Events /\ OrderOf(w) \in Orders
  BY <1>1, EventsOfOrders DEF Handler, OrderOf
<1>3. tx[w].line \in DOMAIN Lines[OrderOf(w)]
  BY <1>1 DEF HandlerFits, OrderOf
<1>4. ProductOf(w) \in Products
  BY <1>2, <1>3, LinesOfOrders DEF ProductOf, LineOf
<1> QED
  BY <1>1, <1>2, <1>3, <1>4 DEF ProductOf, LineOf, ProductAt, OrderOf, IInv, MarkerInv

-----------------------------------------------------------------------------
\* A handler that has just been given its event claims nothing.
LEMMA DeliverKeepsIInv ==
    ASSUME IInv, NEW w \in Instances, NEW e \in Events, Deliver(w, e)
    PROVE  IInv'
<1> DEFINE h == [step |-> "mark", event |-> e, line |-> 1, result |-> "nothing",
                 rows |-> <<>>]
<1>1. Continue(w, h) /\ w \in deployed
  BY DEF Deliver
<1>2. h \in Handler
  BY NoRows DEF Handler, Steps, Results
<1>3. 1 \in DOMAIN Lines[e.orderId]
  BY EventsOfOrders, LinesOfOrders
<1>4. h.step = "mark" /\ h.event = e /\ h.line = 1 /\ h.result = "nothing"
  OBVIOUS
<1> HIDE DEF h
<1>5. HandlerFits(h) /\ ~PastMarker(h)
  BY <1>2, <1>3, <1>4 DEF HandlerFits, PastMarker
<1> QED
  BY <1>1, <1>5, ContinueKeepsIInv

\* The only change of a handler is its step.
LEMMA Stepped ==
    ASSUME NEW h \in Handler, NEW step \in Steps
    PROVE  /\ [h EXCEPT !.step = step] \in Handler
           /\ [h EXCEPT !.step = step].step = step
           /\ [h EXCEPT !.step = step].event = h.event
           /\ [h EXCEPT !.step = step].line = h.line
           /\ [h EXCEPT !.step = step].result = h.result
BY DEF Handler

\* An event that is taken for a duplicate was processed, or may be dropped.
LEMMA SkipKeepsIInv ==
    ASSUME IInv, NEW w \in Instances, Busy(w), SkipDuplicate(w),
           tx[w].event \in processed \/ MayDrop(tx[w].event),
           tx[w].step \in {"mark", "insert"}
    PROVE  IInv'
<1> DEFINE h == [tx[w] EXCEPT !.step = "done", !.rows = <<>>]
<1>1. HandlerFits(tx[w]) /\ tx[w] \in Handler /\ w \in deployed
  BY AtWork
<1>2. Continue(w, h)
  BY DEF SkipDuplicate
<1>3. /\ h \in Handler /\ h.step = "done" /\ h.event = tx[w].event
      /\ h.line = tx[w].line /\ h.result = tx[w].result
  BY <1>1, NoRows DEF Handler, Steps
<1> HIDE DEF h
<1>4. HandlerFits(h) /\ ~PastMarker(h)
  BY <1>1, <1>3 DEF HandlerFits, PastMarker, Creates
<1> QED
  BY <1>1, <1>2, <1>4, ContinueKeepsIInv

\* The insert of the marker waits for whoever is past it.
LEMMA MarkProcessedKeepsIInv ==
    ASSUME IInv, NEW w \in Instances, MarkProcessed(w)
    PROVE  IInv'
<1> DEFINE next == IF tx[w].event.topic = "orders.created" THEN "find" ELSE "lookup"
           h == [tx[w] EXCEPT !.step = next]
<1>1. Busy(w) /\ tx[w].step = "mark" /\ ~Blocked(w)
  BY DEF MarkProcessed
<1>2. HandlerFits(tx[w]) /\ tx[w] \in Handler /\ w \in deployed
  BY <1>1, AtWork
<1>3. CASE tx[w].event \in processed /\ SkipDuplicate(w)
  BY <1>1, <1>3, SkipKeepsIInv
<1>4. CASE tx[w].event \notin processed /\ Continue(w, h)
  <2>1. \A v \in Instances \ {w} :
           Busy(v) /\ tx[v].event = tx[w].event => ~PastMarker(tx[v])
    BY <1>1 DEF Blocked, Waits, MarkerHeldBy, PastMarker
  <2>2. /\ h \in Handler /\ h.step = next /\ h.event = tx[w].event
        /\ h.line = tx[w].line /\ h.result = tx[w].result
    <3>1. next \in Steps
      BY DEF Steps
    <3> HIDE DEF next
    <3> QED
      BY <1>2, <3>1, Stepped
  <2> HIDE DEF h
  <2>3. HandlerFits(h)
    BY <1>1, <1>2, <1>4, <2>2 DEF HandlerFits, PastMarker, Creates
  <2> QED
    BY <1>2, <1>4, <2>1, <2>2, <2>3, ContinueKeepsIInv
<1> QED
  BY <1>3, <1>4 DEF MarkProcessed

\* A transaction past its marker goes on with its event.
LEMMA AdvanceKeepsIInv ==
    ASSUME IInv, NEW w \in Instances, Busy(w), PastMarker(tx[w]),
           NEW h, Continue(w, h), HandlerFits(h), h.event = tx[w].event
    PROVE  IInv'
BY AtWork, ContinueKeepsIInv

\* A product that is not found was not known at the start either.
LEMMA FindProductKeepsIInv ==
    ASSUME IInv, NEW w \in Instances, FindProduct(w)
    PROVE  IInv'
<1>1. /\ Busy(w) /\ tx[w].step = "find" /\ PastMarker(tx[w])
      /\ HandlerFits(tx[w]) /\ tx[w] \in Handler /\ ProductOf(w) = ProductAt(tx[w])
      /\ Creates(tx[w])
  BY AtWork DEF FindProduct, PastMarker, HandlerFits
<1>2. CASE ProductOf(w) \in known \cup DOMAIN tx[w].rows
  <2> DEFINE h == NextLine(tx[w], "find", "check")
  <2>1. Continue(w, h)
    BY <1>2 DEF FindProduct
  <2>2. /\ h \in Handler /\ h.line \in DOMAIN Lines[h.event.orderId]
        /\ h.step \in {"find", "check"}
        /\ h.event = tx[w].event /\ h.result = tx[w].result
    BY <1>1, NextLineFits DEF HandlerFits, Steps
  <2> HIDE DEF h
  <2>3. HandlerFits(h)
    BY <1>1, <2>2 DEF HandlerFits, PastMarker, Creates
  <2> QED
    BY <1>1, <2>1, <2>2, <2>3, AdvanceKeepsIInv
<1>3. CASE ProductOf(w) \notin known \cup DOMAIN tx[w].rows
  <2> DEFINE h == [tx[w] EXCEPT !.step = "insert"]
  <2>1. Continue(w, h)
    BY <1>3 DEF FindProduct
  <2>2. /\ h \in Handler /\ h.step = "insert" /\ h.event = tx[w].event
        /\ h.line = tx[w].line /\ h.result = tx[w].result
    BY <1>1, Stepped DEF Steps
  <2> HIDE DEF h
  <2>3. ProductAt(h) \notin known /\ ProductAt(h) \notin KnownAtStart
    BY <1>1, <1>3, <2>2 DEF ProductAt, IInv, TablesInv
  <2>4. HandlerFits(h)
    BY <1>1, <2>2, <2>3 DEF HandlerFits, PastMarker, Creates
  <2> QED
    BY <1>1, <2>1, <2>2, <2>4, AdvanceKeepsIInv
<1> QED
  BY <1>2, <1>3

\* A transaction's own row of its line's product changes nothing else of it.
LEMMA WithRowFits ==
    ASSUME NEW w, tx[w] \in Handler, ProductOf(w) \in Products, NEW r \in Row
    PROVE  /\ WithRow(w, r) \in Handler
           /\ WithRow(w, r).step = tx[w].step /\ WithRow(w, r).event = tx[w].event
           /\ WithRow(w, r).line = tx[w].line /\ WithRow(w, r).result = tx[w].result
<1> DEFINE p == ProductOf(w)
           rows == tx[w].rows
           new == [q \in DOMAIN rows \cup {p} |-> IF q = p THEN r ELSE rows[q]]
<1>1. new \in Rows
  BY RowsFit DEF Handler
<1>2. WithRow(w, r) = [tx[w] EXCEPT !.rows = new]
  BY DEF WithRow
<1> HIDE DEF new
<1> QED
  BY <1>1, <1>2 DEF Handler

LEMMA WithRowRows ==
    ASSUME NEW w, tx[w] \in Handler, NEW r
    PROVE  WithRow(w, r).rows = [q \in DOMAIN tx[w].rows \cup {ProductOf(w)} |->
                                    IF q = ProductOf(w) THEN r ELSE tx[w].rows[q]]
BY DEF WithRow, Handler

\* The row that a transaction reads is a row.
LEMMA VisibleIsRow ==
    ASSUME IInv, NEW w \in Instances, Busy(w), NEW p \in Products
    PROVE  Visible(w, p) \in Row
<1>1. tx[w].rows \in Rows /\ stock[p] \in Row
  BY AtWork DEF Handler, IInv, TablesInv
<1>2. PICK S \in SUBSET Products : tx[w].rows \in [S -> Row]
  BY <1>1 DEF Rows
<1> QED
  BY <1>1, <1>2 DEF Visible

\* With one instance nobody else inserts the product; with several, the loser of
\* the race is taken for a duplicate.
LEMMA InsertProductKeepsIInv ==
    ASSUME IInv, NEW w \in Instances, InsertProduct(w)
    PROVE  IInv'
<1>1. /\ Busy(w) /\ tx[w].step = "insert" /\ PastMarker(tx[w])
      /\ HandlerFits(tx[w]) /\ tx[w] \in Handler /\ ProductOf(w) = ProductAt(tx[w])
      /\ Creates(tx[w]) /\ ProductOf(w) \in Products
  BY AtWork DEF InsertProduct, PastMarker, HandlerFits
<1>2. CASE ProductOf(w) \in known /\ SkipDuplicate(w)
  <2>1. MayDrop(tx[w].event)
    BY <1>1, <1>2 DEF HandlerFits, MayDrop, Creates, ProductAt
  <2> QED
    BY <1>1, <1>2, <2>1, SkipKeepsIInv
<1>3. CASE Continue(w, NextLine(WithRow(w, stock[ProductOf(w)]), "find", "check"))
  <2> DEFINE g == WithRow(w, stock[ProductOf(w)])
             h == NextLine(g, "find", "check")
  <2>1. stock[ProductOf(w)] \in Row
    BY <1>1 DEF IInv, TablesInv
  <2>2. /\ g \in Handler /\ g.event = tx[w].event /\ g.line = tx[w].line
        /\ g.result = tx[w].result
    BY <1>1, <2>1, WithRowFits
  <2> HIDE DEF g
  <2>3. /\ h \in Handler /\ h.line \in DOMAIN Lines[h.event.orderId]
        /\ h.step \in {"find", "check"}
        /\ h.event = tx[w].event /\ h.result = tx[w].result
    BY <1>1, <2>2, NextLineFits DEF HandlerFits, Steps
  <2>4. Continue(w, h)
    BY <1>3 DEF g
  <2> HIDE DEF h
  <2>5. HandlerFits(h)
    BY <1>1, <2>3 DEF HandlerFits, PastMarker, Creates
  <2> QED
    BY <1>1, <2>3, <2>4, <2>5, AdvanceKeepsIInv
<1> QED
  BY <1>2, <1>3 DEF InsertProduct

\* Only a creation reports that stock is short.
LEMMA CheckLineKeepsIInv ==
    ASSUME IInv, NEW w \in Instances, CheckLine(w)
    PROVE  IInv'
<1> DEFINE g == IF Visible(w, ProductOf(w)).available < LineOf(w).quantity
                THEN [tx[w] EXCEPT !.result = "inventory.rejected"] ELSE tx[w]
           next == IF g.result = "nothing" THEN "update" ELSE "commit"
           h == NextLine(g, "check", next)
<1>1. /\ Busy(w) /\ tx[w].step = "check" /\ PastMarker(tx[w])
      /\ HandlerFits(tx[w]) /\ tx[w] \in Handler /\ Creates(tx[w])
  BY AtWork DEF CheckLine, PastMarker, HandlerFits
<1>2. Continue(w, h)
  BY DEF CheckLine
<1>3. /\ g \in Handler /\ g.event = tx[w].event /\ g.line = tx[w].line
      /\ g.result \in {tx[w].result, "inventory.rejected"}
  BY <1>1 DEF Handler, Results
<1>4. next \in {"update", "commit"} /\ next \in Steps /\ "check" \in Steps
  BY DEF Steps
<1> HIDE DEF g, next
<1>5. /\ h \in Handler /\ h.line \in DOMAIN Lines[h.event.orderId]
      /\ h.step \in {"check", "update", "commit"}
      /\ h.event = tx[w].event /\ h.result \in {tx[w].result, "inventory.rejected"}
  <2>1. g.line \in DOMAIN Lines[g.event.orderId]
    BY <1>1, <1>3 DEF HandlerFits
  <2>2. /\ h \in Handler /\ h.line \in DOMAIN Lines[g.event.orderId]
        /\ h.step \in {"check", next} /\ h.event = g.event /\ h.result = g.result
    BY <1>3, <1>4, <2>1, NextLineFits
  <2> QED
    BY <1>3, <1>4, <2>2
<1> HIDE DEF h
<1>6. HandlerFits(h)
  BY <1>1, <1>5 DEF HandlerFits, PastMarker, Creates
<1> QED
  BY <1>1, <1>2, <1>5, <1>6, AdvanceKeepsIInv

\* A cancellation goes on to its updates only if there is a reservation.
LEMMA FindReservationKeepsIInv ==
    ASSUME IInv, NEW w \in Instances, FindReservation(w)
    PROVE  IInv'
<1> DEFINE next == IF reservations[OrderOf(w)] = "RESERVED" THEN "update" ELSE "commit"
           h == [tx[w] EXCEPT !.step = next]
<1>1. /\ Busy(w) /\ tx[w].step = "lookup" /\ PastMarker(tx[w])
      /\ HandlerFits(tx[w]) /\ tx[w] \in Handler /\ ~Creates(tx[w])
  BY AtWork DEF FindReservation, PastMarker, HandlerFits
<1>2. Continue(w, h)
  BY DEF FindReservation
<1>3. next \in {"update", "commit"} /\ next \in Steps
      /\ (next = "update" => reservations[tx[w].event.orderId] # "NONE")
  BY DEF OrderOf, Steps
<1> HIDE DEF next
<1>4. /\ h \in Handler /\ h.step = next /\ h.event = tx[w].event
      /\ h.line = tx[w].line /\ h.result = tx[w].result
  BY <1>1, <1>3 DEF Handler
<1> HIDE DEF h
<1>5. HandlerFits(h)
  BY <1>1, <1>3, <1>4 DEF HandlerFits, PastMarker, Creates
<1> QED
  BY <1>1, <1>2, <1>4, <1>5, AdvanceKeepsIInv

\* A creation that moved stock reports a reservation, a cancellation a release.
LEMMA UpdateProductKeepsIInv ==
    ASSUME IInv, NEW w \in Instances, UpdateProduct(w)
    PROVE  IInv'
<1> DEFINE g == WithRow(w, Moved(w))
           r == DoneWith(g.event)
           f == [g EXCEPT !.result = r]
           h == NextLine(f, "update", "commit")
<1>1. /\ Busy(w) /\ tx[w].step = "update" /\ PastMarker(tx[w])
      /\ HandlerFits(tx[w]) /\ tx[w] \in Handler /\ ProductOf(w) \in Products
      /\ OrderOf(w) \in Orders /\ tx[w].line \in DOMAIN Lines[OrderOf(w)]
  BY AtWork DEF UpdateProduct, PastMarker
<1>2. Continue(w, h)
  BY DEF UpdateProduct
<1>3. Moved(w) \in Row
  <2>1. LineOf(w).quantity \in Nat
    BY <1>1, LinesOfOrders DEF LineOf
  <2>2. Visible(w, ProductOf(w)) \in Row
    BY <1>1, VisibleIsRow
  <2> QED
    BY <2>1, <2>2 DEF Moved, Row
<1>4. /\ g \in Handler /\ g.event = tx[w].event /\ g.line = tx[w].line
      /\ g.result = tx[w].result
  BY <1>1, <1>3, WithRowFits
<1> HIDE DEF g
<1>5. /\ r = IF Creates(tx[w]) THEN "inventory.reserved" ELSE "released"
      /\ r \in Results
  BY <1>4 DEF DoneWith, Creates, Results
<1> HIDE DEF r
<1>6. /\ f \in Handler /\ f.event = tx[w].event /\ f.line = tx[w].line
      /\ f.result = r
  BY <1>4, <1>5 DEF Handler
<1> HIDE DEF f
<1>7. /\ h \in Handler /\ h.line \in DOMAIN Lines[h.event.orderId]
      /\ h.step \in {"update", "commit"}
      /\ h.event = tx[w].event /\ h.result = r
  BY <1>1, <1>6, NextLineFits DEF HandlerFits, Steps
<1> HIDE DEF h
<1>8. HandlerFits(h)
  BY <1>1, <1>5, <1>7 DEF HandlerFits, PastMarker, Creates
<1> QED
  BY <1>1, <1>2, <1>7, <1>8, AdvanceKeepsIInv

-----------------------------------------------------------------------------
\* The commit of a transaction that holds its event's marker: it answers for its
\* order for the first time, or is no creation.
LEMMA CommitKeepsIInv ==
    ASSUME IInv, NEW w \in Instances, Commit(w)
    PROVE  IInv'
<1> DEFINE e == tx[w].event
           o == OrderOf(w)
           h == [tx[w] EXCEPT !.step = "done", !.rows = <<>>]
           result == tx[w].result
<1>1. /\ Busy(w) /\ tx[w].step = "commit" /\ PastMarker(tx[w])
      /\ HandlerFits(tx[w]) /\ tx[w] \in Handler /\ w \in deployed
      /\ o \in Orders /\ e \in Events /\ e.orderId = o /\ result \in Results
      /\ tx[w].rows \in Rows
      /\ \A v \in Instances \ {w} : Busy(v) /\ tx[v].event = e => ~PastMarker(tx[v])
  BY AtWork DEF Commit, PastMarker, Handler, OrderOf
<1>2. /\ known' = known \cup DOMAIN tx[w].rows
      /\ stock' = [p \in Products |-> Visible(w, p)]
      /\ processed' = processed \cup {e}
      /\ outbox' = outbox \cup
            ({<<result, o>>} \cap ({"inventory.reserved", "inventory.rejected"} \X Orders))
      /\ UNCHANGED <<handled, deployed, failures>>
  BY DEF Commit
<1>3. /\ h \in Handler /\ h.step = "done" /\ h.event = e
      /\ h.line = tx[w].line /\ h.result = result
  BY <1>1, NoRows DEF Handler, Steps
<1>4. tx' = [tx EXCEPT ![w] = h]
  BY <1>1 DEF Commit, IInv, TablesInv, Handler
<1> HIDE DEF h
<1>5. DOMAIN tx' = Instances /\ tx'[w] = h /\ \A v \in Instances \ {w} : tx'[v] = tx[v]
  BY <1>4 DEF IInv, TablesInv
<1>6. e \notin processed
      /\ (result \in {"inventory.reserved", "inventory.rejected"} => e = Created(o))
      /\ (result = "released" => reservations[o] # "NONE")
  BY <1>1, EventsOfOrders DEF HandlerFits, Creates
<1>7. /\ reservations \in [Orders -> {"NONE", "RESERVED", "RELEASED"}]
      /\ reservations' \in [Orders -> {"NONE", "RESERVED", "RELEASED"}]
      /\ \A q \in Orders : reservations[q] # "NONE" => reservations'[q] # "NONE"
      /\ \A q \in Orders \ {o} : reservations'[q] = reservations[q]
      /\ result = "inventory.reserved" => reservations'[o] # "NONE"
      /\ result # "inventory.reserved" =>
            (reservations'[o] # "NONE" <=> reservations[o] # "NONE")
  BY <1>1, <1>6 DEF Commit, IInv, TablesInv, Results
<1>8. \A t \in {"inventory.reserved", "inventory.rejected"}, q \in Orders :
         <<t, q>> \in outbox' <=> <<t, q>> \in outbox \/ (t = result /\ q = o)
  BY <1>1, <1>2
<1>9. TablesInv'
  <2>1. stock' \in [Products -> Row]
    BY <1>1, <1>2, VisibleIsRow
  <2>2. DOMAIN tx[w].rows \subseteq Products
    BY <1>1 DEF Rows
  <2> QED
    BY <1>1, <1>2, <1>5, <1>7, <2>1, <2>2 DEF IInv, TablesInv
<1>10. ASSUME NEW v \in Instances, Busy(v)' PROVE v \in deployed' /\ HandlerFits(tx[v])'
  <2>1. CASE v = w
    <3>1. PICK g : g = h
      OBVIOUS
    <3>2. Creates(tx[w]) <=> Creates(g)
      BY <1>3, <3>1 DEF Creates
    <3>3. HandlerFits(g)'
      BY <1>1, <1>2, <1>3, <1>7, <3>1, <3>2 DEF HandlerFits, PastMarker, Creates
    <3>4. tx'[v] = g
      BY <1>5, <2>1, <3>1
    <3> QED
      BY <1>1, <1>2, <2>1, <3>3, <3>4 DEF HandlerFits
  <2>2. CASE v # w
    <3>1. tx'[v] = tx[v] /\ Busy(v)
      BY <1>5, <1>10, <2>2 DEF Busy
    <3>2. HandlerFits(tx[v]) /\ v \in deployed /\ tx[v].event.orderId \in Orders
      BY <3>1, AtWork DEF OrderOf
    <3>3. PastMarker(tx[v]) => tx[v].event \notin processed'
      BY <1>1, <1>2, <2>2, <3>1, <3>2 DEF HandlerFits
    <3>4. ~Alone
      <4> SUFFICES ASSUME Cardinality(deployed) = 1 PROVE FALSE
        BY DEF Alone
      <4>1. IsFiniteSet(deployed)
        BY RaceAssumption, FS_Subset DEF IInv, TablesInv
      <4>2. PICK u : deployed = {u}
        BY <4>1, FS_Singleton
      <4> QED
        BY <1>1, <2>2, <3>2, <4>2
    <3> QED
      BY <1>2, <1>7, <3>1, <3>2, <3>3, <3>4
         DEF HandlerFits, MayDrop, Alone, ProductAt, Creates, PastMarker
  <2> QED
    BY <2>1, <2>2
<1>11. HandlerInv'
  BY <1>10 DEF HandlerInv
<1>12. MarkerInv'
  BY <1>3, <1>5 DEF IInv, MarkerInv, Busy, PastMarker
<1>13. AnswerInv'
  BY <1>2, <1>6, <1>8 DEF IInv, AnswerInv, Created, EventOf
<1>14. DropInv'
  BY <1>2 DEF IInv, DropInv, MayDrop, Alone
<1>15. OneAnswerPerOrder'
  <2> SUFFICES ASSUME NEW q \in Orders
               PROVE  /\ ~ (/\ <<"inventory.reserved", q>> \in outbox'
                            /\ <<"inventory.rejected", q>> \in outbox')
                      /\ <<"inventory.reserved", q>> \in outbox'
                            <=> reservations'[q] # "NONE"
    BY DEF OneAnswerPerOrder
  <2>1. /\ ~ (/\ <<"inventory.reserved", q>> \in outbox
              /\ <<"inventory.rejected", q>> \in outbox)
        /\ <<"inventory.reserved", q>> \in outbox <=> reservations[q] # "NONE"
    BY DEF IInv, OneAnswerPerOrder
  <2>2. CASE q # o
    BY <1>7, <1>8, <2>1, <2>2
  <2>3. CASE q = o /\ result \in {"inventory.reserved", "inventory.rejected"}
    <3>1. \A t \in {"inventory.reserved", "inventory.rejected"} : <<t, q>> \notin outbox
      BY <1>6, <2>3 DEF IInv, AnswerInv
    <3> QED
      BY <1>7, <1>8, <2>1, <2>3, <3>1
  <2>4. CASE q = o /\ result \notin {"inventory.reserved", "inventory.rejected"}
    BY <1>7, <1>8, <2>1, <2>4
  <2> QED
    BY <2>2, <2>3, <2>4
<1> QED
  BY <1>9, <1>11, <1>12, <1>13, <1>14, <1>15 DEF IInv

\* An instance becomes idle: it acknowledges, fails, or is aborted.
LEMMA IdleKeepsIInv ==
    ASSUME IInv, NEW w \in Instances, tx' = [tx EXCEPT ![w] = Idle],
           UNCHANGED <<tables, deployed>>, failures' \in 0..MaxFailures,
           \/ handled' = handled
           \/ Busy(w) /\ tx[w].step = "done" /\ handled' = handled \cup {tx[w].event}
    PROVE  IInv'
<1>1. /\ DOMAIN tx' = Instances /\ tx'[w] = Idle
      /\ \A v \in Instances \ {w} : tx'[v] = tx[v]
  BY DEF IInv, TablesInv
<1>2. /\ handled' \subseteq Events
      /\ \A e \in handled' \ processed : MayDrop(e)
  BY AtWork DEF IInv, TablesInv, DropInv, HandlerFits, Handler
<1>3. TablesInv'
  BY <1>1, <1>2 DEF IInv, TablesInv, tables
<1>4. \A v \in Instances : Busy(v)' => v \in deployed' /\ HandlerFits(tx[v])'
  <2> SUFFICES ASSUME NEW v \in Instances, Busy(v)'
               PROVE  v \in deployed' /\ HandlerFits(tx[v])'
    OBVIOUS
  <2>1. tx'[v] = tx[v] /\ v \in deployed /\ HandlerFits(tx[v])
    BY <1>1 DEF Busy, IInv, HandlerInv
  <2> QED
    BY <2>1 DEF HandlerFits, MayDrop, Alone, ProductAt, Creates, PastMarker, tables
<1>5. MarkerInv'
  BY <1>1 DEF IInv, MarkerInv, Busy, PastMarker
<1>6. AnswerInv' /\ DropInv' /\ OneAnswerPerOrder'
  BY <1>2 DEF IInv, AnswerInv, DropInv, MayDrop, Alone, OneAnswerPerOrder, tables
<1> QED
  BY <1>3, <1>4, <1>5, <1>6 DEF IInv, HandlerInv

\* Every step of every instance keeps the invariant.
LEMMA NextKeepsIInv == IInv /\ [Next]_vars => IInv'
<1> SUFFICES ASSUME IInv, [Next]_vars PROVE IInv'
  OBVIOUS
<1>1. failures \in 0..MaxFailures /\ MaxFailures \in Nat
  BY RaceAssumption DEF IInv, TablesInv
<1>2. ASSUME NEW w \in Instances, Proceed(w) PROVE IInv'
  <2>1. CASE Acknowledge(w)
    BY <1>1, <2>1, IdleKeepsIInv DEF Acknowledge
  <2> QED
    BY <1>2, <2>1, MarkProcessedKeepsIInv, FindProductKeepsIInv, InsertProductKeepsIInv,
       CheckLineKeepsIInv, FindReservationKeepsIInv, UpdateProductKeepsIInv,
       CommitKeepsIInv DEF Proceed
<1>3. ASSUME NEW w \in Instances, Fail(w) PROVE IInv'
  <2>1. failures' \in 0..MaxFailures
    BY <1>1, <1>3 DEF Fail
  <2> QED
    BY <1>3, <2>1, IdleKeepsIInv DEF Fail
<1>4. ASSUME NEW w \in Instances, AbortDeadlocked(w) PROVE IInv'
  BY <1>1, <1>4, IdleKeepsIInv DEF AbortDeadlocked, Continue
<1>5. CASE UNCHANGED vars
  <2> USE <1>5 DEF vars
  <2>1. TablesInv' /\ MarkerInv' /\ AnswerInv' /\ DropInv' /\ OneAnswerPerOrder'
    BY DEF IInv, TablesInv, MarkerInv, Busy, PastMarker, AnswerInv, DropInv, MayDrop,
       Alone, OneAnswerPerOrder
  <2>2. HandlerInv'
    BY DEF IInv, HandlerInv, Busy, HandlerFits, MayDrop, Alone, ProductAt, Creates,
       PastMarker
  <2> QED
    BY <2>1, <2>2 DEF IInv
<1> QED
  BY <1>2, <1>3, <1>4, <1>5, DeliverKeepsIInv DEF Next

-----------------------------------------------------------------------------
\* What the tables, the markers and every open transaction say of each other
\* holds in every state, with any number of instances.
THEOREM InductiveInvariant == Spec => []IInv
BY InitIInv, NextKeepsIInv, PTL DEF Spec

\* An order is answered once, and told that stock is reserved exactly if there is
\* a reservation, however many instances handle its events at once (reserve,
\* release, processOnce).
THEOREM AnsweredOnce == Spec => []OneAnswerPerOrder
BY InductiveInvariant, PTL DEF IInv

\* The catch of P2002 in processOnce drops an event in one way only, the race for
\* the row of a new product; with a single instance it drops none.
THEOREM DroppedInOneWay == Spec => []OnlyNewProductsLoseOrders
<1>1. IInv => OnlyNewProductsLoseOrders
  BY DEF IInv, DropInv, MayDrop, OnlyNewProductsLoseOrders, Dropped, EventOf
<1> QED
  BY <1>1, InductiveInvariant, PTL

\* The tables and the handlers of the inventory service have their types: no loop
\* leaves the lines of its order.
THEOREM TypeCorrect == Spec => []TypeOK
<1>1. ASSUME NEW h, HandlerFits(h) PROVE HandlerOK(h)
  <2>1. h \in Handler
    BY <1>1 DEF HandlerFits
  <2>2. PICK S \in SUBSET Products : h.rows \in [S -> Row]
    BY <2>1 DEF Handler, Rows
  <2>3. DOMAIN h = {"step", "event", "line", "result", "rows"}
    BY <2>1 DEF Handler
  <2> QED
    BY <1>1, <2>1, <2>2, <2>3 DEF HandlerFits, HandlerOK, Handler
<1>2. IInv => TypeOK
  BY <1>1 DEF IInv, TablesInv, HandlerInv, Busy, TypeOK
<1> QED
  BY <1>2, InductiveInvariant, PTL

-----------------------------------------------------------------------------
(***************************************************************************)
(* The stock and the reservations that stand behind it.  A transaction     *)
(* sees of each product the committed row, moved by the lines it has       *)
(* worked off so far; it holds the row as soon as that is any.  The        *)
(* look-up of release() takes no lock, so that the reservation it found    *)
(* may have been released by another instance when it commits; then both   *)
(* cancellations of the order are processed, and its stock comes back      *)
(* twice.                                                                  *)
(***************************************************************************)
\* The lines that a transaction has worked off.
LinesDone(h) ==
    IF h.step = "update" THEN 1..(h.line - 1)
    ELSE IF h.step = "commit" /\ h.result \in {"inventory.reserved", "released"}
    THEN DOMAIN Lines[h.event.orderId] ELSE {}

Quantities(o) == [i \in DOMAIN Lines[o] |-> Lines[o][i].quantity]

LinesFor(o, p) == {i \in DOMAIN Lines[o] : Lines[o][i].product = p}

\* What it has moved of product p so far.
MovedOf(h, p) ==
    SumFunctionOnSet(Quantities(h.event.orderId),
                     LinesFor(h.event.orderId, p) \cap LinesDone(h))

Delta(h, p) == IF Creates(h) THEN MovedOf(h, p) ELSE -MovedOf(h, p)

Shifted(r, n) == [available |-> r.available - n, reserved |-> r.reserved + n]

\* What it sees of the rows S of the stock.
Seen(h, S, p) == IF p \in DOMAIN h.rows THEN h.rows[p] ELSE S[p]

\* What it says of the stock S.
HandlerMoves(h, S) ==
    /\ h.step \in {"mark", "lookup"} => h.line = 1
    /\ h.step \notin {"update", "commit", "done"}
          => h.result \in {"nothing", "inventory.rejected"}
    /\ \A p \in Products : Seen(h, S, p) = Shifted(S[p], Delta(h, p))

MovesInv ==
    \A w \in Instances : Busy(w) => HandlerMoves(tx[w], stock)

\* A row is held by one transaction at a time.
LockInv ==
    \A w, v \in Instances :
        Busy(w) /\ Busy(v) /\ w # v => DOMAIN tx[w].rows \cap DOMAIN tx[v].rows = {}

Held == {o \in Orders : reservations[o] = "RESERVED"}

Cancelled(o, n) == EventOf("orders.cancelled", o, n)

\* A reservation is released by the handler of a cancellation.
ReleasedInv ==
    \A o \in Orders :
        reservations[o] = "RELEASED" => \E n \in 1..2 : Cancelled(o, n) \in processed

\* The counters of the products, with the orders released twice taken off twice.
Accounted(twice) ==
    /\ twice \subseteq ReleasedTwice
    /\ IsFiniteSet(twice)
    /\ \A p \in Products :
          /\ stock[p].available + stock[p].reserved = DefaultStock
          /\ stock[p].reserved = QuantityIn(p, Held) - QuantityIn(p, twice)

StockInv == IsFiniteSet(Held) /\ ReleasedInv /\ \E twice : Accounted(twice)

LedgerInv == MovesInv /\ LockInv /\ StockInv

-----------------------------------------------------------------------------
\* The quantities of an order's lines add up to naturals.
LEMMA QuantitiesAddUp ==
    ASSUME NEW o \in Orders, NEW p \in Products
    PROVE  /\ IsFiniteSet(DOMAIN Lines[o])
           /\ \A i \in DOMAIN Lines[o] : Quantities(o)[i] = Lines[o][i].quantity
           /\ \A i \in DOMAIN Lines[o] : Quantities(o)[i] \in Nat
           /\ \A T : IsFiniteSet(LinesFor(o, p) \cap T)
           /\ \A T : SumFunctionOnSet(Quantities(o), LinesFor(o, p) \cap T) \in Nat
           /\ QuantityOf(o, p) = SumFunctionOnSet(Quantities(o), LinesFor(o, p))
           /\ QuantityOf(o, p) \in Nat
<1>1. IsFiniteSet(DOMAIN Lines[o])
  <2>1. Len(Lines[o]) \in Int /\ 1 \in Int /\ DOMAIN Lines[o] = 1..Len(Lines[o])
    BY LinesOfOrders
  <2> QED
    BY <2>1, FS_Interval
<1>2. \A i \in DOMAIN Lines[o] : /\ Quantities(o)[i] = Lines[o][i].quantity
                                 /\ Quantities(o)[i] \in Nat
  BY LinesOfOrders DEF Quantities
<1>3. LinesFor(o, p) \subseteq DOMAIN Lines[o]
  BY DEF LinesFor
<1>4. ASSUME NEW T
      PROVE  /\ IsFiniteSet(LinesFor(o, p) \cap T)
             /\ SumFunctionOnSet(Quantities(o), LinesFor(o, p) \cap T) \in Nat
  <2>1. LinesFor(o, p) \cap T \subseteq DOMAIN Lines[o]
    BY <1>3
  <2>2. IsFiniteSet(LinesFor(o, p) \cap T)
    BY <1>1, <2>1, FS_Subset
  <2> QED
    BY <1>2, <2>1, <2>2, SumIsNat
<1>5. QuantityOf(o, p) = SumFunctionOnSet(Quantities(o), LinesFor(o, p))
  BY DEF QuantityOf, Quantities, LinesFor
<1>6. LinesFor(o, p) \cap DOMAIN Lines[o] = LinesFor(o, p)
  BY <1>3
<1> QED
  BY <1>1, <1>2, <1>4, <1>5, <1>6

\* A transaction that has worked off no line has moved nothing, and sees the
\* stock as it is.
LEMMA NothingMoved ==
    ASSUME NEW h, LinesDone(h) = {}, NEW S \in [Products -> Row], NEW p \in Products
    PROVE  Delta(h, p) = 0 /\ Shifted(S[p], Delta(h, p)) = S[p]
<1>1. MovedOf(h, p) = 0
  BY SumOfNone DEF MovedOf
<1>2. Delta(h, p) \in {MovedOf(h, p), -MovedOf(h, p)}
  BY DEF Delta
<1>3. Delta(h, p) = 0
  BY <1>1, <1>2
<1>4. S[p] \in Row
  OBVIOUS
<1> QED
  BY <1>3, <1>4 DEF Shifted, Row

\* The next line in the loop, or the first one of what follows.
LEMMA NextLineMoves ==
    ASSUME NEW h \in Handler, h.line \in DOMAIN Lines[h.event.orderId],
           NEW loop \in Steps, NEW next \in Steps,
           NEW new, new = NextLine(h, loop, next)
    PROVE  \/ /\ h.line < Len(Lines[h.event.orderId])
              /\ new.step = loop /\ new.line = h.line + 1
           \/ /\ h.line = Len(Lines[h.event.orderId])
              /\ new.step = next /\ new.line = 1
<1> DEFINE len == Len(Lines[h.event.orderId])
<1>1. h.event.orderId \in Orders
  BY EventsOfOrders DEF Handler
<1>2. len \in Nat /\ h.line \in 1..len
  BY <1>1, LinesOfOrders
<1>3. CASE h.line < len
  BY <1>3 DEF NextLine, Handler
<1>4. CASE ~(h.line < len)
  <2>1. h.line = len
    BY <1>2, <1>4
  <2> QED
    BY <1>4, <2>1 DEF NextLine, Handler
<1> QED
  BY <1>3, <1>4

\* Only what is committed counts.
LEMMA StockInvStays ==
    ASSUME StockInv, UNCHANGED <<stock, reservations, processed, deployed>>
    PROVE  StockInv'
<1>1. UNCHANGED <<Held, ReleasedTwice>>
  BY DEF Held, ReleasedTwice, Alone
<1>2. ReleasedInv'
  BY DEF StockInv, ReleasedInv
<1>3. PICK twice : Accounted(twice)
  BY DEF StockInv
<1>4. Accounted(twice)'
  BY <1>1, <1>3 DEF Accounted, QuantityIn
<1> QED
  BY <1>1, <1>2, <1>4 DEF StockInv

-----------------------------------------------------------------------------
\* A statement that commits nothing keeps the ledger, if the handler it leaves
\* sees what it has moved and shares its rows with no other one.
LEMMA ContinueKeepsLedgerInv ==
    ASSUME IInv, LedgerInv, NEW w \in Instances, NEW h, Continue(w, h),
           \/ h = Idle
           \/ /\ HandlerMoves(h, stock)
              /\ \A v \in Instances \ {w} :
                    Busy(v) => DOMAIN h.rows \cap DOMAIN tx[v].rows = {}
    PROVE  LedgerInv'
<1>1. /\ UNCHANGED <<stock, reservations>>
      /\ tx' = [tx EXCEPT ![w] = h]
  BY DEF Continue, tables
<1>2. tx'[w] = h /\ \A v \in Instances \ {w} : tx'[v] = tx[v]
  BY <1>1 DEF IInv, TablesInv
<1>4. MovesInv'
  BY <1>1, <1>2 DEF Busy, LedgerInv, MovesInv
<1>5. LockInv'
  BY <1>2 DEF LedgerInv, LockInv, Busy
<1>6. StockInv'
  BY StockInvStays DEF Continue, tables, LedgerInv
<1> QED
  BY <1>4, <1>5, <1>6 DEF LedgerInv

\* Most statements write no row and work off no line.
LEMMA QuietStep ==
    ASSUME IInv, LedgerInv, NEW w \in Instances, Busy(w), LinesDone(tx[w]) = {},
           NEW h, Continue(w, h), LinesDone(h) = {},
           h.rows \in {tx[w].rows, <<>>},
           h.step \in {"mark", "lookup"} => h.line = 1,
           h.step \notin {"update", "commit", "done"}
              => h.result \in {"nothing", "inventory.rejected"}
    PROVE  LedgerInv'
<1>1. stock \in [Products -> Row] /\ HandlerMoves(tx[w], stock)
  BY DEF IInv, TablesInv, LedgerInv, MovesInv
<1>2. \A p \in Products : Seen(tx[w], stock, p) = stock[p]
  BY <1>1, NothingMoved DEF HandlerMoves
<1>3. \A p \in Products : Seen(h, stock, p) = stock[p]
  BY <1>2 DEF Seen
<1>4. HandlerMoves(h, stock)
  BY <1>1, <1>3, NothingMoved DEF HandlerMoves
<1>5. \A v \in Instances \ {w} : Busy(v) => DOMAIN h.rows \cap DOMAIN tx[v].rows = {}
  BY DEF LedgerInv, LockInv
<1> QED
  BY <1>4, <1>5, ContinueKeepsLedgerInv

\* A handler that has just been given its event.
LEMMA DeliverKeepsLedgerInv ==
    ASSUME IInv, LedgerInv, NEW w \in Instances, NEW e \in Events, Deliver(w, e)
    PROVE  LedgerInv'
<1> DEFINE h == [step |-> "mark", event |-> e, line |-> 1, result |-> "nothing",
                 rows |-> <<>>]
<1>1. Continue(w, h)
  BY DEF Deliver
<1>2. /\ h.step = "mark" /\ h.line = 1 /\ h.result = "nothing"
      /\ DOMAIN h.rows = {}
  OBVIOUS
<1> HIDE DEF h
<1>3. LinesDone(h) = {} /\ \A p \in Products : Seen(h, stock, p) = stock[p]
  BY <1>2 DEF LinesDone, Seen
<1>4. stock \in [Products -> Row]
  BY DEF IInv, TablesInv
<1>5. HandlerMoves(h, stock)
  BY <1>2, <1>3, <1>4, NothingMoved DEF HandlerMoves
<1> QED
  BY <1>1, <1>2, <1>5, ContinueKeepsLedgerInv

\* A duplicate is over at once, and what it wrote is undone.
LEMMA SkipKeepsLedgerInv ==
    ASSUME IInv, LedgerInv, NEW w \in Instances, Busy(w), SkipDuplicate(w),
           tx[w].step \in {"mark", "insert"}
    PROVE  LedgerInv'
<1> DEFINE h == [tx[w] EXCEPT !.step = "done", !.rows = <<>>]
<1>1. tx[w] \in Handler
  BY AtWork
<1>2. Continue(w, h)
  BY DEF SkipDuplicate
<1>3. h.step = "done" /\ h.rows = <<>>
  BY <1>1 DEF Handler
<1> HIDE DEF h
<1>4. LinesDone(h) = {} /\ LinesDone(tx[w]) = {}
  BY <1>3 DEF LinesDone
<1> QED
  BY <1>2, <1>3, <1>4, QuietStep

LEMMA MarkProcessedKeepsLedgerInv ==
    ASSUME IInv, LedgerInv, NEW w \in Instances, MarkProcessed(w)
    PROVE  LedgerInv'
<1> DEFINE next == IF tx[w].event.topic = "orders.created" THEN "find" ELSE "lookup"
           h == [tx[w] EXCEPT !.step = next]
<1>1. Busy(w) /\ tx[w].step = "mark" /\ tx[w] \in Handler
  BY AtWork DEF MarkProcessed
<1>2. CASE SkipDuplicate(w)
  BY <1>1, <1>2, SkipKeepsLedgerInv
<1>3. CASE Continue(w, h)
  <2>1. next \in {"find", "lookup"}
    OBVIOUS
  <2>2. /\ h.step = next /\ h.line = tx[w].line /\ h.result = tx[w].result
        /\ h.rows = tx[w].rows
    BY <1>1 DEF Handler
  <2> HIDE DEF h, next
  <2>3. tx[w].line = 1 /\ tx[w].result \in {"nothing", "inventory.rejected"}
    BY <1>1 DEF LedgerInv, MovesInv, HandlerMoves
  <2>4. LinesDone(h) = {} /\ LinesDone(tx[w]) = {}
    BY <1>1, <2>1, <2>2 DEF LinesDone
  <2> QED
    BY <1>1, <1>3, <2>1, <2>2, <2>3, <2>4, QuietStep
<1> QED
  BY <1>2, <1>3 DEF MarkProcessed

LEMMA FindProductKeepsLedgerInv ==
    ASSUME IInv, LedgerInv, NEW w \in Instances, FindProduct(w)
    PROVE  LedgerInv'
<1>1. /\ Busy(w) /\ tx[w].step = "find" /\ tx[w] \in Handler
      /\ tx[w].line \in DOMAIN Lines[tx[w].event.orderId]
  BY AtWork DEF FindProduct, HandlerFits
<1>2. PICK h : /\ Continue(w, h)
               /\ \/ h = NextLine(tx[w], "find", "check")
                  \/ h = [tx[w] EXCEPT !.step = "insert"]
  BY DEF FindProduct
<1>3. /\ h.step \in {"find", "check", "insert"}
      /\ h.result = tx[w].result /\ h.rows = tx[w].rows
  <2>1. CASE h = NextLine(tx[w], "find", "check")
    <3>1. "find" \in Steps /\ "check" \in Steps
      BY DEF Steps
    <3> QED
      BY <1>1, <2>1, <3>1, NextLineFits
  <2>2. CASE h = [tx[w] EXCEPT !.step = "insert"]
    BY <1>1, <2>2 DEF Handler
  <2> QED
    BY <1>2, <2>1, <2>2
<1>4. tx[w].result \in {"nothing", "inventory.rejected"}
  BY <1>1 DEF LedgerInv, MovesInv, HandlerMoves
<1>5. LinesDone(h) = {} /\ LinesDone(tx[w]) = {}
  BY <1>1, <1>3 DEF LinesDone
<1> QED
  BY <1>1, <1>2, <1>3, <1>4, <1>5, QuietStep

\* The row that is inserted is the one the stock stands for, and nobody else
\* holds it.
LEMMA InsertProductKeepsLedgerInv ==
    ASSUME IInv, LedgerInv, NEW w \in Instances, InsertProduct(w)
    PROVE  LedgerInv'
<1> DEFINE p == ProductOf(w)
           g == WithRow(w, stock[p])
           h == NextLine(g, "find", "check")
<1>1. /\ Busy(w) /\ tx[w].step = "insert" /\ ~Blocked(w) /\ tx[w] \in Handler
      /\ tx[w].line \in DOMAIN Lines[tx[w].event.orderId] /\ p \in Products
  BY AtWork DEF InsertProduct, HandlerFits
<1>2. CASE SkipDuplicate(w)
  BY <1>1, <1>2, SkipKeepsLedgerInv
<1>3. CASE Continue(w, h)
  <2>1. stock \in [Products -> Row] /\ stock[p] \in Row
    BY <1>1 DEF IInv, TablesInv
  <2>2. /\ g \in Handler /\ g.event = tx[w].event /\ g.line = tx[w].line
        /\ g.result = tx[w].result
        /\ g.rows = [q \in DOMAIN tx[w].rows \cup {p} |->
                        IF q = p THEN stock[p] ELSE tx[w].rows[q]]
    BY <1>1, <2>1, WithRowFits, WithRowRows
  <2> HIDE DEF g
  <2>3. /\ h.step \in {"find", "check"}
        /\ h.result = tx[w].result /\ h.rows = g.rows
    <3>1. "find" \in Steps /\ "check" \in Steps
      BY DEF Steps
    <3> QED
      BY <1>1, <2>2, <3>1, NextLineFits
  <2> HIDE DEF h
  <2>4. /\ HandlerMoves(tx[w], stock)
        /\ LinesDone(h) = {} /\ LinesDone(tx[w]) = {}
    BY <1>1, <2>3 DEF LinesDone, LedgerInv, MovesInv
  <2>5. \A q \in Products : Seen(tx[w], stock, q) = stock[q]
    BY <2>1, <2>4, NothingMoved DEF HandlerMoves
  <2>6. \A q \in Products : Seen(h, stock, q) = stock[q]
    BY <2>2, <2>3, <2>5 DEF Seen
  <2>7. HandlerMoves(h, stock)
    <3>1. tx[w].result \in {"nothing", "inventory.rejected"}
      BY <1>1, <2>4 DEF HandlerMoves
    <3> QED
      BY <2>1, <2>3, <2>4, <2>6, <3>1, NothingMoved DEF HandlerMoves
  <2>8. \A v \in Instances \ {w} : Busy(v) => DOMAIN h.rows \cap DOMAIN tx[v].rows = {}
    <3>1. \A v \in Instances \ {w} : Busy(v) => p \notin DOMAIN tx[v].rows
      BY <1>1 DEF Blocked, Waits, RowHeldBy
    <3>2. DOMAIN h.rows = DOMAIN tx[w].rows \cup {p}
      BY <2>2, <2>3
    <3> QED
      BY <1>1, <3>1, <3>2 DEF LedgerInv, LockInv
  <2> QED
    BY <1>3, <2>7, <2>8, ContinueKeepsLedgerInv
<1> QED
  BY <1>2, <1>3 DEF InsertProduct

\* The updates begin with the first line, and only if no line is short.
LEMMA CheckLineKeepsLedgerInv ==
    ASSUME IInv, LedgerInv, NEW w \in Instances, CheckLine(w)
    PROVE  LedgerInv'
<1> DEFINE g == IF Visible(w, ProductOf(w)).available < LineOf(w).quantity
                THEN [tx[w] EXCEPT !.result = "inventory.rejected"] ELSE tx[w]
           next == IF g.result = "nothing" THEN "update" ELSE "commit"
           h == NextLine(g, "check", next)
<1>1. /\ Busy(w) /\ tx[w].step = "check" /\ tx[w] \in Handler /\ Creates(tx[w])
      /\ tx[w].line \in DOMAIN Lines[tx[w].event.orderId]
  BY AtWork DEF CheckLine, HandlerFits
<1>2. Continue(w, h)
  BY DEF CheckLine
<1>3. tx[w].result \in {"nothing", "inventory.rejected"}
  BY <1>1 DEF LedgerInv, MovesInv, HandlerMoves
<1>4. /\ g \in Handler /\ g.event = tx[w].event /\ g.line = tx[w].line
      /\ g.rows = tx[w].rows /\ g.result \in {"nothing", "inventory.rejected"}
  BY <1>1, <1>3 DEF Handler, Results
<1>5. /\ next \in {"update", "commit"} /\ next \in Steps /\ "check" \in Steps
      /\ next = "commit" => g.result = "inventory.rejected"
  BY <1>4 DEF Steps
<1> HIDE DEF g, next
<1>6. /\ h.event = tx[w].event /\ h.rows = tx[w].rows /\ h.result = g.result
      /\ h.step = "check" \/ (h.step = next /\ h.line = 1)
  BY <1>1, <1>4, <1>5, NextLineFits, NextLineMoves
<1> HIDE DEF h
<1>7. LinesDone(h) = {} /\ LinesDone(tx[w]) = {}
  BY <1>1, <1>4, <1>5, <1>6 DEF LinesDone
<1> QED
  BY <1>1, <1>2, <1>4, <1>5, <1>6, <1>7, QuietStep

LEMMA FindReservationKeepsLedgerInv ==
    ASSUME IInv, LedgerInv, NEW w \in Instances, FindReservation(w)
    PROVE  LedgerInv'
<1> DEFINE next == IF reservations[OrderOf(w)] = "RESERVED" THEN "update" ELSE "commit"
           h == [tx[w] EXCEPT !.step = next]
<1>1. Busy(w) /\ tx[w].step = "lookup" /\ tx[w] \in Handler
  BY AtWork DEF FindReservation
<1>2. Continue(w, h)
  BY DEF FindReservation
<1>3. next \in {"update", "commit"}
  OBVIOUS
<1>4. /\ h.step = next /\ h.event = tx[w].event /\ h.line = tx[w].line
      /\ h.result = tx[w].result /\ h.rows = tx[w].rows
  BY <1>1 DEF Handler
<1> HIDE DEF h, next
<1>5. tx[w].line = 1 /\ tx[w].result \in {"nothing", "inventory.rejected"}
  BY <1>1 DEF LedgerInv, MovesInv, HandlerMoves
<1>6. LinesDone(h) = {} /\ LinesDone(tx[w]) = {}
  BY <1>1, <1>3, <1>4, <1>5 DEF LinesDone
<1> QED
  BY <1>1, <1>2, <1>3, <1>4, <1>5, <1>6, QuietStep

\* One line more is worked off, and its product's row moves by its quantity.
LEMMA UpdateProductKeepsLedgerInv ==
    ASSUME IInv, LedgerInv, NEW w \in Instances, UpdateProduct(w)
    PROVE  LedgerInv'
<1> DEFINE p == ProductOf(w)
           o == OrderOf(w)
           n == LineOf(w).quantity
           line == tx[w].line
           g == WithRow(w, Moved(w))
           f == [g EXCEPT !.result = DoneWith(g.event)]
           h == NextLine(f, "update", "commit")
<1>1. /\ Busy(w) /\ tx[w].step = "update" /\ ~Blocked(w) /\ tx[w] \in Handler
      /\ o \in Orders /\ o = tx[w].event.orderId
      /\ line \in DOMAIN Lines[o] /\ p \in Products
  BY AtWork DEF UpdateProduct, OrderOf
<1>2. Continue(w, h)
  BY DEF UpdateProduct
<1>3. HandlerMoves(tx[w], stock) /\ stock \in [Products -> Row]
  BY <1>1 DEF LedgerInv, MovesInv, IInv, TablesInv
<1>4. n \in Nat /\ n = Lines[o][line].quantity /\ p = Lines[o][line].product
  BY <1>1, LinesOfOrders DEF LineOf, ProductOf
<1>5. Visible(w, p) \in Row /\ Visible(w, p) = Seen(tx[w], stock, p)
  BY <1>1, VisibleIsRow DEF Visible, Seen
<1>6. Moved(w) = Shifted(Visible(w, p), IF Creates(tx[w]) THEN n ELSE -n)
      /\ Moved(w) \in Row
  <2>1. PICK r \in Row : r = Visible(w, p)
    BY <1>5
  <2>2. PICK k \in Int : k = IF Creates(tx[w]) THEN n ELSE -n
    BY <1>4
  <2>3. Moved(w) = [available |-> r.available - k, reserved |-> r.reserved + k]
    BY <2>1, <2>2 DEF Moved, Creates
  <2>4. Moved(w) = Shifted(r, k)
    BY <2>3 DEF Shifted
  <2>5. Moved(w) \in Row
    BY <2>3 DEF Row
  <2> QED
    BY <2>1, <2>2, <2>4, <2>5
<1>7. /\ g \in Handler /\ g.event = tx[w].event /\ g.line = line
      /\ g.rows = [q \in DOMAIN tx[w].rows \cup {p} |->
                      IF q = p THEN Moved(w) ELSE tx[w].rows[q]]
  BY <1>1, <1>6, WithRowFits, WithRowRows
<1> HIDE DEF g
<1>8. DoneWith(g.event) \in {"inventory.reserved", "released"}
      /\ DoneWith(g.event) \in Results
  BY DEF DoneWith, Results
<1>9. /\ f \in Handler /\ f.event = tx[w].event /\ f.line = line /\ f.rows = g.rows
      /\ f.result \in {"inventory.reserved", "released"}
  BY <1>7, <1>8 DEF Handler
<1> HIDE DEF f
<1>10. /\ h.event = tx[w].event /\ h.rows = g.rows /\ h.result = f.result
       /\ \/ h.step = "update" /\ h.line = line + 1
          \/ h.step = "commit" /\ h.line = 1 /\ line = Len(Lines[o])
  <2>1. "update" \in Steps /\ "commit" \in Steps
    BY DEF Steps
  <2> QED
    BY <1>1, <1>9, <2>1, NextLineFits, NextLineMoves
<1> HIDE DEF h
<1>11. LinesDone(tx[w]) = 1..(line - 1) /\ LinesDone(h) = 1..line
  <2>1. DOMAIN Lines[o] = 1..Len(Lines[o]) /\ Len(Lines[o]) \in Nat
    BY <1>1, LinesOfOrders
  <2>2. h.step = "update" => LinesDone(h) = 1..line
    BY <1>1, <1>10, <2>1 DEF LinesDone
  <2>3. h.step = "commit" => LinesDone(h) = 1..line
    BY <1>1, <1>9, <1>10, <2>1 DEF LinesDone
  <2> QED
    BY <1>1, <1>10, <2>2, <2>3 DEF LinesDone
<1>12. ASSUME NEW q \in Products
       PROVE  MovedOf(h, q) = MovedOf(tx[w], q) + (IF q = p THEN n ELSE 0)
              /\ MovedOf(tx[w], q) \in Nat
  <2> DEFINE before == LinesFor(o, q) \cap (1..(line - 1))
             after == LinesFor(o, q) \cap (1..line)
  <2>1. /\ MovedOf(tx[w], q) = SumFunctionOnSet(Quantities(o), before)
        /\ MovedOf(h, q) = SumFunctionOnSet(Quantities(o), after)
    BY <1>1, <1>10, <1>11 DEF MovedOf
  <2>2. IsFiniteSet(before) /\ SumFunctionOnSet(Quantities(o), before) \in Nat
    BY <1>1, QuantitiesAddUp
  <2>3. line \in Nat /\ 1..line = (1..(line - 1)) \cup {line} /\ line \notin before
    BY <1>1, LinesOfOrders
  <2>4. CASE q = p
    <3>1. after = before \cup {line}
      BY <1>1, <1>4, <2>3, <2>4 DEF LinesFor
    <3>2. \A i \in before \cup {line} : Quantities(o)[i] \in Int
      <4>1. before \cup {line} \subseteq DOMAIN Lines[o]
        BY <1>1 DEF LinesFor
      <4>2. \A i \in DOMAIN Lines[o] : Quantities(o)[i] \in Nat
        BY <1>1, QuantitiesAddUp
      <4> QED
        BY <4>1, <4>2
    <3>3. Quantities(o)[line] = n
      BY <1>1, <1>4, QuantitiesAddUp
    <3> HIDE DEF before, after
    <3>4. SumFunctionOnSet(Quantities(o), before \cup {line})
             = Quantities(o)[line] + SumFunctionOnSet(Quantities(o), before)
      BY <2>2, <2>3, <3>2, SumPutsIn
    <3> QED
      BY <1>4, <2>1, <2>2, <2>4, <3>1, <3>3, <3>4
  <2>5. CASE q # p
    <3>1. after = before
      BY <1>1, <1>4, <2>3, <2>5 DEF LinesFor
    <3> QED
      BY <2>1, <2>2, <2>5, <3>1
  <2> QED
    BY <2>4, <2>5
<1>13. ASSUME NEW q \in Products
       PROVE  Seen(h, stock, q) = Shifted(stock[q], Delta(h, q))
  <2>1. Creates(h) <=> Creates(tx[w])
    BY <1>10 DEF Creates
  <2>2. /\ Seen(tx[w], stock, q) = Shifted(stock[q], Delta(tx[w], q))
        /\ stock[q].available \in Int /\ stock[q].reserved \in Int
    BY <1>3 DEF HandlerMoves, Row
  <2>3. CASE q # p
    <3>1. Seen(h, stock, q) = Seen(tx[w], stock, q)
      BY <1>7, <1>10, <2>3 DEF Seen
    <3>2. MovedOf(h, q) = MovedOf(tx[w], q)
      BY <1>12, <2>3
    <3>3. Delta(h, q) = Delta(tx[w], q)
      BY <2>1, <3>2 DEF Delta
    <3> QED
      BY <2>2, <3>1, <3>3
  <2>4. CASE q = p
    <3>1. Seen(h, stock, q) = Moved(w)
      BY <1>7, <1>10, <2>4 DEF Seen
    <3>2. MovedOf(h, q) = MovedOf(tx[w], q) + n /\ MovedOf(tx[w], q) \in Nat
      BY <1>12, <2>4
    <3>3. CASE Creates(tx[w])
      <4>1. Delta(h, q) = Delta(tx[w], q) + n /\ Delta(tx[w], q) \in Int
        BY <1>4, <2>1, <3>2, <3>3 DEF Delta
      <4>2. Moved(w) = Shifted(Shifted(stock[q], Delta(tx[w], q)), n)
        BY <1>5, <1>6, <2>2, <2>4, <3>3
      <4> HIDE DEF n
      <4> QED
        BY <1>4, <2>2, <3>1, <4>1, <4>2 DEF Shifted
    <3>4. CASE ~Creates(tx[w])
      <4>1. Delta(h, q) = Delta(tx[w], q) - n /\ Delta(tx[w], q) \in Int
        BY <1>4, <2>1, <3>2, <3>4 DEF Delta
      <4>2. Moved(w) = Shifted(Shifted(stock[q], Delta(tx[w], q)), -n)
        BY <1>5, <1>6, <2>2, <2>4, <3>4
      <4> HIDE DEF n
      <4> QED
        BY <1>4, <2>2, <3>1, <4>1, <4>2 DEF Shifted
    <3> QED
      BY <3>3, <3>4
  <2> QED
    BY <2>3, <2>4
<1>14. HandlerMoves(h, stock)
  BY <1>10, <1>13 DEF HandlerMoves
<1>15. \A v \in Instances \ {w} : Busy(v) => DOMAIN h.rows \cap DOMAIN tx[v].rows = {}
  <2>1. \A v \in Instances \ {w} : Busy(v) => p \notin DOMAIN tx[v].rows
    BY <1>1 DEF Blocked, Waits, RowHeldBy
  <2>2. DOMAIN h.rows = DOMAIN tx[w].rows \cup {p}
    BY <1>7, <1>10
  <2> QED
    BY <1>1, <2>1, <2>2 DEF LedgerInv, LockInv
<1> QED
  BY <1>2, <1>14, <1>15, ContinueKeepsLedgerInv

-----------------------------------------------------------------------------
\* A single instance handles one event at a time.
LEMMA OneAtWork ==
    ASSUME IInv, Alone, NEW w \in Instances, NEW v \in Instances, Busy(w), Busy(v)
    PROVE  w = v
<1>1. IsFiniteSet(deployed)
  BY RaceAssumption, FS_Subset DEF IInv, TablesInv
<1>2. PICK u : deployed = {u}
  BY <1>1, FS_Singleton DEF Alone
<1>3. w \in deployed /\ v \in deployed
  BY AtWork
<1> QED
  BY <1>2, <1>3

\* What the commit makes of the stock is what the transaction sees.
LEMMA CommitKeepsMovesInv ==
    ASSUME IInv, LedgerInv, NEW w \in Instances, Commit(w)
    PROVE  MovesInv' /\ LockInv'
<1> DEFINE o == OrderOf(w)
           h == [tx[w] EXCEPT !.step = "done", !.rows = <<>>]
<1>1. /\ Busy(w) /\ tx[w].step = "commit" /\ PastMarker(tx[w]) /\ tx[w] \in Handler
      /\ HandlerFits(tx[w]) /\ o \in Orders /\ o = tx[w].event.orderId
      /\ stock \in [Products -> Row]
      /\ reservations \in [Orders -> {"NONE", "RESERVED", "RELEASED"}]
  BY AtWork DEF Commit, PastMarker, OrderOf, IInv, TablesInv
<1>2. stock' = [p \in Products |-> Visible(w, p)]
  BY DEF Commit
<1>3. /\ h \in Handler /\ h.step = "done" /\ h.rows = <<>>
  BY <1>1, NoRows DEF Handler, Steps
<1>4. tx' = [tx EXCEPT ![w] = h]
  BY <1>1 DEF Commit, IInv, TablesInv, Handler
<1> HIDE DEF h
<1>5. tx'[w] = h /\ \A v \in Instances \ {w} : tx'[v] = tx[v]
  BY <1>4 DEF IInv, TablesInv
<1>6. stock' \in [Products -> Row]
  BY <1>1, <1>2, VisibleIsRow
<1>7. HandlerMoves(h, stock')
  <2>1. \A p \in Products : Seen(h, stock', p) = stock'[p]
    BY <1>3 DEF Seen
  <2>2. LinesDone(h) = {}
    BY <1>3 DEF LinesDone
  <2> QED
    BY <1>3, <1>6, <2>1, <2>2, NothingMoved DEF HandlerMoves
<1>8. ASSUME NEW v \in Instances \ {w}, Busy(v)
      PROVE  HandlerMoves(tx[v], stock')
  <2>1. /\ HandlerMoves(tx[v], stock)
        /\ DOMAIN tx[w].rows \cap DOMAIN tx[v].rows = {}
        /\ HandlerFits(tx[v]) /\ OrderOf(v) \in Orders
    BY <1>1, <1>8, AtWork DEF LedgerInv, MovesInv, LockInv
  <2>2. ASSUME NEW p \in Products
        PROVE  Seen(tx[v], stock', p) = Shifted(stock'[p], Delta(tx[v], p))
    <3>1. CASE p \in DOMAIN tx[v].rows
      <4>1. stock'[p] = stock[p]
        BY <1>2, <2>1, <3>1 DEF Visible
      <4>2. Seen(tx[v], stock', p) = Seen(tx[v], stock, p)
        BY <3>1 DEF Seen
      <4> QED
        BY <2>1, <4>1, <4>2 DEF HandlerMoves
    <3>2. CASE p \notin DOMAIN tx[v].rows
      <4>1. stock[p] = Shifted(stock[p], Delta(tx[v], p))
        BY <2>1, <3>2 DEF HandlerMoves, Seen
      <4>2. stock[p].available \in Int /\ Delta(tx[v], p) \in Int
        <5>1. MovedOf(tx[v], p) \in Nat
          BY <2>1, QuantitiesAddUp DEF MovedOf, OrderOf
        <5> QED
          BY <1>1, <5>1 DEF Delta, Row
      <4>3. Delta(tx[v], p) = 0
        BY <4>1, <4>2 DEF Shifted
      <4>4. Seen(tx[v], stock', p) = stock'[p] /\ stock'[p] \in Row
        BY <1>6, <3>2 DEF Seen
      <4> QED
        BY <4>3, <4>4 DEF Shifted, Row
    <3> QED
      BY <3>1, <3>2
  <2> QED
    BY <2>1, <2>2 DEF HandlerMoves
<1>9. MovesInv'
  <2> SUFFICES ASSUME NEW v \in Instances, Busy(v)'
               PROVE  HandlerMoves(tx'[v], stock')
    BY DEF MovesInv
  <2> QED
    BY <1>5, <1>7, <1>8 DEF Busy
<1>10. LockInv'
  <2>1. DOMAIN tx'[w].rows = {}
    BY <1>3, <1>5
  <2> QED
    BY <1>5, <2>1 DEF LedgerInv, LockInv, Busy
<1> QED
  BY <1>9, <1>10

\* What the commit makes of a row: it adds or takes back all of the order's lines,
\* or leaves it alone.
LEMMA CommitMoves ==
    ASSUME IInv, LedgerInv, NEW w \in Instances, Commit(w), NEW p \in Products
    PROVE  LET h == tx[w]
               q == QuantityOf(OrderOf(w), p)
           IN  /\ stock[p].available \in Int /\ stock[p].reserved \in Int
               /\ Delta(h, p) \in Int /\ q \in Nat
               /\ stock'[p] = Shifted(stock[p], Delta(h, p))
               /\ h.result = "inventory.reserved" => Creates(h) /\ Delta(h, p) = q
               /\ h.result = "released" => ~Creates(h) /\ Delta(h, p) = -q
               /\ h.result \notin {"inventory.reserved", "released"} => Delta(h, p) = 0
<1> DEFINE h == tx[w]
           o == OrderOf(w)
<1>1. /\ h.step = "commit" /\ HandlerFits(h)
      /\ o \in Orders /\ o = h.event.orderId
      /\ stock \in [Products -> Row]
      /\ HandlerMoves(h, stock)
  BY AtWork DEF Commit, OrderOf, IInv, TablesInv, LedgerInv, MovesInv
<1>2. stock'[p] = Shifted(stock[p], Delta(h, p))
  BY <1>1 DEF Commit, Visible, Seen, HandlerMoves
<1>3. stock[p].available \in Int /\ stock[p].reserved \in Int
  BY <1>1 DEF Row
<1>4. QuantityOf(o, p) \in Nat
  BY <1>1, QuantitiesAddUp
<1>5. CASE h.result \in {"inventory.reserved", "released"}
  <2>1. LinesDone(h) = DOMAIN Lines[o]
    BY <1>1, <1>5 DEF LinesDone
  <2>2. LinesFor(o, p) \cap DOMAIN Lines[o] = LinesFor(o, p)
    BY DEF LinesFor
  <2>3. MovedOf(h, p) = QuantityOf(o, p)
    BY <1>1, <2>1, <2>2, QuantitiesAddUp DEF MovedOf
  <2>4. Creates(h) <=> h.result = "inventory.reserved"
    BY <1>1, <1>5 DEF HandlerFits
  <2> HIDE DEF h, o
  <2>5. Delta(h, p) = IF Creates(h) THEN QuantityOf(o, p) ELSE -QuantityOf(o, p)
    BY <2>3 DEF Delta
  <2>6. Delta(h, p) \in Int
    BY <1>4, <2>5
  <2> QED
    BY <1>2, <1>3, <1>4, <1>5, <2>4, <2>5, <2>6 DEF h, o
<1>6. CASE h.result \notin {"inventory.reserved", "released"}
  <2>1. LinesDone(h) = {}
    BY <1>1, <1>6 DEF LinesDone
  <2>2. Delta(h, p) = 0
    BY <1>1, <2>1, NothingMoved
  <2> QED
    BY <1>2, <1>3, <1>4, <1>6, <2>2
<1> QED
  BY <1>5, <1>6

\* An event that does not create an order is one of its two cancellations.
LEMMA CancelsOfOrders ==
    ASSUME NEW e \in Events, e.topic # "orders.created"
    PROVE  \E n \in 1..2 : e = Cancelled(e.orderId, n)
<1>1. PICK o \in Orders :
            e \in {EventOf("orders.cancelled", o, n) : n \in 1..Cancellations[o]}
  BY DEF Events, EventOf
<1>2. PICK n \in 1..Cancellations[o] : e = EventOf("orders.cancelled", o, n)
  BY <1>1
<1>3. n \in 1..2
  BY <1>2, RaceAssumption
<1> QED
  BY <1>2, <1>3 DEF EventOf, Cancelled

\* One order more, or less, in the sum.
LEMMA QuantitiesIn ==
    ASSUME NEW p \in Products, NEW S \in SUBSET Orders, IsFiniteSet(S), NEW o \in Orders
    PROVE  /\ QuantityIn(p, S) \in Int
           /\ o \notin S => QuantityIn(p, S \cup {o}) = QuantityIn(p, S) + QuantityOf(o, p)
           /\ o \in S => QuantityIn(p, S \ {o}) = QuantityIn(p, S) - QuantityOf(o, p)
<1> DEFINE f == [q \in Orders |-> QuantityOf(q, p)]
<1>1. \A q \in Orders : f[q] = QuantityOf(q, p) /\ f[q] \in Int
  BY QuantitiesAddUp
<1>2. \A T : QuantityIn(p, T) = SumFunctionOnSet(f, T)
  BY DEF QuantityIn
<1>3. f[o] = QuantityOf(o, p) /\ f[o] \in Int
  BY <1>1
<1> HIDE DEF f
<1>4. SumFunctionOnSet(f, S) \in Int
  BY <1>1, SumIsInt
<1>5. o \notin S => SumFunctionOnSet(f, S \cup {o}) = f[o] + SumFunctionOnSet(f, S)
  <2>1. \A q \in S \cup {o} : f[q] \in Int
    BY <1>1
  <2> QED
    BY <2>1, SumPutsIn
<1>6. o \in S => /\ SumFunctionOnSet(f, S) = f[o] + SumFunctionOnSet(f, S \ {o})
                 /\ SumFunctionOnSet(f, S \ {o}) \in Int
  <2>1. \A q \in S : f[q] \in Int
    BY <1>1
  <2>2. IsFiniteSet(S \ {o})
    BY FS_Subset
  <2> QED
    BY <2>1, <2>2, SumTakesOut, SumIsInt
<1>7. QuantityIn(p, S) \in Int
  BY <1>2, <1>4
<1>8. o \notin S => QuantityIn(p, S \cup {o}) = QuantityIn(p, S) + QuantityOf(o, p)
  BY <1>2, <1>3, <1>4, <1>5
<1>9. o \in S => QuantityIn(p, S \ {o}) = QuantityIn(p, S) - QuantityOf(o, p)
  BY <1>2, <1>3, <1>4, <1>6
<1> QED
  BY <1>7, <1>8, <1>9

\* What the commit moves is what its reservation holds; or, when another instance
\* has released it already, what is given back a second time.
LEMMA CommitKeepsStockInv ==
    ASSUME IInv, LedgerInv, NEW w \in Instances, Commit(w),
           Alone /\ tx[w].result = "released" => reservations[OrderOf(w)] = "RESERVED"
    PROVE  StockInv'
<1> PICK h, o, e : h = tx[w] /\ o = OrderOf(w) /\ e = tx[w].event
  OBVIOUS
<1>1. /\ Busy(w) /\ h.step = "commit" /\ h \in Handler
      /\ HandlerFits(h) /\ o \in Orders /\ o = e.orderId /\ e \in Events
      /\ e = h.event /\ e \notin processed /\ processed' = processed \cup {e}
      /\ stock \in [Products -> Row] /\ UNCHANGED deployed
      /\ reservations \in [Orders -> {"NONE", "RESERVED", "RELEASED"}]
  BY AtWork DEF Commit, OrderOf, IInv, TablesInv, Handler, HandlerFits, PastMarker
<1>2. IsFiniteSet(Held) /\ Held \subseteq Orders /\ ReleasedInv
  BY DEF LedgerInv, StockInv, Held
<1>3. PICK twice : Accounted(twice)
  BY DEF LedgerInv, StockInv
<1>4. twice \subseteq Orders /\ IsFiniteSet(twice)
  BY <1>3 DEF Accounted, ReleasedTwice
<1>5. \A q \in Orders : reservations[q] = "RELEASED" => reservations'[q] = "RELEASED"
  BY <1>1 DEF Commit
<1>6. twice \subseteq ReleasedTwice'
  BY <1>1, <1>3, <1>5 DEF Accounted, ReleasedTwice, Alone
<1>7. h.result = "released" => \E n \in 1..2 : e = Cancelled(o, n)
  BY <1>1, CancelsOfOrders DEF HandlerFits, Creates
<1>8. ReleasedInv'
  <2> SUFFICES ASSUME NEW q \in Orders, reservations'[q] = "RELEASED"
               PROVE  \E n \in 1..2 : Cancelled(q, n) \in processed'
    BY DEF ReleasedInv, Cancelled
  <2>1. CASE reservations[q] = "RELEASED"
    BY <1>1, <1>2, <2>1 DEF ReleasedInv
  <2>2. CASE reservations[q] # "RELEASED"
    <3>1. q = o /\ h.result = "released"
      BY <1>1, <2>2 DEF Commit
    <3> QED
      BY <1>1, <1>7, <3>1
  <2> QED
    BY <2>1, <2>2
\* What is left to show: the sums move as the counters do.
<1>9. ASSUME NEW new \in SUBSET Orders, new \subseteq ReleasedTwice',
             IsFiniteSet(new), IsFiniteSet(Held'),
             \A p \in Products :
                 QuantityIn(p, Held') - QuantityIn(p, new)
                    = QuantityIn(p, Held) - QuantityIn(p, twice) + Delta(h, p)
      PROVE  StockInv'
  <2>1. ASSUME NEW p \in Products
        PROVE  /\ stock'[p].available + stock'[p].reserved = DefaultStock
               /\ stock'[p].reserved = QuantityIn(p, Held') - QuantityIn(p, new)
    <3>1. /\ stock[p].available \in Int /\ stock[p].reserved \in Int
          /\ Delta(h, p) \in Int /\ stock'[p] = Shifted(stock[p], Delta(h, p))
      BY CommitMoves
    <3>2. /\ stock'[p].available = stock[p].available - Delta(h, p)
          /\ stock'[p].reserved = stock[p].reserved + Delta(h, p)
      BY <3>1 DEF Shifted
    <3>3. /\ stock[p].available + stock[p].reserved = DefaultStock
          /\ stock[p].reserved = QuantityIn(p, Held) - QuantityIn(p, twice)
      BY <1>3 DEF Accounted
    <3>4. stock'[p].available + stock'[p].reserved = DefaultStock
      BY <3>1, <3>2, <3>3
    <3>5. QuantityIn(p, Held') - QuantityIn(p, new) = stock[p].reserved + Delta(h, p)
      BY <1>9, <3>3
    <3> QED
      BY <3>2, <3>4, <3>5
  <2>2. Accounted(new)'
    BY <1>9, <2>1 DEF Accounted, QuantityIn
  <2> QED
    BY <1>8, <1>9, <2>2 DEF StockInv
<1>10. ASSUME NEW p \in Products
       PROVE  /\ QuantityOf(o, p) \in Int
              /\ QuantityIn(p, Held) \in Int /\ QuantityIn(p, twice) \in Int
              /\ h.result = "inventory.reserved" => Delta(h, p) = QuantityOf(o, p)
              /\ h.result = "released" => Delta(h, p) = -QuantityOf(o, p)
              /\ h.result \notin {"inventory.reserved", "released"} => Delta(h, p) = 0
  <2>1. /\ QuantityOf(o, p) \in Nat
        /\ h.result = "inventory.reserved" => Delta(h, p) = QuantityOf(o, p)
        /\ h.result = "released" => Delta(h, p) = -QuantityOf(o, p)
        /\ h.result \notin {"inventory.reserved", "released"} => Delta(h, p) = 0
    BY CommitMoves
  <2>2. QuantityIn(p, Held) \in Int /\ QuantityIn(p, twice) \in Int
    BY <1>1, <1>2, <1>4, QuantitiesIn
  <2> QED
    BY <2>1, <2>2
<1>11. CASE h.result = "inventory.reserved"
  <2>1. o \notin Held /\ Held' = Held \cup {o}
    BY <1>1, <1>11 DEF Commit, HandlerFits, Held
  <2>2. IsFiniteSet(Held')
    BY <1>2, <2>1, FS_AddElement
  <2>3. \A p \in Products : QuantityIn(p, Held') = QuantityIn(p, Held) + QuantityOf(o, p)
    BY <1>1, <1>2, <2>1, QuantitiesIn
  <2>4. \A p \in Products :
            QuantityIn(p, Held') - QuantityIn(p, twice)
               = QuantityIn(p, Held) - QuantityIn(p, twice) + Delta(h, p)
    BY <1>10, <1>11, <2>3
  <2> QED
    BY <1>4, <1>6, <1>9, <2>2, <2>4
<1>12. CASE h.result = "released" /\ reservations[o] = "RESERVED"
  <2>1. o \in Held /\ Held' = Held \ {o}
    BY <1>1, <1>12 DEF Commit, Held
  <2>2. IsFiniteSet(Held')
    BY <1>2, <2>1, FS_RemoveElement
  <2>3. \A p \in Products : QuantityIn(p, Held') = QuantityIn(p, Held) - QuantityOf(o, p)
    BY <1>1, <1>2, <2>1, QuantitiesIn
  <2>4. \A p \in Products :
            QuantityIn(p, Held') - QuantityIn(p, twice)
               = QuantityIn(p, Held) - QuantityIn(p, twice) + Delta(h, p)
    BY <1>10, <1>12, <2>3
  <2> QED
    BY <1>4, <1>6, <1>9, <2>2, <2>4
\* The stale look-up: the order's other cancellation is processed.
<1>13. CASE h.result = "released" /\ reservations[o] # "RESERVED"
  <2>1. /\ ~Alone /\ reservations[o] = "RELEASED"
        /\ reservations' = [reservations EXCEPT ![o] = "RELEASED"]
    BY <1>1, <1>13 DEF Commit, HandlerFits, Creates, OrderOf
  <2>2. PICK n \in 1..2 : e = Cancelled(o, n)
    BY <1>7, <1>13
  <2>3. PICK m \in 1..2 : Cancelled(o, m) \in processed
    BY <1>1, <1>2, <2>1 DEF ReleasedInv
  <2>4. \A k \in 1..2 : k = n \/ k = m
    BY <1>1, <2>2, <2>3
  <2>5. o \in ReleasedTwice'
    BY <1>1, <2>1, <2>2, <2>3, <2>4 DEF ReleasedTwice, Alone, Cancelled
  <2>6. o \notin twice
    <3>1. o \notin ReleasedTwice
      BY <1>1, <2>2 DEF ReleasedTwice, Cancelled
    <3> QED
      BY <1>3, <3>1 DEF Accounted
  <2>7. Held' = Held
    BY <1>1, <2>1 DEF Held
  <2>8. IsFiniteSet(twice \cup {o}) /\ twice \cup {o} \subseteq Orders
    BY <1>1, <1>4, FS_AddElement
  <2>9. \A p \in Products :
            QuantityIn(p, twice \cup {o}) = QuantityIn(p, twice) + QuantityOf(o, p)
    BY <1>1, <1>4, <2>6, QuantitiesIn
  <2>10. \A p \in Products :
             QuantityIn(p, Held') - QuantityIn(p, twice \cup {o})
                = QuantityIn(p, Held) - QuantityIn(p, twice) + Delta(h, p)
    <3> SUFFICES ASSUME NEW p \in Products
                 PROVE  QuantityIn(p, Held) - QuantityIn(p, twice \cup {o})
                           = QuantityIn(p, Held) - QuantityIn(p, twice) + Delta(h, p)
      BY <2>7
    <3>1. QuantityIn(p, twice \cup {o}) = QuantityIn(p, twice) + QuantityOf(o, p)
      BY <2>9
    <3>2. Delta(h, p) = -QuantityOf(o, p)
      BY <1>10, <1>13
    <3>3. /\ QuantityOf(o, p) \in Int
          /\ QuantityIn(p, Held) \in Int /\ QuantityIn(p, twice) \in Int
      BY <1>10
    <3> QED
      BY <3>1, <3>2, <3>3
  <2> QED
    BY <1>2, <1>6, <1>9, <2>5, <2>7, <2>8, <2>10
<1>14. CASE h.result \notin {"inventory.reserved", "released"}
  <2>1. Held' = Held
    BY <1>14 DEF Commit, Held
  <2>2. \A p \in Products :
            QuantityIn(p, Held') - QuantityIn(p, twice)
               = QuantityIn(p, Held) - QuantityIn(p, twice) + Delta(h, p)
    BY <1>10, <1>14, <2>1
  <2> QED
    BY <1>2, <1>4, <1>6, <1>9, <2>1, <2>2
<1> QED
  BY <1>11, <1>12, <1>13, <1>14

\* An instance becomes idle, and what it wrote and did not commit is undone.
LEMMA IdleKeepsLedgerInv ==
    ASSUME IInv, LedgerInv, NEW w \in Instances, tx' = [tx EXCEPT ![w] = Idle],
           UNCHANGED <<tables, deployed>>
    PROVE  LedgerInv'
<1>1. tx'[w] = Idle /\ \A v \in Instances \ {w} : tx'[v] = tx[v]
  BY DEF IInv, TablesInv
<1>2. UNCHANGED <<stock, reservations>>
  BY DEF tables
<1>3. MovesInv' /\ LockInv'
  BY <1>1, <1>2 DEF LedgerInv, MovesInv, LockInv, Busy
<1>4. StockInv'
  BY StockInvStays DEF tables, LedgerInv
<1> QED
  BY <1>3, <1>4 DEF LedgerInv

LEMMA InitLedgerInv == Init => LedgerInv
<1> SUFFICES ASSUME Init PROVE LedgerInv
  OBVIOUS
<1>1. MovesInv /\ LockInv
  BY DEF Init, MovesInv, LockInv, Busy
<1>2. Held = {}
  BY DEF Init, Held
<1>3. IsFiniteSet(Held)
  BY <1>2, FS_EmptySet
<1>4. ReleasedInv
  BY DEF Init, ReleasedInv
<1>5. Accounted({})
  <2> SUFFICES ASSUME NEW p \in Products
               PROVE  /\ stock[p].available + stock[p].reserved = DefaultStock
                      /\ stock[p].reserved = QuantityIn(p, Held) - QuantityIn(p, {})
    BY FS_EmptySet DEF Accounted
  <2>1. stock[p].available = DefaultStock /\ stock[p].reserved = 0
    BY DEF Init
  <2>2. QuantityIn(p, {}) = 0
    BY SumOfNone DEF QuantityIn
  <2> QED
    BY <1>2, <2>1, <2>2, RaceAssumption
<1> QED
  BY <1>1, <1>3, <1>4, <1>5 DEF LedgerInv, StockInv

\* The instances there are never change.
LEMMA DeployedStays == [Next]_vars => (Alone' <=> Alone)
<1> SUFFICES ASSUME [Next]_vars PROVE UNCHANGED deployed
  BY DEF Alone
<1> QED
  BY DEF Next, Deliver, Proceed, MarkProcessed, FindProduct, InsertProduct, CheckLine,
         FindReservation, UpdateProduct, Commit, Acknowledge, Fail, AbortDeadlocked,
         SkipDuplicate, Continue, vars

-----------------------------------------------------------------------------
(***************************************************************************)
(* A single instance.  Nobody else commits while a handler is at work, so  *)
(* what its checks said of the stock holds until its own commit: a         *)
(* reservation is made when no line is short, and refused when some line   *)
(* is, as the atomic step of InventoryService has it.                      *)
(***************************************************************************)
Short(o, i, S) == S[Lines[o][i].product].available < Lines[o][i].quantity

\* The handler is going to reserve stock, or has done so.
Reserves(h) ==
    /\ Creates(h)
    /\ h.step = "update" \/ (h.step = "commit" /\ h.result = "inventory.reserved")

\* The handler is going to release a reservation, or has done so.
Releases(h) ==
    /\ ~Creates(h)
    /\ h.step = "update" \/ (h.step = "commit" /\ h.result = "released")

\* What a handler has found out, told of the stock S and the reservations R.
Decision(h, S, R) ==
    /\ h.result = "inventory.rejected" /\ h.step # "done" =>
          /\ h.step \in {"check", "commit"}
          /\ \E i \in DOMAIN Lines[h.event.orderId] : Short(h.event.orderId, i, S)
    /\ h.step = "check" /\ h.result = "nothing" =>
          \A i \in 1..(h.line - 1) : ~Short(h.event.orderId, i, S)
    /\ Reserves(h) =>
          \A i \in DOMAIN Lines[h.event.orderId] : ~Short(h.event.orderId, i, S)
    /\ h.step = "commit" /\ h.result = "nothing" =>
          ~Creates(h) /\ R[h.event.orderId] # "RESERVED"
    /\ Releases(h) => R[h.event.orderId] = "RESERVED"

DecisionInv ==
    \A w \in Instances : Busy(w) => Decision(tx[w], stock, reservations)

\* A statement that commits nothing changes no stock and no reservation.
LEMMA ContinueKeepsDecisionInv ==
    ASSUME IInv, DecisionInv, NEW w \in Instances, NEW h, Continue(w, h),
           h = Idle \/ Decision(h, stock, reservations)
    PROVE  DecisionInv'
<1>1. UNCHANGED <<stock, reservations>> /\ tx' = [tx EXCEPT ![w] = h]
  BY DEF Continue, tables
<1>2. tx'[w] = h /\ \A v \in Instances \ {w} : tx'[v] = tx[v]
  BY <1>1 DEF IInv, TablesInv
<1> QED
  BY <1>1, <1>2 DEF DecisionInv, Busy

\* A handler that has not come to its checks has found out nothing.
LEMMA Undecided ==
    ASSUME NEW h, h.step \in {"mark", "find", "insert", "lookup", "done"},
           h.result # "inventory.rejected" \/ h.step = "done",
           NEW S, NEW R
    PROVE  Decision(h, S, R)
BY DEF Decision, Reserves, Releases

LEMMA MarkProcessedKeepsDecisionInv ==
    ASSUME IInv, LedgerInv, DecisionInv, NEW w \in Instances, MarkProcessed(w)
    PROVE  DecisionInv'
<1> DEFINE next == IF tx[w].event.topic = "orders.created" THEN "find" ELSE "lookup"
           h == [tx[w] EXCEPT !.step = next]
           d == [tx[w] EXCEPT !.step = "done", !.rows = <<>>]
<1>1. /\ Busy(w) /\ tx[w].step = "mark" /\ tx[w] \in Handler
      /\ Decision(tx[w], stock, reservations)
  BY AtWork DEF MarkProcessed, DecisionInv
<1>2. next \in {"find", "lookup"}
  OBVIOUS
<1>3. h.step = next /\ h.result = tx[w].result /\ d.step = "done"
  BY <1>1 DEF Handler
<1>4. Continue(w, h) \/ Continue(w, d)
  BY DEF MarkProcessed, SkipDuplicate
<1>5. tx[w].result # "inventory.rejected"
  BY <1>1 DEF Decision
<1> HIDE DEF h, d, next
<1>6. Decision(h, stock, reservations) /\ Decision(d, stock, reservations)
  BY <1>2, <1>3, <1>5, Undecided
<1> QED
  BY <1>4, <1>6, ContinueKeepsDecisionInv

\* The loop that makes sure of the rows ends where the checks begin.
LEMMA ChecksBegin ==
    ASSUME IInv, NEW w \in Instances, Busy(w), NEW g \in Handler,
           g.event = tx[w].event, g.line = tx[w].line, g.result = tx[w].result,
           tx[w].step \in {"find", "insert"}, Decision(tx[w], stock, reservations)
    PROVE  Decision(NextLine(g, "find", "check"), stock, reservations)
<1> PICK h : h = NextLine(g, "find", "check")
  OBVIOUS
<1>1. "find" \in Steps /\ "check" \in Steps
  BY DEF Steps
<1>2. g.line \in DOMAIN Lines[g.event.orderId]
  BY AtWork DEF OrderOf
<1>3. /\ h.result = tx[w].result
      /\ h.step = "find" \/ (h.step = "check" /\ h.line = 1)
  BY <1>1, <1>2, NextLineFits, NextLineMoves
<1>4. h.result # "inventory.rejected"
  BY <1>3 DEF Decision
<1> QED
  BY <1>3, <1>4 DEF Decision, Reserves, Releases

LEMMA FindProductKeepsDecisionInv ==
    ASSUME IInv, LedgerInv, DecisionInv, NEW w \in Instances, FindProduct(w)
    PROVE  DecisionInv'
<1> DEFINE h == [tx[w] EXCEPT !.step = "insert"]
<1>1. /\ Busy(w) /\ tx[w].step = "find" /\ tx[w] \in Handler
      /\ Decision(tx[w], stock, reservations)
  BY AtWork DEF FindProduct, DecisionInv
<1>2. CASE Continue(w, NextLine(tx[w], "find", "check"))
  BY <1>1, <1>2, ChecksBegin, ContinueKeepsDecisionInv
<1>3. CASE Continue(w, h)
  <2>1. h.step = "insert" /\ h.result = tx[w].result
    BY <1>1 DEF Handler
  <2>2. tx[w].result # "inventory.rejected"
    BY <1>1 DEF Decision
  <2> HIDE DEF h
  <2>3. Decision(h, stock, reservations)
    BY <2>1, <2>2, Undecided
  <2> QED
    BY <1>3, <2>3, ContinueKeepsDecisionInv
<1> QED
  BY <1>2, <1>3 DEF FindProduct

LEMMA InsertProductKeepsDecisionInv ==
    ASSUME IInv, LedgerInv, DecisionInv, NEW w \in Instances, InsertProduct(w)
    PROVE  DecisionInv'
<1> DEFINE g == WithRow(w, stock[ProductOf(w)])
           d == [tx[w] EXCEPT !.step = "done", !.rows = <<>>]
<1>1. /\ Busy(w) /\ tx[w].step = "insert" /\ tx[w] \in Handler
      /\ Decision(tx[w], stock, reservations)
      /\ ProductOf(w) \in Products
  BY AtWork DEF InsertProduct, DecisionInv
<1>2. stock[ProductOf(w)] \in Row
  BY <1>1 DEF IInv, TablesInv
<1>3. /\ g \in Handler /\ g.event = tx[w].event /\ g.line = tx[w].line
      /\ g.result = tx[w].result
  BY <1>1, <1>2, WithRowFits
<1> HIDE DEF g
<1>4. Decision(NextLine(g, "find", "check"), stock, reservations)
  BY <1>1, <1>3, ChecksBegin
<1>5. d.step = "done"
  BY <1>1 DEF Handler
<1> HIDE DEF d
<1>6. Decision(d, stock, reservations)
  BY <1>5, Undecided
<1>7. Continue(w, NextLine(g, "find", "check")) \/ Continue(w, d)
  BY DEF InsertProduct, SkipDuplicate, g, d
<1> QED
  BY <1>4, <1>6, <1>7, ContinueKeepsDecisionInv

\* What a check finds out of its line is so of the stock.
LEMMA CheckLineKeepsDecisionInv ==
    ASSUME IInv, LedgerInv, DecisionInv, NEW w \in Instances, CheckLine(w)
    PROVE  DecisionInv'
<1> DEFINE o == tx[w].event.orderId
           line == tx[w].line
           g == IF Visible(w, ProductOf(w)).available < LineOf(w).quantity
                THEN [tx[w] EXCEPT !.result = "inventory.rejected"] ELSE tx[w]
           next == IF g.result = "nothing" THEN "update" ELSE "commit"
           h == NextLine(g, "check", next)
<1>1. /\ Busy(w) /\ tx[w].step = "check" /\ tx[w] \in Handler /\ Creates(tx[w])
      /\ o \in Orders /\ line \in DOMAIN Lines[o]
      /\ Decision(tx[w], stock, reservations)
      /\ HandlerMoves(tx[w], stock)
      /\ stock \in [Products -> Row] /\ ProductOf(w) \in Products
  BY AtWork DEF CheckLine, HandlerFits, OrderOf, DecisionInv, LedgerInv, MovesInv,
     IInv, TablesInv
<1>2. Continue(w, h)
  BY DEF CheckLine
<1>3. tx[w].result \in {"nothing", "inventory.rejected"}
  BY <1>1 DEF HandlerMoves
<1>4. Visible(w, ProductOf(w)) = stock[ProductOf(w)]
  <2>1. LinesDone(tx[w]) = {}
    BY <1>1 DEF LinesDone
  <2> QED
    BY <1>1, <2>1, NothingMoved DEF HandlerMoves, Visible, Seen
<1>5. /\ g \in Handler /\ g.event = tx[w].event /\ g.line = line
      /\ Short(o, line, stock) => g.result = "inventory.rejected"
      /\ ~Short(o, line, stock) => g.result = tx[w].result
  BY <1>1, <1>4 DEF Handler, Results, Short, ProductOf, LineOf, OrderOf
<1>6. next \in {"update", "commit"} /\ next \in Steps /\ "check" \in Steps
      /\ (next = "update" <=> g.result = "nothing")
  BY DEF Steps
<1> HIDE DEF g, next
<1>7. /\ h.event = tx[w].event /\ h.result = g.result
      /\ \/ h.step = "check" /\ h.line = line + 1
         \/ h.step = next /\ h.line = 1 /\ line = Len(Lines[o])
  BY <1>1, <1>5, <1>6, NextLineFits, NextLineMoves
<1> HIDE DEF h
<1>8. DOMAIN Lines[o] = 1..Len(Lines[o]) /\ Len(Lines[o]) \in Nat
  BY <1>1, LinesOfOrders
<1>9. CASE g.result = "inventory.rejected"
  <2>1. \E i \in DOMAIN Lines[o] : Short(o, i, stock)
    BY <1>1, <1>5, <1>9 DEF Decision
  <2>2. h.step \in {"check", "commit"}
    BY <1>6, <1>7, <1>9
  <2> QED
    BY <1>2, <1>7, <1>9, <2>1, <2>2, ContinueKeepsDecisionInv DEF Decision, Reserves, Releases
<1>10. CASE g.result # "inventory.rejected"
  <2>1. ~Short(o, line, stock) /\ tx[w].result = "nothing" /\ g.result = "nothing"
    BY <1>3, <1>5, <1>10
  <2>2. \A i \in 1..(line - 1) : ~Short(o, i, stock)
    BY <1>1, <2>1 DEF Decision
  <2>3. \A i \in 1..line : ~Short(o, i, stock)
    <3>1. \A i \in 1..line : i \in 1..(line - 1) \/ i = line
      BY <1>1, <1>8
    <3> QED
      BY <2>1, <2>2, <3>1
  <2>4. \/ h.step = "check" /\ h.line - 1 = line
        \/ h.step = "update" /\ DOMAIN Lines[o] = 1..line
    BY <1>1, <1>6, <1>7, <1>8, <2>1
  <2>5. Decision(h, stock, reservations)
    BY <1>1, <1>7, <2>1, <2>3, <2>4 DEF Decision, Reserves, Releases, Creates
  <2> QED
    BY <1>2, <2>5, ContinueKeepsDecisionInv
<1> QED
  BY <1>9, <1>10

LEMMA FindReservationKeepsDecisionInv ==
    ASSUME IInv, LedgerInv, DecisionInv, NEW w \in Instances, FindReservation(w)
    PROVE  DecisionInv'
<1> DEFINE next == IF reservations[OrderOf(w)] = "RESERVED" THEN "update" ELSE "commit"
           h == [tx[w] EXCEPT !.step = next]
<1>1. /\ Busy(w) /\ tx[w].step = "lookup" /\ tx[w] \in Handler /\ ~Creates(tx[w])
      /\ Decision(tx[w], stock, reservations)
  BY AtWork DEF FindReservation, HandlerFits, DecisionInv
<1>2. Continue(w, h)
  BY DEF FindReservation
<1>3. \/ next = "update" /\ reservations[tx[w].event.orderId] = "RESERVED"
      \/ next = "commit" /\ reservations[tx[w].event.orderId] # "RESERVED"
  BY DEF OrderOf
<1>4. h.step = next /\ h.event = tx[w].event /\ h.result = tx[w].result
  BY <1>1 DEF Handler
<1>5. tx[w].result = "nothing"
  <2>1. HandlerMoves(tx[w], stock)
    BY <1>1 DEF LedgerInv, MovesInv
  <2> QED
    BY <1>1, <2>1 DEF Decision, HandlerMoves
<1> HIDE DEF h, next
<1>6. Decision(h, stock, reservations)
  BY <1>1, <1>3, <1>4, <1>5 DEF Decision, Reserves, Releases, Creates
<1> QED
  BY <1>2, <1>6, ContinueKeepsDecisionInv

LEMMA UpdateProductKeepsDecisionInv ==
    ASSUME IInv, LedgerInv, DecisionInv, NEW w \in Instances, UpdateProduct(w)
    PROVE  DecisionInv'
<1> DEFINE g == WithRow(w, Moved(w))
           f == [g EXCEPT !.result = DoneWith(g.event)]
           h == NextLine(f, "update", "commit")
<1>1. /\ Busy(w) /\ tx[w].step = "update" /\ tx[w] \in Handler
      /\ tx[w].line \in DOMAIN Lines[tx[w].event.orderId]
      /\ Decision(tx[w], stock, reservations)
      /\ OrderOf(w) \in Orders /\ ProductOf(w) \in Products
  BY AtWork DEF UpdateProduct, HandlerFits, DecisionInv
<1>2. Continue(w, h)
  BY DEF UpdateProduct
<1>3. Moved(w) \in Row
  <2>1. Visible(w, ProductOf(w)) \in Row
    BY <1>1, VisibleIsRow
  <2>2. LineOf(w).quantity \in Nat
    BY <1>1, LinesOfOrders DEF LineOf, OrderOf
  <2> QED
    BY <2>1, <2>2 DEF Moved, Row
<1>4. g \in Handler /\ g.event = tx[w].event /\ g.line = tx[w].line
  BY <1>1, <1>3, WithRowFits
<1> HIDE DEF g
<1>5. /\ f \in Handler /\ f.event = tx[w].event /\ f.line = tx[w].line
      /\ f.result \in {"inventory.reserved", "released"}
  BY <1>4 DEF DoneWith, Results, Handler
<1> HIDE DEF f
<1>6. /\ h.event = tx[w].event /\ h.result \in {"inventory.reserved", "released"}
      /\ h.step \in {"update", "commit"}
  <2>1. "update" \in Steps /\ "commit" \in Steps
    BY DEF Steps
  <2> QED
    BY <1>1, <1>5, <2>1, NextLineFits
<1> HIDE DEF h
<1>7. Decision(h, stock, reservations)
  BY <1>1, <1>6 DEF Decision, Reserves, Releases, Creates
<1> QED
  BY <1>2, <1>7, ContinueKeepsDecisionInv

LEMMA NextKeepsDecisionInv ==
    IInv /\ LedgerInv /\ Alone /\ DecisionInv /\ [Next]_vars => DecisionInv'
<1> SUFFICES ASSUME IInv, LedgerInv, Alone, DecisionInv, [Next]_vars
             PROVE  DecisionInv'
  OBVIOUS
<1>1. ASSUME NEW w \in Instances, NEW e \in Events, Deliver(w, e) PROVE DecisionInv'
  <2> DEFINE h == [step |-> "mark", event |-> e, line |-> 1, result |-> "nothing",
                   rows |-> <<>>]
  <2>1. Continue(w, h) /\ h.step = "mark" /\ h.result = "nothing"
    BY <1>1 DEF Deliver
  <2> HIDE DEF h
  <2> QED
    BY <2>1, Undecided, ContinueKeepsDecisionInv
<1>2. ASSUME NEW w \in Instances, Commit(w) PROVE DecisionInv'
  <2>1. Busy(w) /\ tx[w] \in Handler /\ DOMAIN tx = Instances
    BY <1>2, AtWork DEF Commit, IInv, TablesInv
  <2>2. tx'[w].step = "done" /\ \A v \in Instances \ {w} : tx'[v] = tx[v]
    BY <1>2, <2>1 DEF Commit, Handler
  <2>3. \A v \in Instances \ {w} : ~Busy(v)
    BY <2>1, OneAtWork
  <2> QED
    BY <2>2, <2>3, Undecided DEF DecisionInv, Busy
<1>3. ASSUME NEW w \in Instances, Acknowledge(w) \/ Fail(w) PROVE DecisionInv'
  BY <1>3 DEF Acknowledge, Fail, tables, DecisionInv, Busy, IInv, TablesInv
<1>4. ASSUME NEW w \in Instances, AbortDeadlocked(w) PROVE DecisionInv'
  BY <1>4, ContinueKeepsDecisionInv DEF AbortDeadlocked
<1>5. CASE UNCHANGED vars
  BY <1>5 DEF vars, DecisionInv, Busy
<1> QED
  BY <1>1, <1>2, <1>3, <1>4, <1>5, MarkProcessedKeepsDecisionInv,
     FindProductKeepsDecisionInv, InsertProductKeepsDecisionInv,
     CheckLineKeepsDecisionInv, FindReservationKeepsDecisionInv,
     UpdateProductKeepsDecisionInv DEF Next, Proceed

LEMMA InitDecisionInv == Init => DecisionInv
BY DEF Init, DecisionInv, Busy

LEMMA NextKeepsLedgerInv ==
    IInv /\ LedgerInv /\ (Alone => DecisionInv) /\ [Next]_vars => LedgerInv'
<1> SUFFICES ASSUME IInv, LedgerInv, Alone => DecisionInv, [Next]_vars
             PROVE  LedgerInv'
  OBVIOUS
<1>1. ASSUME NEW w \in Instances, Proceed(w) PROVE LedgerInv'
  <2>1. CASE Acknowledge(w)
    BY <2>1, IdleKeepsLedgerInv DEF Acknowledge
  <2>2. CASE Commit(w)
    <3>1. Alone /\ tx[w].result = "released" => reservations[OrderOf(w)] = "RESERVED"
      BY <2>2, AtWork DEF Commit, DecisionInv, Decision, Releases, HandlerFits, OrderOf
    <3> QED
      BY <2>2, <3>1, CommitKeepsMovesInv, CommitKeepsStockInv DEF LedgerInv
  <2> QED
    BY <1>1, <2>1, <2>2, MarkProcessedKeepsLedgerInv, FindProductKeepsLedgerInv,
       InsertProductKeepsLedgerInv, CheckLineKeepsLedgerInv,
       FindReservationKeepsLedgerInv, UpdateProductKeepsLedgerInv DEF Proceed
<1>2. ASSUME NEW w \in Instances, Fail(w) \/ AbortDeadlocked(w) PROVE LedgerInv'
  BY <1>2, IdleKeepsLedgerInv DEF Fail, AbortDeadlocked, Continue
<1>3. CASE UNCHANGED vars
  <2>1. MovesInv' /\ LockInv'
    BY <1>3 DEF vars, LedgerInv, MovesInv, LockInv, Busy
  <2> QED
    BY <1>3, <2>1, StockInvStays DEF vars, LedgerInv
<1> QED
  BY <1>1, <1>2, <1>3, DeliverKeepsLedgerInv DEF Next

\* The books hold for any number of instances, what the checks said for one.
LEMMA LedgerInductive ==
    Spec => [](IInv /\ LedgerInv /\ (Alone => DecisionInv))
<1> DEFINE Inv == IInv /\ LedgerInv /\ (Alone => DecisionInv)
<1>1. Init => Inv
  BY InitIInv, InitLedgerInv, InitDecisionInv
<1>2. Inv /\ [Next]_vars => Inv'
  BY NextKeepsIInv, NextKeepsLedgerInv, NextKeepsDecisionInv, DeployedStays
<1> QED
  BY <1>1, <1>2, PTL DEF Spec

\* Whatever any number of instances do at once, what is set aside of a product is
\* what the active reservations hold, and with what is available it is the stock
\* there was: no increment of reserve() or release() is lost.  What is given back
\* twice is the stock of orders both of whose cancellations were handled, and
\* nothing is with a single instance.
THEOREM StockAddsUp == Spec => []OnlyRepeatedCancelsDistortStock
<1>1. LedgerInv => OnlyRepeatedCancelsDistortStock
  <2> SUFFICES ASSUME LedgerInv PROVE OnlyRepeatedCancelsDistortStock
    OBVIOUS
  <2>1. PICK twice : Accounted(twice)
    BY DEF LedgerInv, StockInv
  <2> QED
    BY <2>1 DEF Accounted, OnlyRepeatedCancelsDistortStock, Held
<1> QED
  BY <1>1, LedgerInductive, PTL

-----------------------------------------------------------------------------
\* The largest of an order's lines for a product, 0 if there is none.
LEMMA LargestLine ==
    ASSUME NEW o \in Orders, NEW p \in Products
    PROVE  /\ LargestLineOf(o, p) \in Nat
           /\ \A i \in LinesFor(o, p) :
                 Lines[o][i].quantity > 0 /\ Lines[o][i].quantity <= LargestLineOf(o, p)
           /\ LargestLineOf(o, p) > 0 =>
                 \E i \in LinesFor(o, p) : Lines[o][i].quantity = LargestLineOf(o, p)
<1> DEFINE S == {Lines[o][i].quantity : i \in LinesFor(o, p)}
           m == LargestLineOf(o, p)
<1>1. \A i \in LinesFor(o, p) : Lines[o][i].quantity \in Nat \ {0}
  <2>1. Lines[o] \in Seq(Line)
    BY RaceAssumption
  <2>2. \A i \in DOMAIN Lines[o] : Lines[o][i] \in Line
    BY <2>1
  <2> QED
    BY <2>2 DEF Line, LinesFor
<1>2. IsFiniteSet({0} \cup S)
  <2>1. IsFiniteSet(LinesFor(o, p) \cap DOMAIN Lines[o])
    BY QuantitiesAddUp
  <2>2. IsFiniteSet(LinesFor(o, p))
    <3>1. LinesFor(o, p) = LinesFor(o, p) \cap DOMAIN Lines[o]
      BY DEF LinesFor
    <3> QED
      BY <2>1, <3>1
  <2>3. IsFiniteSet(S)
    <3> DEFINE f == [i \in LinesFor(o, p) |-> Lines[o][i].quantity]
    <3>1. f \in Surjection(LinesFor(o, p), S)
      BY DEF Surjection
    <3> HIDE DEF f, S
    <3> QED
      BY <2>2, <3>1, FS_Surjection
  <2> QED
    BY <2>3, FS_AddElement
<1>3. {0} \cup S \subseteq Nat
  BY <1>1
<1>4. m \in {0} \cup S /\ \A x \in {0} \cup S : m >= x
  <2>1. \E n \in {0} \cup S : \A x \in {0} \cup S : n >= x
    <3>1. {0} \cup S \subseteq Int /\ {0} \cup S # {}
      BY <1>3
    <3> HIDE DEF S
    <3> QED
      BY <1>2, <3>1, LargestIn
  <2>2. m = CHOOSE n \in {0} \cup S : \A x \in {0} \cup S : n >= x
    BY DEF LargestLineOf, Max, LinesFor
  <2> HIDE DEF S, m
  <2> QED
    BY <2>1, <2>2
<1> HIDE DEF m
<1> QED
  BY <1>1, <1>3, <1>4 DEF m

\* InventoryService sums up the lines of an order by two numbers for each product.
\* Sequences of lines give numbers as its LinesAssumption has them, on which the
\* proofs about the saga rest.
THEOREM LinesAsAssumed ==
    \A o \in Orders, p \in Products :
        /\ QuantityOf(o, p) \in Nat /\ LargestLineOf(o, p) \in Nat
        /\ LargestLineOf(o, p) <= QuantityOf(o, p)
        /\ LargestLineOf(o, p) = 0 => QuantityOf(o, p) = 0
<1> SUFFICES ASSUME NEW o \in Orders, NEW p \in Products
             PROVE  /\ QuantityOf(o, p) \in Nat /\ LargestLineOf(o, p) \in Nat
                    /\ LargestLineOf(o, p) <= QuantityOf(o, p)
                    /\ LargestLineOf(o, p) = 0 => QuantityOf(o, p) = 0
              OBVIOUS
<1> PICK m, q : m = LargestLineOf(o, p) /\ q = QuantityOf(o, p)
  OBVIOUS
<1>1. m \in Nat /\ q \in Nat
  BY LargestLine, QuantitiesAddUp
<1>2. ASSUME NEW i \in LinesFor(o, p)
      PROVE  /\ Lines[o][i].quantity \in Nat /\ Lines[o][i].quantity > 0
             /\ Lines[o][i].quantity <= m /\ Lines[o][i].quantity <= q
  <2> DEFINE rest == SumFunctionOnSet(Quantities(o), LinesFor(o, p) \ {i})
             n == Lines[o][i].quantity
  <2>1. i \in DOMAIN Lines[o] /\ LinesFor(o, p) \subseteq DOMAIN Lines[o]
    BY DEF LinesFor
  <2>2. /\ \A j \in LinesFor(o, p) : Quantities(o)[j] \in Nat
        /\ Quantities(o)[i] = n /\ n \in Nat
    BY <2>1, QuantitiesAddUp
  <2>3. IsFiniteSet(LinesFor(o, p))
    <3>1. LinesFor(o, p) \cap DOMAIN Lines[o] = LinesFor(o, p)
      BY <2>1
    <3>2. IsFiniteSet(LinesFor(o, p) \cap DOMAIN Lines[o])
      BY QuantitiesAddUp
    <3> QED
      BY <3>1, <3>2
  <2>4. q = n + rest
    <3>1. \A j \in LinesFor(o, p) : Quantities(o)[j] \in Int
      BY <2>2
    <3>2. SumFunctionOnSet(Quantities(o), LinesFor(o, p)) = Quantities(o)[i] + rest
      BY <2>3, <3>1, SumTakesOut
    <3>3. q = SumFunctionOnSet(Quantities(o), LinesFor(o, p))
      BY QuantitiesAddUp
    <3> QED
      BY <2>2, <3>2, <3>3
  <2>5. rest \in Nat
    <3>1. LinesFor(o, p) \ {i} = LinesFor(o, p) \cap (LinesFor(o, p) \ {i})
      OBVIOUS
    <3>2. SumFunctionOnSet(Quantities(o), LinesFor(o, p) \cap (LinesFor(o, p) \ {i})) \in Nat
      BY QuantitiesAddUp
    <3> QED
      BY <3>1, <3>2
  <2> HIDE DEF rest, n
  <2>6. n > 0 /\ n <= m
    BY LargestLine DEF n
  <2>7. n <= q
    BY <2>2, <2>4, <2>5
  <2> QED
    BY <2>2, <2>6, <2>7 DEF n
<1>3. m <= q
  <2>1. CASE m > 0
    <3>1. PICK i \in LinesFor(o, p) : Lines[o][i].quantity = m
      BY <2>1, LargestLine
    <3> QED
      BY <1>2, <3>1
  <2>2. CASE ~(m > 0)
    BY <1>1, <2>2
  <2> QED
    BY <2>1, <2>2
<1>4. ASSUME m = 0 PROVE q = 0
  <2>1. LinesFor(o, p) = {}
    <3> SUFFICES ASSUME NEW i \in LinesFor(o, p) PROVE FALSE
      OBVIOUS
    <3> QED
      BY <1>2, <1>4
  <2>2. q = SumFunctionOnSet(Quantities(o), LinesFor(o, p))
    BY QuantitiesAddUp
  <2> QED
    BY <2>1, <2>2, SumOfNone
<1> QED
  BY <1>1, <1>3, <1>4

\* One instance adds an order to those that hold stock only when none of its lines
\* is short.
LEMMA NextKeepsOversold ==
    IInv /\ LedgerInv /\ DecisionInv /\ Atomic!OversoldByOneOrder /\ [Next]_vars
        => Atomic!OversoldByOneOrder'
<1> DEFINE Covers(o, a, p) ==
               a + QuantityOf(o, p) >= LargestLineOf(o, p)
<1> SUFFICES ASSUME IInv, LedgerInv, DecisionInv, [Next]_vars,
                    Atomic!OversoldByOneOrder,
                    NEW p \in Products, stock'[p].available < 0
             PROVE  \E o \in Orders : /\ reservations'[o] = "RESERVED"
                                      /\ Covers(o, stock'[p].available, p)
  BY DEF Atomic!OversoldByOneOrder
<1>1. stock[p].available < 0 =>
         \E o \in Orders : /\ reservations[o] = "RESERVED"
                           /\ Covers(o, stock[p].available, p)
  BY DEF Atomic!OversoldByOneOrder
<1>2. CASE UNCHANGED <<stock, reservations>>
  BY <1>1, <1>2
<1>3. ASSUME NEW w \in Instances, Commit(w)
      PROVE  \E o \in Orders : /\ reservations'[o] = "RESERVED"
                               /\ Covers(o, stock'[p].available, p)
  <2> PICK h, o, a, d : /\ h = tx[w] /\ o = OrderOf(w)
                        /\ a = stock[p].available /\ d = Delta(tx[w], p)
    OBVIOUS
  <2>1. /\ h.step = "commit" /\ HandlerFits(h) /\ o \in Orders /\ o = h.event.orderId
        /\ Decision(h, stock, reservations)
        /\ reservations \in [Orders -> {"NONE", "RESERVED", "RELEASED"}]
    BY <1>3, AtWork DEF Commit, OrderOf, DecisionInv, IInv, TablesInv
  <2>2. /\ a \in Int /\ d \in Int /\ stock'[p].available = a - d
        /\ h.result = "inventory.reserved" => Creates(h) /\ d = QuantityOf(o, p)
        /\ h.result = "released" => d = -QuantityOf(o, p)
        /\ h.result \notin {"inventory.reserved", "released"} => d = 0
    <3>1. stock'[p] = Shifted(stock[p], d)
      BY <1>3, CommitMoves
    <3>2. stock'[p].available = a - d
      BY <3>1 DEF Shifted
    <3> QED
      BY <1>3, <3>2, CommitMoves
  <2>3. \A q \in Orders : /\ QuantityOf(q, p) \in Nat /\ LargestLineOf(q, p) \in Nat
                          /\ LargestLineOf(q, p) <= QuantityOf(q, p)
                          /\ LargestLineOf(q, p) = 0 => QuantityOf(q, p) = 0
    BY LinesAsAssumed
  <2>4. CASE h.result = "inventory.reserved"
    <3>1. /\ reservations' = [reservations EXCEPT ![o] = "RESERVED"]
          /\ \A i \in DOMAIN Lines[o] : ~Short(o, i, stock)
      BY <1>3, <2>1, <2>2, <2>4 DEF Commit, Decision, Reserves
    <3>2. CASE LargestLineOf(o, p) > 0
      <4>1. PICK i \in LinesFor(o, p) : Lines[o][i].quantity = LargestLineOf(o, p)
        BY <2>1, <3>2, LargestLine
      <4>2. ~(a < LargestLineOf(o, p))
        BY <3>1, <4>1 DEF Short, LinesFor
      <4>3. Covers(o, stock'[p].available, p)
        BY <2>1, <2>2, <2>3, <2>4, <4>2
      <4> QED
        BY <2>1, <3>1, <4>3
    <3>3. CASE ~(LargestLineOf(o, p) > 0)
      <4>1. stock'[p].available = a
        BY <2>1, <2>2, <2>3, <2>4, <3>3
      <4>2. PICK q \in Orders : reservations[q] = "RESERVED" /\ Covers(q, a, p)
        BY <1>1, <4>1
      <4>3. reservations'[q] = "RESERVED"
        BY <2>1, <3>1, <4>2
      <4> QED
        BY <4>1, <4>2, <4>3
    <3> QED
      BY <3>2, <3>3
  <2>5. CASE h.result = "released"
    <3>1. /\ reservations' = [reservations EXCEPT ![o] = "RELEASED"]
          /\ stock'[p].available = a + QuantityOf(o, p)
      BY <1>3, <2>1, <2>2, <2>3, <2>5 DEF Commit
    <3>2. a < 0
      BY <2>1, <2>2, <2>3, <3>1
    <3>3. PICK q \in Orders : reservations[q] = "RESERVED" /\ Covers(q, a, p)
      BY <1>1, <3>2
    <3>4. q # o
      BY <2>1, <2>2, <2>3, <3>1, <3>3
    <3>5. reservations'[q] = "RESERVED"
      BY <2>1, <3>1, <3>3, <3>4
    <3>6. Covers(q, stock'[p].available, p)
      BY <2>1, <2>2, <2>3, <3>1, <3>3
    <3> QED
      BY <3>5, <3>6
  <2>6. CASE h.result \notin {"inventory.reserved", "released"}
    <3>1. stock'[p].available = a /\ UNCHANGED reservations
      BY <1>3, <2>2, <2>6 DEF Commit
    <3> QED
      BY <1>1, <3>1
  <2> QED
    BY <2>4, <2>5, <2>6
<1> QED
  BY <1>2, <1>3
  DEF Next, vars, tables, Deliver, Proceed, MarkProcessed, FindProduct,
      InsertProduct, CheckLine, FindReservation, UpdateProduct, Acknowledge, Fail,
      AbortDeadlocked, SkipDuplicate, Continue

\* README.md: overselling the last item because two orders raced each other must
\* never happen.  With one instance it does not: a product that is oversold is so
\* to one order alone, which lists it on several lines, and by no more than what
\* these take beside the largest of them.
THEOREM AloneNeverOversells == Spec => [](Alone => Atomic!OversoldByOneOrder)
<1> DEFINE Inv == Alone => Atomic!OversoldByOneOrder
<1>1. Init => Inv
  BY RaceAssumption DEF Init, Atomic!OversoldByOneOrder
<1>2. /\ IInv /\ LedgerInv /\ (Alone => DecisionInv)
      /\ Inv /\ [Next]_vars
      => Inv'
  BY NextKeepsOversold, DeployedStays
<1> QED
  BY <1>1, <1>2, LedgerInductive, PTL DEF Spec

\* The tables as they map to those of InventoryService.
AtomicOutbox ==
    [t \in {"inventory.reserved", "inventory.rejected"} |->
        [o \in Orders |-> IF <<t, o>> \in outbox THEN 1 ELSE 0]]
AtomicAvailable == [p \in Products |-> stock[p].available]
AtomicReserved == [p \in Products |-> stock[p].reserved]

\* The availability check of InventoryService fails if some line is short.
LEMMA ShortfallIsShort ==
    ASSUME stock \in [Products -> Row], NEW o \in Orders
    PROVE  Atomic!Shortfalls(o) # {} <=> \E i \in DOMAIN Lines[o] : Short(o, i, stock)
<1>1. \A p \in Products :
         p \in Atomic!Shortfalls(o) <=>
            LargestLineOf(o, p) > 0 /\ stock[p].available < LargestLineOf(o, p)
  BY DEF Atomic!Shortfalls
<1>2. Atomic!Shortfalls(o) \subseteq Products
  BY DEF Atomic!Shortfalls
<1>3. ASSUME NEW p \in Atomic!Shortfalls(o)
      PROVE  \E i \in DOMAIN Lines[o] : Short(o, i, stock)
  <2>1. /\ p \in Products /\ LargestLineOf(o, p) > 0
        /\ stock[p].available < LargestLineOf(o, p)
    BY <1>1, <1>2
  <2>2. PICK i \in LinesFor(o, p) : Lines[o][i].quantity = LargestLineOf(o, p)
    BY <2>1, LargestLine
  <2>3. i \in DOMAIN Lines[o] /\ Lines[o][i].product = p
    BY DEF LinesFor
  <2> QED
    BY <2>1, <2>2, <2>3 DEF Short
<1>4. ASSUME NEW i \in DOMAIN Lines[o], Short(o, i, stock)
      PROVE  Lines[o][i].product \in Atomic!Shortfalls(o)
  <2> DEFINE p == Lines[o][i].product
             q == Lines[o][i].quantity
             m == LargestLineOf(o, p)
  <2>1. p \in Products /\ i \in LinesFor(o, p)
    BY LinesOfOrders DEF LinesFor
  <2>2. q \in Nat /\ m \in Nat /\ q > 0 /\ q <= m
    BY <2>1, LargestLine, LinesOfOrders
  <2>3. stock[p].available < q /\ stock[p].available \in Int
    BY <1>4, <2>1 DEF Short, Row
  <2> HIDE DEF q, m
  <2>4. m > 0 /\ stock[p].available < m
    BY <2>2, <2>3
  <2> QED
    BY <1>1, <2>1, <2>4 DEF m
<1> QED
  BY <1>3, <1>4

\* One answer more of the inventory service.
LEMMA AtomicEnqueue ==
    ASSUME NEW t \in {"inventory.reserved", "inventory.rejected"}, NEW o \in Orders,
           <<t, o>> \notin outbox, outbox' = outbox \cup {<<t, o>>}
    PROVE  Atomic!Enqueue(t, o)
<1> DEFINE new == [AtomicOutbox EXCEPT ![t][o] = @ + 1]
<1>1. \A s \in {"inventory.reserved", "inventory.rejected"} :
         new[s] = IF s = t THEN [AtomicOutbox[t] EXCEPT ![o] = @ + 1] ELSE AtomicOutbox[s]
  BY DEF AtomicOutbox
<1>2. \A s \in {"inventory.reserved", "inventory.rejected"} : AtomicOutbox'[s] = new[s]
  <2> SUFFICES ASSUME NEW s \in {"inventory.reserved", "inventory.rejected"}
               PROVE  AtomicOutbox'[s] = new[s]
    OBVIOUS
  <2>1. AtomicOutbox'[s] = [x \in Orders |-> IF <<s, x>> \in outbox' THEN 1 ELSE 0]
    BY DEF AtomicOutbox
  <2>2. \A x \in Orders : <<s, x>> \in outbox' <=>
                             <<s, x>> \in outbox \/ (s = t /\ x = o)
    OBVIOUS
  <2>3. AtomicOutbox[s] = [x \in Orders |-> IF <<s, x>> \in outbox THEN 1 ELSE 0]
    BY DEF AtomicOutbox
  <2>4. CASE s = t
    <3>1. AtomicOutbox[t][o] = 0 /\ new[s] = [AtomicOutbox[t] EXCEPT ![o] = @ + 1]
      BY <1>1, <2>3, <2>4
    <3>2. new[s] = [x \in Orders |-> IF x = o THEN 1 ELSE AtomicOutbox[t][x]]
      BY <2>3, <2>4, <3>1
    <3> HIDE DEF new
    <3>3. \A x \in Orders : AtomicOutbox'[s][x] = IF x = o THEN 1 ELSE AtomicOutbox[t][x]
      BY <2>1, <2>2, <2>3, <2>4
    <3> QED
      BY <2>1, <3>2, <3>3
  <2>5. CASE s # t
    BY <1>1, <2>1, <2>2, <2>3, <2>5
  <2> QED
    BY <2>4, <2>5
<1>3. AtomicOutbox' = new
  BY <1>2 DEF AtomicOutbox
<1> QED
  BY <1>3 DEF Atomic!Enqueue, AtomicOutbox

\* The handlers of InventoryService, on the tables as they map to it.
LEMMA AtomicHandlers ==
    ASSUME NEW e, e \notin processed, processed' = processed \cup {e}
    PROVE  /\ e.topic = "orders.created"
                 /\ (Atomic!Reject(e.orderId) \/ Atomic!Reserve(e.orderId))
                 => Atomic!InventoryOnOrderCreated(e)
           /\ e.topic = "orders.cancelled" /\ UNCHANGED outbox
                 /\ Atomic!Release(e.orderId)
                 => Atomic!InventoryOnOrderCancelled(e)
<1>1. Atomic!ProcessOnce(Atomic!InventoryConsumer, e)
  BY DEF Atomic!ProcessOnce, Atomic!InventoryConsumer
<1> QED
  BY <1>1 DEF Atomic!InventoryOnOrderCreated, Atomic!InventoryOnOrderCancelled

\* A refusal, and the commit of a handler that found nothing to release, move no
\* stock.
LEMMA CommitMovesNothing ==
    ASSUME IInv, LedgerInv, NEW w \in Instances, Commit(w),
           tx[w].result \in {"inventory.rejected", "nothing"}
    PROVE  UNCHANGED <<AtomicAvailable, AtomicReserved, reservations>>
<1>1. ASSUME NEW p \in Products
      PROVE  /\ stock'[p].available = stock[p].available
             /\ stock'[p].reserved = stock[p].reserved
  <2>1. /\ stock'[p] = Shifted(stock[p], Delta(tx[w], p)) /\ Delta(tx[w], p) = 0
        /\ stock[p].available \in Int /\ stock[p].reserved \in Int
    BY CommitMoves
  <2>2. stock'[p] = Shifted(stock[p], 0)
    BY <2>1
  <2> QED
    BY <2>1, <2>2 DEF Shifted
<1>2. UNCHANGED reservations
  BY DEF Commit
<1> QED
  BY <1>1, <1>2 DEF AtomicAvailable, AtomicReserved

\* A reservation, or a release, moves all the lines of the order.
LEMMA CommitMovesAll ==
    ASSUME IInv, LedgerInv, NEW w \in Instances, Commit(w),
           NEW o, o = OrderOf(w)
    PROVE  /\ tx[w].result = "inventory.reserved" =>
                 /\ AtomicAvailable' =
                       [p \in Products |-> stock[p].available - QuantityOf(o, p)]
                 /\ AtomicReserved' =
                       [p \in Products |-> stock[p].reserved + QuantityOf(o, p)]
           /\ tx[w].result = "released" =>
                 /\ AtomicAvailable' =
                       [p \in Products |-> stock[p].available + QuantityOf(o, p)]
                 /\ AtomicReserved' =
                       [p \in Products |-> stock[p].reserved - QuantityOf(o, p)]
<1>1. ASSUME NEW p \in Products
      PROVE  /\ tx[w].result = "inventory.reserved" =>
                   /\ stock'[p].available = stock[p].available - QuantityOf(o, p)
                   /\ stock'[p].reserved = stock[p].reserved + QuantityOf(o, p)
             /\ tx[w].result = "released" =>
                   /\ stock'[p].available = stock[p].available + QuantityOf(o, p)
                   /\ stock'[p].reserved = stock[p].reserved - QuantityOf(o, p)
  <2> PICK n, d : n = QuantityOf(o, p) /\ d = Delta(tx[w], p)
    OBVIOUS
  <2>1. /\ stock[p].available \in Int /\ stock[p].reserved \in Int /\ n \in Nat /\ d \in Int
        /\ stock'[p] = Shifted(stock[p], d)
        /\ tx[w].result = "inventory.reserved" => d = n
        /\ tx[w].result = "released" => d = -n
    BY CommitMoves
  <2>2. /\ stock'[p].available = stock[p].available - d
        /\ stock'[p].reserved = stock[p].reserved + d
    BY <2>1 DEF Shifted
  <2> QED
    BY <2>1, <2>2
<1> QED
  BY <1>1 DEF AtomicAvailable, AtomicReserved

\* So a commit is the step of one handler of InventoryService.
LEMMA CommitIsAtomic ==
    ASSUME IInv, LedgerInv, DecisionInv, NEW w \in Instances, Commit(w)
    PROVE  \E e \in Events : \/ Atomic!InventoryOnOrderCreated(e)
                             \/ Atomic!InventoryOnOrderCancelled(e)
<1> PICK e, o : e = tx[w].event /\ o = OrderOf(w)
  OBVIOUS
<1> DEFINE result == tx[w].result
<1>1. /\ Busy(w) /\ tx[w].step = "commit" /\ HandlerFits(tx[w]) /\ tx[w] \in Handler
      /\ HandlerMoves(tx[w], stock)
      /\ Decision(tx[w], stock, reservations)
      /\ e \in Events /\ o \in Orders /\ o = e.orderId
      /\ stock \in [Products -> Row]
      /\ reservations \in [Orders -> {"NONE", "RESERVED", "RELEASED"}]
  BY AtWork DEF Commit, OrderOf, Handler, LedgerInv, MovesInv, DecisionInv, IInv, TablesInv
<1>2. e \notin processed /\ processed' = processed \cup {e}
  BY <1>1 DEF Commit, HandlerFits, PastMarker
<1>3. e.topic = "orders.created" \/ e.topic = "orders.cancelled"
  BY <1>1 DEF Events, EventOf
<1>4. ASSUME e.topic = "orders.created"
      PROVE  \A t \in {"inventory.reserved", "inventory.rejected"} : <<t, o>> \notin outbox
  <2>1. e = Created(o)
    BY <1>1, <1>4, EventsOfOrders
  <2> QED
    BY <1>1, <1>2, <2>1 DEF IInv, AnswerInv
<1>5. ASSUME NEW t \in {"inventory.reserved", "inventory.rejected"}, result = t
      PROVE  outbox' = outbox \cup {<<t, o>>}
  BY <1>1, <1>5 DEF Commit
<1>6. CASE result = "inventory.reserved"
  <2>1. e.topic = "orders.created" /\ Reserves(tx[w])
    BY <1>1, <1>6 DEF HandlerFits, Reserves, Creates
  <2>2. Atomic!Shortfalls(o) = {}
    BY <1>1, <2>1, ShortfallIsShort DEF Decision
  <2>3. Atomic!Enqueue("inventory.reserved", o)
    BY <1>1, <1>4, <1>5, <1>6, <2>1, AtomicEnqueue
  <2>4. /\ reservations[o] = "NONE"
        /\ reservations' = [reservations EXCEPT ![o] = "RESERVED"]
    BY <1>6 DEF Commit
  <2>5. /\ AtomicAvailable' = [p \in Products |-> stock[p].available - QuantityOf(o, p)]
        /\ AtomicReserved' = [p \in Products |-> stock[p].reserved + QuantityOf(o, p)]
    BY <1>6, CommitMovesAll
  <2>6. Atomic!Reserve(e.orderId)
    <3>1. Atomic!Shortfalls(e.orderId) = {}
      BY <1>1, <2>2 DEF Atomic!Shortfalls
    <3>2. Atomic!Enqueue("inventory.reserved", e.orderId)
      BY <1>1, <2>3 DEF Atomic!Enqueue
    <3> QED
      BY <1>1, <2>4, <2>5, <3>1, <3>2
         DEF Atomic!Reserve, AtomicAvailable, AtomicReserved
  <2> QED
    BY <1>1, <1>2, <2>1, <2>6, AtomicHandlers
<1>7. CASE result = "inventory.rejected"
  <2>1. /\ e.topic = "orders.created"
        /\ \E i \in DOMAIN Lines[o] : Short(o, i, stock)
    BY <1>1, <1>7 DEF HandlerFits, Creates, Decision
  <2>2. Atomic!Shortfalls(o) # {}
    BY <1>1, <2>1, ShortfallIsShort
  <2>3. Atomic!Enqueue("inventory.rejected", o)
    BY <1>1, <1>4, <1>5, <1>7, <2>1, AtomicEnqueue
  <2>4. UNCHANGED <<AtomicAvailable, AtomicReserved, reservations>>
    BY <1>7, CommitMovesNothing
  <2>5. Atomic!Reject(o)
    BY <2>2, <2>3, <2>4 DEF Atomic!Reject, Atomic!inventoryVars, AtomicAvailable,
       AtomicReserved
  <2>6. Atomic!Reject(e.orderId)
    BY <1>1, <2>5 DEF Atomic!Reject, Atomic!Shortfalls, Atomic!Enqueue
  <2> QED
    BY <1>1, <1>2, <2>1, <2>6, AtomicHandlers
<1>8. ASSUME result \in {"released", "nothing"}
      PROVE  e.topic = "orders.cancelled" /\ UNCHANGED outbox
  BY <1>1, <1>3, <1>8 DEF Commit, HandlerFits, Creates, Decision
<1>9. CASE result = "released"
  <2>1. reservations[o] = "RESERVED"
    BY <1>1, <1>9 DEF HandlerFits, Decision, Releases
  <2>2. reservations' = [reservations EXCEPT ![o] = "RELEASED"]
    BY <1>9 DEF Commit
  <2>3. /\ AtomicAvailable' = [p \in Products |-> stock[p].available + QuantityOf(o, p)]
        /\ AtomicReserved' = [p \in Products |-> stock[p].reserved - QuantityOf(o, p)]
    BY <1>9, CommitMovesAll
  <2>4. Atomic!Release(o)
    BY <1>1, <2>1, <2>2, <2>3 DEF Atomic!Release, AtomicAvailable, AtomicReserved
  <2>5. Atomic!Release(e.orderId)
    BY <1>1, <2>4 DEF Atomic!Release
  <2> QED
    BY <1>1, <1>2, <1>8, <1>9, <2>5, AtomicHandlers
<1>10. CASE result = "nothing"
  <2>1. reservations[o] # "RESERVED"
    BY <1>1, <1>10 DEF Decision
  <2>2. UNCHANGED <<AtomicAvailable, AtomicReserved, reservations>>
    BY <1>10, CommitMovesNothing
  <2>3. Atomic!Release(o)
    BY <2>1, <2>2 DEF Atomic!Release, Atomic!inventoryVars, AtomicAvailable, AtomicReserved
  <2>4. Atomic!Release(e.orderId)
    BY <1>1, <2>3 DEF Atomic!Release
  <2> QED
    BY <1>1, <1>2, <1>8, <1>10, <2>4, AtomicHandlers
<1> QED
  BY <1>1, <1>6, <1>7, <1>9, <1>10 DEF Handler, Results

\* With one instance the statements of a handler amount to one atomic step of
\* InventoryService: what CheckoutSaga takes for granted of reserve() and release().
THEOREM AloneIsAtomic == Spec => ReservationsAreAtomic
<1>1. IInv /\ LedgerInv /\ (Alone => DecisionInv) /\ [Next]_vars =>
         [Alone => \E e \in Events : \/ Atomic!InventoryOnOrderCreated(e)
                                     \/ Atomic!InventoryOnOrderCancelled(e)]_<<
               stock, reservations, processed, outbox>>
  <2> SUFFICES ASSUME IInv, LedgerInv, DecisionInv, [Next]_vars,
                      ~UNCHANGED <<stock, reservations, processed, outbox>>
               PROVE  \E w \in Instances : Commit(w)
    BY CommitIsAtomic
  <2> QED
    BY DEF Next, vars, tables, Deliver, Proceed, MarkProcessed, FindProduct,
       InsertProduct, CheckLine, FindReservation, UpdateProduct, Acknowledge, Fail,
       AbortDeadlocked, SkipDuplicate, Continue
<1> QED
  BY <1>1, LedgerInductive, PTL DEF Spec, ReservationsAreAtomic

=============================================================================
