------------------------- MODULE OutboxRelayProofs -------------------------
(***************************************************************************)
(* Proofs about OutboxRelay, for any number of relays, rows and failures   *)
(* and any batch size.                                                     *)
(***************************************************************************)
EXTENDS OutboxRelay, FiniteSetTheorems,
        WellFoundedInduction, TLAPS

\* A tick works on committed rows, and what it is about to mark is on the log.
TickInv ==
    \A w \in Instances :
        Busy(w) => /\ relay[w].batch \subseteq staged
                   /\ relay[w].step = "mark" =>
                         Oldest(relay[w].batch) \in Published

\* The older rows of an order are committed before a younger one is inserted.
StagingInv ==
    \A r \in open \cup staged : \A q \in Rows :
        (q < r /\ OrderOf[q] = OrderOf[r]) => q \in staged

\* A batch holds the older rows of each of its orders, but for those on the log.
BatchInv ==
    \A w \in Instances :
        Busy(w) => \A r \in relay[w].batch : \A q \in Rows :
            (q < r /\ OrderOf[q] = OrderOf[r]) =>
                q \in relay[w].batch \cup Published

\* The inductive invariant.
IInv ==
    /\ TypeOK
    /\ MarkedIsPublished
    /\ TickInv
    /\ StagingInv
    /\ BatchInv
    /\ OrdersStayInOrder

-----------------------------------------------------------------------------
\* Rows are numbered by creation time, and compared as naturals.
LEMMA RowsAreNaturals == Rows \subseteq Nat
BY RelayAssumption DEF Rows

\* The order of the naturals as a relation, as the theorems on well-founded
\* orders want it.
Smaller == OpToRel(<, Nat)

\* A set of rows that has any has an oldest.
LEMMA OldestIsIn ==
    ASSUME NEW rows \in SUBSET Rows, rows # {}
    PROVE  /\ Oldest(rows) \in rows
           /\ \A q \in rows : Oldest(rows) <= q
<1>1. rows \subseteq Nat
  BY RowsAreNaturals
<1>2. IsWellFoundedOn(Smaller, Nat)
  BY NatLessThanWellFounded DEF Smaller
<1>3. PICK r \in rows : \A q \in rows : ~ (<<q, r>> \in Smaller)
  <2> HIDE DEF Smaller
  <2> QED
    BY <1>1, <1>2, WFMin
<1>4. \A q \in rows : r <= q
  <2>1. ASSUME NEW q \in rows, q < r
        PROVE  <<q, r>> \in {ss \in Nat \X Nat : ss[1] < ss[2]}
    BY <1>1, <2>1
  <2>2. Smaller = {ss \in Nat \X Nat : ss[1] < ss[2]}
    BY DEF Smaller, OpToRel
  <2>3. \A q \in rows : ~ (q < r)
    BY <1>3, <2>1, <2>2
  <2> QED
    BY <1>1, <2>3
<1> QED
  BY <1>4 DEF Oldest

\* The oldest rows of a set: with a row come all that are older.
LEMMA FirstOfIsClosed ==
    ASSUME NEW rows \in SUBSET Rows
    PROVE  /\ FirstOf(rows) \subseteq rows
           /\ \A r \in FirstOf(rows) : \A q \in rows :
                 q < r => q \in FirstOf(rows)
<1>1. FirstOf(rows) \subseteq rows
  BY DEF FirstOf
<1>2. ASSUME NEW r \in FirstOf(rows), NEW q \in rows, q < r
      PROVE  q \in FirstOf(rows)
  <2> DEFINE Below(x) == {y \in rows : y < x}
  <2>1. IsFiniteSet(Rows)
    BY RelayAssumption, FS_Interval DEF Rows
  <2>2. IsFiniteSet(Below(r))
    BY <2>1, FS_Subset
  <2>3. rows \subseteq Nat /\ r \in Nat /\ q \in Nat
    BY <1>1, <1>2, RowsAreNaturals
  <2>4. Below(q) \in SUBSET Below(r)
    <3>1. ASSUME NEW y \in rows, y < q
          PROVE  y < r
      BY <1>2, <2>3, <3>1
    <3> QED
      BY <3>1
  <2>5. /\ Cardinality(Below(q)) <= Cardinality(Below(r))
        /\ IsFiniteSet(Below(q))
    BY <2>2, <2>4, FS_Subset
  <2>6. Cardinality(Below(q)) \in Nat /\ Cardinality(Below(r)) \in Nat
    BY <2>2, <2>5, FS_CardinalityType
  <2>7. Cardinality(Below(r)) < BatchSize
    BY <1>2 DEF FirstOf
  <2>8. Cardinality(Below(q)) < BatchSize
    BY <2>5, <2>6, <2>7, RelayAssumption
  <2> QED
    BY <2>8 DEF FirstOf
<1> QED
  BY <1>1, <1>2

\* A batch is never empty: the oldest row is among the first ones.
LEMMA FirstOfIsNotEmpty ==
    ASSUME NEW rows \in SUBSET Rows, rows # {}
    PROVE  FirstOf(rows) # {}
<1>1. /\ Oldest(rows) \in rows
      /\ \A q \in rows : Oldest(rows) <= q
  BY OldestIsIn
<1>2. rows \subseteq Nat /\ Oldest(rows) \in Nat
  BY <1>1, RowsAreNaturals
<1>3. {q \in rows : q < Oldest(rows)} = {}
  <2>1. \A q \in rows : ~ (q < Oldest(rows))
    BY <1>1, <1>2
  <2> QED
    BY <2>1
<1>4. Cardinality({q \in rows : q < Oldest(rows)}) = 0
  BY <1>3, FS_EmptySet
<1>5. Oldest(rows) \in FirstOf(rows)
  BY <1>1, <1>4, RelayAssumption DEF FirstOf
<1> QED
  BY <1>5

\* What an append does to the rows on the log.
LEMMA AppendPublishes ==
    ASSUME TypeOK, NEW r \in Rows, log' = Append(log, r)
    PROVE  /\ log' \in Seq(Rows)
           /\ Published' = Published \cup {r}
           /\ Len(log') = Len(log) + 1
           /\ \A i \in 1..Len(log) : log'[i] = log[i]
           /\ log'[Len(log) + 1] = r
           /\ DOMAIN log = 1..Len(log) /\ DOMAIN log' = 1..(Len(log) + 1)
<1>1. log \in Seq(Rows)
  BY DEF TypeOK
<1>2. /\ log' \in Seq(Rows)
      /\ Len(log') = Len(log) + 1
      /\ \A i \in 1..Len(log) : log'[i] = log[i]
      /\ log'[Len(log) + 1] = r
      /\ DOMAIN log = 1..Len(log) /\ DOMAIN log' = 1..(Len(log) + 1)
      /\ Len(log) \in Nat
  BY <1>1
<1>3. Published' = {log'[i] : i \in DOMAIN log'}
  BY DEF Published
<1>4. Published = {log[i] : i \in DOMAIN log}
  BY DEF Published
<1>5. 1..(Len(log) + 1) = (1..Len(log)) \cup {Len(log) + 1}
  BY <1>2
<1>6. Published' = Published \cup {r}
  BY <1>2, <1>3, <1>4, <1>5
<1> QED
  BY <1>2, <1>6

\* A row whose older rows are on the log may go on the log.
LEMMA AppendKeepsOrder ==
    ASSUME TypeOK, OrdersStayInOrder, NEW r \in Rows, log' = Append(log, r),
           \A q \in Rows : (q < r /\ OrderOf[q] = OrderOf[r]) => q \in Published
    PROVE  OrdersStayInOrder'
<1>1. /\ \A i \in 1..Len(log) : log'[i] = log[i]
      /\ log'[Len(log) + 1] = r
      /\ DOMAIN log = 1..Len(log) /\ DOMAIN log' = 1..(Len(log) + 1)
  BY AppendPublishes
<1>2. Len(log) \in Nat /\ \A i \in 1..Len(log) : log[i] \in Rows
  BY DEF TypeOK
<1>3. SUFFICES ASSUME NEW i \in DOMAIN log', NEW q \in 1..(log'[i] - 1),
                      OrderOf[q] = OrderOf[log'[i]]
               PROVE  \E j \in 1..(i - 1) : log'[j] = q
  BY DEF OrdersStayInOrder
<1>4. CASE i \in 1..Len(log)
  <2>1. log'[i] = log[i]
    BY <1>1, <1>4
  <2>2. PICK j \in 1..(i - 1) : log[j] = q
    BY <1>1, <1>3, <1>4, <2>1 DEF OrdersStayInOrder
  <2>3. j \in 1..Len(log)
    BY <1>2, <1>4
  <2> QED
    BY <1>1, <2>2, <2>3
<1>5. CASE i = Len(log) + 1
  <2>1. log'[i] = r
    BY <1>1, <1>5
  <2>2. q \in Rows /\ q < r
    BY <1>3, <2>1, RelayAssumption DEF Rows
  <2>3. q \in Published
    BY <1>3, <2>1, <2>2
  <2>4. PICK j \in 1..Len(log) : log[j] = q
    BY <1>1, <2>3 DEF Published
  <2>5. j \in 1..(i - 1)
    BY <1>2, <1>5
  <2> QED
    BY <1>1, <2>4, <2>5
<1> QED
  BY <1>1, <1>2, <1>4, <1>5

\* A tick that runs has a step and a batch of rows.
LEMMA BusyIsTick ==
    ASSUME TypeOK, NEW w \in Instances, Busy(w)
    PROVE  /\ relay[w].step \in {"publish", "mark"}
           /\ relay[w].batch \in SUBSET Rows
           /\ relay[w].batch # {}
BY DEF TypeOK, Busy, Tick

\* The row a tick is at is the oldest of its batch: no older row of its order
\* is missing on the log.
LEMMA OldestOfBatch ==
    ASSUME IInv, NEW w \in Instances, Busy(w)
    PROVE  /\ Oldest(relay[w].batch) \in relay[w].batch
           /\ Oldest(relay[w].batch) \in staged
           /\ Oldest(relay[w].batch) \in Rows
           /\ \A q \in Rows :
                 (/\ q < Oldest(relay[w].batch)
                  /\ OrderOf[q] = OrderOf[Oldest(relay[w].batch)]) =>
                     q \in Published
<1> DEFINE r == Oldest(relay[w].batch)
<1>1. relay[w].batch \in SUBSET Rows /\ relay[w].batch # {}
  BY BusyIsTick DEF IInv
<1>2. r \in relay[w].batch /\ \A q \in relay[w].batch : r <= q
  BY <1>1, OldestIsIn
<1>3. r \in staged /\ r \in Rows
  BY <1>1, <1>2 DEF IInv, TickInv
<1>4. ASSUME NEW q \in Rows, q < r, OrderOf[q] = OrderOf[r]
      PROVE  q \in Published
  <2>1. q \in relay[w].batch \cup Published
    BY <1>2, <1>4 DEF IInv, BatchInv
  <2>2. q \notin relay[w].batch
    <3>1. q \in Nat /\ r \in Nat
      BY <1>3, <1>4, RowsAreNaturals
    <3>2. q \in relay[w].batch => r <= q
      BY <1>2
    <3> QED
      BY <1>4, <3>1, <3>2
  <2> QED
    BY <2>1, <2>2
<1> QED
  BY <1>2, <1>3, <1>4

-----------------------------------------------------------------------------
\* Nothing is inserted, sent or read yet.
LEMMA InitIInv == Init => IInv
<1> SUFFICES ASSUME Init PROVE IInv
  OBVIOUS
<1>1. TypeOK
  BY RelayAssumption DEF Init, TypeOK
<1>2. \A w \in Instances : ~Busy(w)
  BY DEF Init, Busy
<1>3. DOMAIN log = {}
  BY DEF Init
<1> QED
  BY <1>1, <1>2, <1>3 DEF Init, IInv, MarkedIsPublished, TickInv, StagingInv,
       BatchInv, OrdersStayInOrder

\* A row is inserted when the older ones of its order are committed.
LEMMA EnqueueKeepsIInv ==
    ASSUME IInv, NEW r \in Rows, Enqueue(r)
    PROVE  IInv'
<1>1. TypeOK'
  BY DEF IInv, TypeOK, Enqueue
<1>2. Published' = Published /\ \A w \in Instances : Busy(w)' <=> Busy(w)
  BY DEF Enqueue, Published, Busy
<1>3. MarkedIsPublished' /\ TickInv' /\ BatchInv' /\ OrdersStayInOrder'
  BY <1>2 DEF IInv, Enqueue, MarkedIsPublished, TickInv, BatchInv,
       OrdersStayInOrder
<1>4. StagingInv'
  <2> SUFFICES ASSUME NEW x \in open' \cup staged', NEW q \in Rows,
                      q < x, OrderOf[q] = OrderOf[x]
               PROVE  q \in staged'
    BY DEF StagingInv
  <2>1. CASE x = r
    <3>1. q \in 1..(r - 1)
      BY <2>1, RelayAssumption DEF Rows
    <3> QED
      BY <2>1, <3>1 DEF Enqueue
  <2>2. CASE x \in open \cup staged
    BY <2>2 DEF IInv, StagingInv, Enqueue
  <2> QED
    BY <2>1, <2>2 DEF Enqueue
<1> QED
  BY <1>1, <1>3, <1>4 DEF IInv

\* A commit only adds to what the older rows of an order may rely on.
LEMMA CommitRowKeepsIInv ==
    ASSUME IInv, NEW r \in Rows, CommitRow(r)
    PROVE  IInv'
<1>1. TypeOK'
  BY DEF IInv, TypeOK, CommitRow
<1>2. Published' = Published /\ \A w \in Instances : Busy(w)' <=> Busy(w)
  BY DEF CommitRow, Published, Busy
<1>3. MarkedIsPublished' /\ TickInv' /\ BatchInv' /\ OrdersStayInOrder'
  BY <1>2 DEF IInv, CommitRow, MarkedIsPublished, TickInv, BatchInv,
       OrdersStayInOrder
<1>4. StagingInv'
  BY DEF IInv, StagingInv, CommitRow
<1> QED
  BY <1>1, <1>3, <1>4 DEF IInv

\* The batch a tick reads is closed under older rows of the same order, because
\* those are committed and either unmarked too, and so in it, or on the log.
LEMMA PollKeepsIInv ==
    ASSUME IInv, NEW w \in Instances, Poll(w)
    PROVE  IInv'
<1> DEFINE b == FirstOf(Unpublished)
<1>1. Unpublished \in SUBSET Rows /\ Unpublished # {}
  BY DEF IInv, TypeOK, Unpublished, Poll
<1>2. /\ b \subseteq Unpublished /\ b # {}
      /\ \A r \in b : \A q \in Unpublished : q < r => q \in b
  BY <1>1, FirstOfIsClosed, FirstOfIsNotEmpty
<1>3. [step |-> "publish", batch |-> b] \in Tick
  BY <1>1, <1>2 DEF Tick
<1> HIDE DEF b
<1>4. relay' = [relay EXCEPT ![w] = [step |-> "publish", batch |-> b]]
  BY DEF Poll, b
<1>5. TypeOK'
  BY <1>3, <1>4 DEF IInv, TypeOK, Poll
<1>6. Published' = Published
  BY DEF Poll, Published
<1>7. /\ relay'[w] = [step |-> "publish", batch |-> b]
      /\ \A v \in Instances \ {w} : relay'[v] = relay[v]
  BY <1>4 DEF IInv, TypeOK
<1>8. MarkedIsPublished' /\ StagingInv' /\ OrdersStayInOrder'
  BY <1>6 DEF IInv, MarkedIsPublished, StagingInv, OrdersStayInOrder, Poll
<1>9. TickInv'
  <2> SUFFICES ASSUME NEW v \in Instances, Busy(v)'
               PROVE  /\ relay'[v].batch \subseteq staged'
                      /\ relay'[v].step = "mark" =>
                            Oldest(relay'[v].batch) \in Published'
    BY DEF TickInv
  <2>1. staged' = staged
    BY DEF Poll
  <2>2. CASE v # w
    BY <1>6, <1>7, <2>1, <2>2 DEF IInv, TickInv, Busy
  <2>3. CASE v = w
    BY <1>2, <1>7, <2>1, <2>3 DEF Unpublished
  <2> QED
    BY <2>2, <2>3
<1>10. BatchInv'
  <2> SUFFICES ASSUME NEW v \in Instances, Busy(v)', NEW r \in relay'[v].batch,
                      NEW q \in Rows, q < r, OrderOf[q] = OrderOf[r]
               PROVE  q \in relay'[v].batch \cup Published'
    BY DEF BatchInv
  <2>1. CASE v # w
    BY <1>6, <1>7, <2>1 DEF IInv, BatchInv, Busy
  <2>2. CASE v = w
    <3>1. r \in b /\ r \in staged
      BY <1>2, <1>7, <2>2 DEF Unpublished
    <3>2. q \in staged
      BY <3>1 DEF IInv, StagingInv
    <3>3. CASE q \in marked
      BY <1>6, <3>3 DEF IInv, MarkedIsPublished
    <3>4. CASE q \notin marked
      BY <1>2, <1>7, <2>2, <3>1, <3>2, <3>4 DEF Unpublished
    <3> QED
      BY <3>3, <3>4
  <2> QED
    BY <2>1, <2>2
<1> QED
  BY <1>5, <1>8, <1>9, <1>10 DEF IInv

\* A tick sends the oldest row of its batch, which waits for no older one.
LEMMA PublishKeepsIInv ==
    ASSUME IInv, NEW w \in Instances, Publish(w)
    PROVE  IInv'
<1> DEFINE r == Oldest(relay[w].batch)
<1>1. Busy(w) /\ TypeOK /\ OrdersStayInOrder
  BY DEF Publish, IInv
<1>2. /\ r \in Rows
      /\ \A q \in Rows : (q < r /\ OrderOf[q] = OrderOf[r]) => q \in Published
  BY <1>1, OldestOfBatch
<1>3. log' = Append(log, r)
  BY DEF Publish
<1>4. log' \in Seq(Rows) /\ Published' = Published \cup {r}
  BY <1>1, <1>2, <1>3, AppendPublishes
<1>5. OrdersStayInOrder'
  BY <1>1, <1>2, <1>3, AppendKeepsOrder
<1>6. /\ relay[w] \in Tick
      /\ relay' = [relay EXCEPT ![w] = [relay[w] EXCEPT !.step = "mark"]]
  BY <1>1 DEF TypeOK, Busy, Publish
<1>7. /\ relay'[w].step = "mark" /\ relay'[w].batch = relay[w].batch
      /\ relay'[w] \in Tick
      /\ \A v \in Instances \ {w} : relay'[v] = relay[v]
  BY <1>1, <1>6 DEF TypeOK, Tick
<1>8. TypeOK'
  BY <1>1, <1>4, <1>6, <1>7 DEF TypeOK, Publish
<1>9. MarkedIsPublished' /\ StagingInv'
  BY <1>4 DEF IInv, MarkedIsPublished, StagingInv, Publish
<1>10. TickInv'
  BY <1>1, <1>4, <1>7 DEF IInv, TickInv, Busy, Publish
<1>11. BatchInv'
  BY <1>1, <1>4, <1>7 DEF IInv, BatchInv, Busy
<1> QED
  BY <1>5, <1>8, <1>9, <1>10, <1>11 DEF IInv

\* A row leaves its batch when the broker holds it, so what is left of the
\* batch stays closed.
LEMMA MarkKeepsIInv ==
    ASSUME IInv, NEW w \in Instances, Mark(w)
    PROVE  IInv'
<1> DEFINE r == Oldest(relay[w].batch)
           rest == relay[w].batch \ {r}
<1>1. Busy(w) /\ TypeOK /\ relay[w].batch \in SUBSET Rows
  BY BusyIsTick DEF Mark, IInv
<1>2. r \in Rows /\ r \in Published
  BY <1>1, OldestOfBatch DEF Mark, IInv, TickInv
<1>3. Published' = Published
  BY DEF Mark, Published
<1>4. Rest(w) = IF rest = {} THEN Idle ELSE [step |-> "publish", batch |-> rest]
  BY DEF Rest
<1>5. Rest(w) \in Tick \cup {Idle}
  BY <1>1, <1>4 DEF Tick
<1>6. /\ relay'[w] = Rest(w)
      /\ \A v \in Instances \ {w} : relay'[v] = relay[v]
      /\ marked' = marked \cup {r}
  BY <1>1 DEF TypeOK, Mark
<1>7. TypeOK'
  BY <1>1, <1>2, <1>5 DEF TypeOK, Mark
<1>8. MarkedIsPublished' /\ StagingInv' /\ OrdersStayInOrder'
  BY <1>2, <1>3, <1>6 DEF IInv, MarkedIsPublished, StagingInv,
       OrdersStayInOrder, Mark
<1>9. Busy(w)' => /\ relay'[w].step = "publish"
                  /\ relay'[w].batch = relay[w].batch \ {r}
  BY <1>4, <1>6 DEF Busy
<1>10. TickInv'
  BY <1>1, <1>3, <1>6, <1>9 DEF IInv, TickInv, Busy, Mark
<1>11. BatchInv'
  BY <1>1, <1>2, <1>3, <1>6, <1>9 DEF IInv, BatchInv, Busy
<1> QED
  BY <1>7, <1>8, <1>10, <1>11 DEF IInv

\* A failure ends the tick, whether or not the row reached the broker.
LEMMA FailKeepsIInv ==
    ASSUME IInv, NEW w \in Instances, Fail(w)
    PROVE  IInv'
<1> DEFINE r == Oldest(relay[w].batch)
<1>1. Busy(w) /\ TypeOK /\ OrdersStayInOrder
  BY DEF Fail, IInv
<1>2. /\ r \in Rows
      /\ \A q \in Rows : (q < r /\ OrderOf[q] = OrderOf[r]) => q \in Published
  BY <1>1, OldestOfBatch
<1>3. /\ log' \in Seq(Rows)
      /\ Published \subseteq Published'
      /\ OrdersStayInOrder'
  <2>1. CASE log' = log
    BY <1>1, <2>1 DEF TypeOK, Published, OrdersStayInOrder
  <2>2. CASE log' = Append(log, r)
    BY <1>1, <1>2, <2>2, AppendPublishes, AppendKeepsOrder
  <2> QED
    BY <2>1, <2>2 DEF Fail
<1>4. /\ relay'[w] = Idle
      /\ \A v \in Instances \ {w} : relay'[v] = relay[v]
  BY <1>1 DEF TypeOK, Fail
<1>5. TypeOK'
  BY <1>1, <1>3, RelayAssumption DEF TypeOK, Fail
<1>6. MarkedIsPublished' /\ StagingInv'
  BY <1>3 DEF IInv, MarkedIsPublished, StagingInv, Fail
<1>7. TickInv' /\ BatchInv'
  BY <1>3, <1>4 DEF IInv, TickInv, BatchInv, Busy, Fail
<1> QED
  BY <1>3, <1>5, <1>6, <1>7 DEF IInv

\* Every step of every instance keeps the invariant.
LEMMA StepKeepsIInv == IInv /\ [Next]_vars => IInv'
<1> SUFFICES ASSUME IInv, [Next]_vars
             PROVE  IInv'
  OBVIOUS
<1>1. ASSUME NEW r \in Rows, Enqueue(r) \/ CommitRow(r)
      PROVE  IInv'
  BY <1>1, EnqueueKeepsIInv, CommitRowKeepsIInv
<1>2. ASSUME NEW w \in Instances, RunTick(w) \/ Fail(w)
      PROVE  IInv'
  BY <1>2, PollKeepsIInv, PublishKeepsIInv, MarkKeepsIInv, FailKeepsIInv
     DEF RunTick
<1>3. CASE UNCHANGED vars
  BY <1>3 DEF vars, IInv, TypeOK, MarkedIsPublished, TickInv, StagingInv,
       BatchInv, OrdersStayInOrder, Busy, Published
<1> QED
  BY <1>1, <1>2, <1>3 DEF Next

-----------------------------------------------------------------------------
\* The strengthening on which the other theorems rest holds in every state.
THEOREM InductiveInvariant == Spec => []IInv
BY InitIInv, StepKeepsIInv, PTL DEF Spec

\* The tables, the log and the ticks always have their types: a tick that runs
\* has rows left.
THEOREM TypeCorrect == Spec => []TypeOK
<1>1. IInv => TypeOK
  BY DEF IInv
<1> QED
  BY <1>1, InductiveInvariant, PTL

\* No relay ever marks a row that the broker does not hold, so none is lost.
THEOREM NothingIsLost == Spec => []MarkedIsPublished
<1>1. IInv => MarkedIsPublished
  BY DEF IInv
<1> QED
  BY <1>1, InductiveInvariant, PTL

\* Any number of relays on one table keep the rows of an order in order.
THEOREM OrderIsKept == Spec => []OrdersStayInOrder
<1>1. IInv => OrdersStayInOrder
  BY DEF IInv
<1> QED
  BY <1>1, InductiveInvariant, PTL

\* A row that reaches the broker for the first time is a step of EventBus.
LEMMA AppendRelays ==
    ASSUME NEW r \in Rows, r \in staged, r \notin Published,
           Published' = Published \cup {r}, staged' = staged
    PROVE  Bus!Relay("order-service")
<1> DEFINE Staged == [t \in {"orders.created", "orders.confirmed",
                             "orders.cancelled"} |->
                        [q \in Rows |-> IF t = "orders.created" /\ q \in staged
                                        THEN 1 ELSE 0]]
<1>1. Bus!EventOf("orders.created", r, 1) = EventOf(r)
  BY DEF Bus!EventOf, EventOf
<1>2. EventOf(r) \notin {EventOf(q) : q \in Published}
  BY DEF EventOf
<1>3. {EventOf(q) : q \in Published}' =
          {EventOf(q) : q \in Published} \cup {EventOf(r)}
  BY DEF EventOf
<1>4. 1 \in 1..Staged["orders.created"][r]
  OBVIOUS
<1>5. "orders.created" \in Bus!TopicsOf("order-service")
  BY DEF Bus!TopicsOf
<1>6. Staged' = Staged
  OBVIOUS
<1> QED
  BY <1>1, <1>2, <1>3, <1>4, <1>5, <1>6 DEF Bus!Relay

\* The relay is the one the saga is built on: whatever the relays read, send,
\* mark and fail at, the log grows by one committed row at a time.
THEOREM RelaysImplementEventBus == Spec => RelaysAsAssumed
<1>1. IInv /\ [Next]_vars => [Bus!Relay("order-service")]_Published
  <2> SUFFICES ASSUME IInv, [Next]_vars, Published' # Published
               PROVE  Bus!Relay("order-service")
    OBVIOUS
  <2>1. ASSUME NEW r \in Rows, Enqueue(r) \/ CommitRow(r)
        PROVE  FALSE
    BY <2>1 DEF Enqueue, CommitRow, Published
  <2>2. ASSUME NEW w \in Instances, Poll(w) \/ Mark(w)
        PROVE  FALSE
    BY <2>2 DEF Poll, Mark, Published
  <2>3. ASSUME NEW w \in Instances, Publish(w) \/ Fail(w)
        PROVE  Bus!Relay("order-service")
    <3> DEFINE r == Oldest(relay[w].batch)
    <3>1. Busy(w) /\ TypeOK /\ staged' = staged
      BY <2>3 DEF Publish, Fail, IInv
    <3>2. r \in Rows /\ r \in staged
      BY <3>1, OldestOfBatch
    <3>3. log' = Append(log, r)
      BY <2>3 DEF Publish, Fail, Published
    <3>4. Published' = Published \cup {r}
      BY <3>1, <3>2, <3>3, AppendPublishes
    <3> HIDE DEF r
    <3>5. r \notin Published
      BY <3>4
    <3> QED
      BY <3>1, <3>2, <3>4, <3>5, AppendRelays
  <2>4. CASE UNCHANGED vars
    BY <2>4 DEF vars, Published
  <2> QED
    BY <2>1, <2>2, <2>3, <2>4 DEF Next, RunTick
<1> QED
  BY <1>1, InductiveInvariant, PTL DEF Spec, RelaysAsAssumed
=============================================================================
