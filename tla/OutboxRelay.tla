---------------------------- MODULE OutboxRelay ----------------------------
(***************************************************************************)
(* The read side of the transactional outbox: the relay that polls the     *)
(* outbox_events table of a service and publishes what it finds, in any    *)
(* number of instances of the service, which all poll the same table.      *)
(*                                                                         *)
(* A row is numbered by its createdAt, a time before the commit of the     *)
(* transaction that stages it.  Transactions of different orders           *)
(* overlap, so a row can become visible after younger ones.                *)
(***************************************************************************)
EXTENDS Naturals, Sequences, FiniteSets

CONSTANTS
    Instances,
    NumRows,      \* how many rows are ever staged
    OrderOf,      \* OrderOf[r]: the order a row is about, its partition key
    BatchSize,    \* outbox.batchSize
    MaxFailures   \* bound on crashes and failed calls in a behaviour

Rows == 1..NumRows

ASSUME RelayAssumption ==
    /\ NumRows \in Nat
    /\ DOMAIN OrderOf = Rows
    /\ BatchSize \in Nat \ {0}
    /\ MaxFailures \in Nat

VARIABLES
    open,      \* rows inserted by transactions that have not ended
    staged,    \* rows of committed transactions
    marked,    \* rows with publishedAt set
    log,       \* what the broker holds, with its duplicates
    relay,     \* relay[w]: the tick that runs in instance w
    failures

vars == <<open, staged, marked, log, relay, failures>>

\* running = false
Idle == [step |-> "idle"]

\* batch holds the rows of the tick's batch that are still to be published.
Tick == [step : {"publish", "mark"}, batch : (SUBSET Rows) \ {{}}]

Published == {log[i] : i \in DOMAIN log}

\* Rows are staged, marked and published as rows, and a tick that runs has rows
\* left: drainBatch ends with its batch.
TypeOK ==
    /\ open \subseteq Rows
    /\ staged \subseteq Rows
    /\ marked \subseteq Rows
    /\ log \in Seq(Rows)
    /\ relay \in [Instances -> Tick \cup {Idle}]
    /\ failures \in 0..MaxFailures

Init ==
    /\ open = {}
    /\ staged = {}
    /\ marked = {}
    /\ log = <<>>
    /\ relay = [w \in Instances |-> Idle]
    /\ failures = 0

-----------------------------------------------------------------------------
\* OutboxService.enqueue inside the transaction of some handler.  Those of one
\* order follow each other.
Enqueue(r) ==
    /\ \A q \in 1..(r - 1) :
          /\ q \in open \cup staged
          /\ OrderOf[q] = OrderOf[r] => q \in staged
    /\ r \notin open \cup staged
    /\ open' = open \cup {r}
    /\ UNCHANGED <<staged, marked, log, relay, failures>>

\* The handler's transaction commits; one that is rolled back never does.
CommitRow(r) ==
    /\ r \in open
    /\ open' = open \ {r}
    /\ staged' = staged \cup {r}
    /\ UNCHANGED <<marked, log, relay, failures>>

Busy(w) == relay[w] # Idle

Oldest(rows) == CHOOSE r \in rows : \A q \in rows : r <= q

\* ORDER BY createdAt LIMIT batchSize
FirstOf(rows) == {r \in rows : Cardinality({q \in rows : q < r}) < BatchSize}

\* Mutant of Unpublished: reads what other transactions have not committed.
UnpublishedDirty == (open \cup staged) \ marked

\* Mutant of Unpublished: waits until there are enough rows for a batch.
FullBatchUnpublished ==
    IF Cardinality(staged \ marked) < BatchSize THEN {} ELSE staged \ marked

\* WHERE publishedAt IS NULL
Unpublished == staged \ marked

\* tick: unless one is running, read a batch.  An empty batch ends the tick.
Poll(w) ==
    /\ ~Busy(w)
    /\ Unpublished # {}
    /\ relay' = [relay EXCEPT ![w] = [step |-> "publish",
                                      batch |-> FirstOf(Unpublished)]]
    /\ UNCHANGED <<open, staged, marked, log, failures>>

\* Mutant of Publish: the row is marked before it is sent.
MarkThenPublish(w) ==
    /\ Busy(w) /\ relay[w].step = "publish"
    /\ LET row == Oldest(relay[w].batch)
       IN IF row \notin marked
          THEN /\ marked' = marked \cup {row}
               /\ UNCHANGED <<log, relay>>
          ELSE /\ log' = Append(log, row)
               /\ relay' = [relay EXCEPT ![w].step = "mark"]
               /\ UNCHANGED marked
    /\ UNCHANGED <<open, staged, failures>>

\* producer.publish returns: the broker has acknowledged the row.
Publish(w) ==
    /\ Busy(w) /\ relay[w].step = "publish"
    /\ log' = Append(log, Oldest(relay[w].batch))
    /\ relay' = [relay EXCEPT ![w].step = "mark"]
    /\ UNCHANGED <<open, staged, marked, failures>>

\* The rest of the batch without the row that is done; none ends the tick.
Rest(w) ==
    LET rest == relay[w].batch \ {Oldest(relay[w].batch)}
    IN IF rest = {} THEN Idle ELSE [step |-> "publish", batch |-> rest]

\* outboxEvent.update
Mark(w) ==
    /\ Busy(w) /\ relay[w].step = "mark"
    /\ marked' = marked \cup {Oldest(relay[w].batch)}
    /\ relay' = [relay EXCEPT ![w] = Rest(w)]
    /\ UNCHANGED <<open, staged, log, failures>>

\* Mutant of Fail: a row that cannot be published is skipped.
FailOneRow(w) ==
    /\ Busy(w)
    /\ failures < MaxFailures
    /\ failures' = failures + 1
    /\ relay' = [relay EXCEPT ![w] = Rest(w)]
    /\ UNCHANGED <<open, staged, marked, log>>

\* A send or an update throws, or the process dies.  The tick is over, and the
\* row may have reached the broker all the same.
Fail(w) ==
    /\ Busy(w)
    /\ failures < MaxFailures
    /\ failures' = failures + 1
    /\ relay' = [relay EXCEPT ![w] = Idle]
    /\ \/ UNCHANGED log
       \/ /\ relay[w].step = "publish"
          /\ log' = Append(log, Oldest(relay[w].batch))
    /\ UNCHANGED <<open, staged, marked>>

RunTick(w) == Poll(w) \/ Publish(w) \/ Mark(w)

Next ==
    \/ \E r \in Rows : Enqueue(r) \/ CommitRow(r)
    \/ \E w \in Instances : RunTick(w) \/ Fail(w)

Spec == Init /\ [][Next]_vars

\* The timer goes on in every instance, and failures are bounded.
Fairness == \A w \in Instances : WF_vars(RunTick(w))

FairSpec == Spec /\ Fairness

-----------------------------------------------------------------------------
\* "We never mark a row published before its ACK, which would risk losing an
\* event": with failures and crashes anywhere and several relays at work on the
\* same rows, a marked row is on the log.
MarkedIsPublished == marked \subseteq Published

\* Rows of an order reach the broker in the order in which they were staged: a
\* row is not published before an older one of its order was.  Duplicates, and
\* rows of other orders, may come in between.
OrdersStayInOrder ==
    \A i \in DOMAIN log : \A q \in 1..(log[i] - 1) :
        OrderOf[q] = OrderOf[log[i]] => \E j \in 1..(i - 1) : log[j] = q

\* README.md: if the order is committed, the event will be published.  Every
\* committed row reaches the broker and is marked, also one that becomes visible
\* after younger rows were published.
CommittedIsPublished ==
    \A r \in Rows : (r \in staged) ~> (r \in Published /\ r \in marked)

EventOf(r) == [topic |-> "orders.created", orderId |-> r, serial |-> 1]

Bus == INSTANCE EventBus WITH
    Orders <- Rows,
    UnreliableConsumers <- {},
    outbox <- [t \in {"orders.created", "orders.confirmed", "orders.cancelled"} |->
                 [r \in Rows |-> IF t = "orders.created" /\ r \in staged
                                 THEN 1 ELSE 0]],
    published <- {EventOf(r) : r \in Published},
    processed <- <<>>,
    deadLetters <- <<>>

\* The relay is the one EventBus, and so the whole saga, builds on: committed
\* rows appear on the log one by one, and nothing else does.
RelaysAsAssumed == [][Bus!Relay("order-service")]_Published
=============================================================================
