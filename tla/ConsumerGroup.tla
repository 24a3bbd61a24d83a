--------------------------- MODULE ConsumerGroup ---------------------------
(***************************************************************************)
(* One consumer group: the instances of a service, the partitions of the   *)
(* topics it subscribes to, and what KafkaConsumerService makes of each    *)
(* message: handle it, try again, or park it in a dead-letter topic.       *)
(*                                                                         *)
(* Kafka and kafkajs are external.  The group coordinator gives every      *)
(* partition to one member, and a new assignment starts each partition at  *)
(* its committed offset.  A member that lost its partitions while it was   *)
(* at work finishes the message at hand, but neither moves the position    *)
(* of the new owner nor commits an offset.  The handler is one database    *)
(* transaction inside processOnce and here one step; StockRace and         *)
(* OrderSettlement take it apart.                                          *)
(***************************************************************************)
EXTENDS Integers, Sequences

CONSTANTS
    Consumer,     \* the name under which the service deduplicates
    Instances,
    Partitions,
    Log,          \* Log[p]: the messages p will ever hold, in their order
    Kind,         \* what a message does to its consumer
    MaxRetries,   \* consumer.maxRetries
    MaxFailures   \* bound on failed attempts, failed sends and rebalances

Messages == UNION {{Log[p][i] : i \in DOMAIN Log[p]} : p \in Partitions}

\* A good message is handled unless something transient fails; the handler of
\* a poison message throws every time; garbage does not parse; an empty
\* message has no value.
Kinds == {"good", "poison", "garbage", "empty"}

ASSUME GroupAssumption ==
    /\ \A p \in Partitions : Log[p] \in Seq(Messages)
    /\ Kind \in [Messages -> Kinds]
    /\ MaxRetries \in Nat
    /\ MaxFailures \in Nat

VARIABLES
    published,  \* published[p]: how many messages p holds by now
    up,         \* the members of the group
    owner,      \* owner[p]: the member that reads p
    position,   \* position[p]: offset of the next message for the owner of p
    begin,      \* begin[p]: where the group began p for want of a committed
                \* offset; 0 if it has one since an earlier run
    resolved,   \* partitions with resolved messages since the last commit
    committed,  \* committed[p]: the group's committed offset
    work,       \* work[w]: the message instance w is at
    processed,  \* messages with a committed row in processed_events
    effects,    \* effects[m]: how often the work of m was committed
    parked,     \* dead letters: offset in a partition, and the attempts it says
    failures

vars == <<published, up, owner, position, begin, resolved, committed, work, processed,
          effects, parked, failures>>

\* What the code, as opposed to the group, brings about.
outcome == <<processed, effects, parked>>

group == <<up, owner, position, begin, resolved>>

Idle == [step |-> "idle"]

Offsets == [partition : Partitions, offset : Nat]

\* A stale work item belongs to an assignment that has been taken away.
Work == [step : {"handle", "park"}, partition : Partitions, offset : Nat,
         attempt : Nat, stale : BOOLEAN]

Nobody == "nobody"
NoOffset == -1

\* Offsets count from 0, as Kafka's do: the message at offset n of p.
MessageAt(p, n) == Log[p][n + 1]

\* Offsets stay within the log, only members own partitions, and no message is
\* tried more than MaxRetries + 1 times in one delivery.
TypeOK ==
    /\ published \in [Partitions -> Nat]
    /\ \A p \in Partitions : published[p] <= Len(Log[p])
    /\ up \subseteq Instances
    /\ owner \in [Partitions -> up \cup {Nobody}]
    /\ \A p \in Partitions : position[p] \in 0..published[p]
    /\ \A p \in Partitions : begin[p] \in 0..position[p]
    /\ resolved \subseteq Partitions
    /\ \A p \in Partitions : committed[p] \in -1..published[p]
    /\ \A w \in Instances :
          \/ work[w] = Idle
          \/ /\ work[w] \in Work
             /\ work[w].offset < published[work[w].partition]
             /\ work[w].attempt \in 0..(MaxRetries + 1)
    /\ processed \subseteq Messages
    /\ effects \in [Messages -> Nat]
    /\ \A d \in parked :
          /\ d \in [partition : Partitions, offset : Nat, attempts : Nat]
          /\ d.offset < published[d.partition]
    /\ failures \in 0..MaxFailures

Init ==
    /\ published = [p \in Partitions |-> 0]
    /\ up = {}
    /\ owner = [p \in Partitions |-> Nobody]
    /\ position = [p \in Partitions |-> 0]
    /\ begin = [p \in Partitions |-> 0]
    /\ resolved = {}
    /\ \E offset \in {0, NoOffset} : committed = [p \in Partitions |-> offset]
    /\ work = [w \in Instances |-> Idle]
    /\ processed = {}
    /\ effects = [m \in Messages |-> 0]
    /\ parked = {}
    /\ failures = 0

-----------------------------------------------------------------------------
Busy(w) == work[w] # Idle

MessageOf(w) == MessageAt(work[w].partition, work[w].offset)

\* A relay's send is acknowledged.
Publish(p) ==
    /\ published[p] < Len(Log[p])
    /\ published' = [published EXCEPT ![p] = @ + 1]
    /\ UNCHANGED <<group, committed, work, outcome, failures>>

\* subscribe with fromBeginning: false: a group without a committed offset
\* starts at the end of the log.
StartOffset(p) ==
    IF committed[p] = NoOffset THEN published[p] ELSE committed[p]

\* A new assignment of all partitions to the members.
Assign(members) ==
    /\ up' = members
    /\ owner' \in [Partitions -> IF members = {} THEN {Nobody} ELSE members]
    /\ position' = [p \in Partitions |-> StartOffset(p)]
    /\ begin' = [p \in Partitions |-> IF committed[p] = NoOffset
                                      THEN published[p] ELSE begin[p]]
    /\ resolved' = {}

\* Every work item not in instance w's hands any more.
Orphaned == [v \in Instances |->
                IF Busy(v) THEN [work[v] EXCEPT !.stale = TRUE] ELSE Idle]

\* start(): the instance subscribes and joins the group.
Start(w) ==
    /\ w \notin up
    /\ Assign(up \cup {w})
    /\ work' = Orphaned
    /\ UNCHANGED <<published, committed, outcome, failures>>

\* The instance crashes, or disconnects at its shutdown.
Stop(w) ==
    /\ w \in up
    /\ failures < MaxFailures
    /\ failures' = failures + 1
    /\ Assign(up \ {w})
    /\ work' = [Orphaned EXCEPT ![w] = Idle]
    /\ UNCHANGED <<published, committed, outcome>>

\* The coordinator reassigns the partitions, for instance because a member that
\* is at work for long missed its heartbeats.
Rebalance ==
    /\ up # {}
    /\ failures < MaxFailures
    /\ failures' = failures + 1
    /\ Assign(up)
    /\ work' = Orphaned
    /\ UNCHANGED <<published, committed, outcome>>

\* The consumer commits the offset of what its instance has resolved.
CommitOffset(p) ==
    /\ p \in resolved
    /\ resolved' = resolved \ {p}
    /\ committed' = [committed EXCEPT ![p] = position[p]]
    /\ UNCHANGED <<published, up, owner, position, begin, work, outcome, failures>>

-----------------------------------------------------------------------------
\* eachMessage is called with the next message of a partition of w's.
HasNext(w, p) ==
    /\ owner[p] = w
    /\ ~Busy(w)
    /\ position[p] < published[p]

Resolve(p) ==
    /\ position' = [position EXCEPT ![p] = @ + 1]
    /\ resolved' = resolved \cup {p}
    /\ UNCHANGED <<up, owner, begin>>

\* dispatch of a message without a value.
Ignore(w, p) ==
    /\ HasNext(w, p)
    /\ Kind[MessageAt(p, position[p])] = "empty"
    /\ Resolve(p)
    /\ UNCHANGED <<published, committed, work, outcome, failures>>

\* Mutant of Dispatch: the messages of a fetched batch are handled at once, and
\* the position waits for the first of them.
DispatchBatch(w, p) ==
    /\ HasNext(w, p)
    /\ \E n \in position[p]..(published[p] - 1) :
          /\ Kind[MessageAt(p, n)] # "empty"
          /\ work' = [work EXCEPT ![w] =
                [step |-> IF Kind[MessageAt(p, n)] = "garbage"
                          THEN "park" ELSE "handle",
                 partition |-> p, offset |-> n, attempt |-> 0,
                 stale |-> n # position[p]]]
    /\ UNCHANGED <<published, group, committed, outcome, failures>>

\* dispatch: what does not parse goes straight to the dead letters.
Dispatch(w, p) ==
    /\ HasNext(w, p)
    /\ Kind[MessageAt(p, position[p])] # "empty"
    /\ work' = [work EXCEPT ![w] =
          [step |-> IF Kind[MessageAt(p, position[p])] = "garbage"
                    THEN "park" ELSE "handle",
           partition |-> p, offset |-> position[p], attempt |-> 0,
           stale |-> FALSE]]
    /\ UNCHANGED <<published, group, committed, outcome, failures>>

\* eachMessage resolves: the position moves on, unless w lost the partition.
Finish(w) ==
    /\ work' = [work EXCEPT ![w] = Idle]
    /\ \/ work[w].stale /\ UNCHANGED group
       \/ ~work[w].stale /\ Resolve(work[w].partition)

\* processOnce: work and marker together, or nothing for a duplicate.
ProcessOnce(m) ==
    /\ processed' = processed \cup {m}
    /\ effects' = IF m \in processed THEN effects
                  ELSE [effects EXCEPT ![m] = @ + 1]

\* await handler(event) returns.
HandlerReturns(w) ==
    /\ Busy(w) /\ work[w].step = "handle"
    /\ Kind[MessageOf(w)] = "good"
    /\ ProcessOnce(MessageOf(w))
    /\ Finish(w)
    /\ UNCHANGED <<published, committed, parked, failures>>

\* Mutant of Retry: retried for as long as it fails.
RetryForEver(w) == work' = [work EXCEPT ![w].step = "handle"]

\* Mutant of Retry: one attempt too few.
RetryOnceLess(w) ==
    LET attempt == work[w].attempt + 1
    IN work' = [work EXCEPT ![w].attempt = attempt,
                            ![w].step = IF attempt >= MaxRetries
                                        THEN "park" ELSE "handle"]

\* The catch block of handleWithRetry.
Retry(w) ==
    LET attempt == work[w].attempt + 1
    IN work' = [work EXCEPT ![w].attempt = attempt,
                            ![w].step = IF attempt > MaxRetries
                                        THEN "park" ELSE "handle"]

\* Mutant of HandlerThrows: the marker is committed before the work is tried.
MarkThenThrow(w) ==
    /\ Busy(w) /\ work[w].step = "handle"
    /\ Retry(w)
    /\ processed' = processed \cup {MessageOf(w)}
    /\ \/ /\ Kind[MessageOf(w)] = "poison"
          /\ UNCHANGED failures
       \/ /\ Kind[MessageOf(w)] = "good"
          /\ failures < MaxFailures
          /\ failures' = failures + 1
    /\ UNCHANGED <<published, group, committed, effects, parked>>

\* await handler(event) throws: always for a poison message, and for a good one
\* when the database fails, be it on the way back from a commit.
HandlerThrows(w) ==
    /\ Busy(w) /\ work[w].step = "handle"
    /\ Retry(w)
    /\ \/ /\ Kind[MessageOf(w)] = "poison"
          /\ UNCHANGED <<processed, effects, failures>>
       \/ /\ Kind[MessageOf(w)] = "good"
          /\ failures < MaxFailures
          /\ failures' = failures + 1
          /\ \/ UNCHANGED <<processed, effects>>
             \/ ProcessOnce(MessageOf(w))
    /\ UNCHANGED <<published, group, committed, parked>>

\* Mutant of ToDlq: the offset moves on, the dead letter is not sent.
DropMessage(w) ==
    /\ Busy(w) /\ work[w].step = "park"
    /\ Finish(w)
    /\ UNCHANGED <<published, committed, outcome, failures>>

\* toDlq, after which eachMessage resolves.
ToDlq(w) ==
    /\ Busy(w) /\ work[w].step = "park"
    /\ parked' = parked \cup {[partition |-> work[w].partition,
                               offset |-> work[w].offset,
                               attempts |-> work[w].attempt]}
    /\ Finish(w)
    /\ UNCHANGED <<published, committed, processed, effects, failures>>

\* The send to the dead-letter topic fails: eachMessage throws, and kafkajs
\* fetches the message again.
DlqFails(w) ==
    /\ Busy(w) /\ work[w].step = "park"
    /\ failures < MaxFailures
    /\ failures' = failures + 1
    /\ work' = [work EXCEPT ![w] = Idle]
    /\ UNCHANGED <<published, group, committed, outcome>>

EachMessage(w) ==
    \/ \E p \in Partitions : Ignore(w, p) \/ Dispatch(w, p)
    \/ HandlerReturns(w) \/ HandlerThrows(w) \/ ToDlq(w)

Next ==
    \/ \E p \in Partitions : Publish(p) \/ CommitOffset(p)
    \/ \E w \in Instances : Start(w) \/ Stop(w) \/ EachMessage(w) \/ DlqFails(w)
    \/ Rebalance

Spec == Init /\ [][Next]_vars

\* Relays publish what is staged, a stopped instance is started again, and a
\* running one goes on fetching.  Failures, and that a good message fails at
\* all, are never forced and are bounded, so that handlers are tried in earnest.
Fairness ==
    /\ \A p \in Partitions : WF_vars(Publish(p)) /\ WF_vars(CommitOffset(p))
    /\ \A w \in Instances : WF_vars(Start(w)) /\ WF_vars(EachMessage(w))

FairSpec == Spec /\ Fairness

-----------------------------------------------------------------------------
\* What has become of the message at offset n of p.
IsParked(p, n) == \E d \in parked : d.partition = p /\ d.offset = n

SeenTo(p, n) ==
    \/ MessageAt(p, n) \in processed
    \/ IsParked(p, n)
    \/ Kind[MessageAt(p, n)] = "empty"

\* README.md: no lost events.  The group's position, which a crash or rebalance
\* sets back to the committed offset, has only messages behind it that were
\* handled or parked: nothing is skipped by a retry, a send that failed or an
\* owner that finishes late.  Only what a group without a committed offset finds
\* in the topic when it is assigned is passed over.
NothingIsSkipped ==
    \A p \in Partitions :
        \A n \in begin[p]..(position[p] - 1) : SeenTo(p, n)

\* README.md: per-key ordering is preserved.  A message is handled only after
\* all messages before it in its partition were seen to; its later copies, if
\* it is published again, come after it and have no effect.
HandledInOrder ==
    \A p \in Partitions : \A n \in begin[p]..(published[p] - 1) :
        (/\ MessageAt(p, n) \in processed
         /\ \A m \in 0..(n - 1) : MessageAt(p, m) # MessageAt(p, n)) =>
            \A m \in begin[p]..(n - 1) : SeenTo(p, m)

\* ADR 0005: garbage is parked at once, anything else after the first attempt
\* and MaxRetries further ones failed in one delivery.
ParkedAfterAllRetries ==
    \A d \in parked :
        IF Kind[MessageAt(d.partition, d.offset)] = "garbage"
        THEN d.attempts = 0
        ELSE d.attempts = MaxRetries + 1

\* ADR 0005: no poison message halts its partition.  Every message is seen to,
\* but for those a group without a committed offset finds when it is assigned.
PartitionsMoveOn ==
    \A p \in Partitions : \A n \in 0..(Len(Log[p]) - 1) :
        <>(SeenTo(p, n) \/ n < begin[p])

Appeared == UNION {{MessageAt(p, n) : n \in 0..(published[p] - 1)} :
                      p \in Partitions}

ParkedEvents ==
    {m \in {MessageAt(d.partition, d.offset) : d \in parked} :
        Kind[m] # "garbage"}

Bus == INSTANCE EventBus WITH
    Orders <- {m.orderId : m \in Messages},
    UnreliableConsumers <- {Consumer},
    outbox <- <<>>,
    published <- Appeared,
    processed <- [c \in {Consumer} |-> processed],
    deadLetters <- [c \in {Consumer} |-> ParkedEvents]

\* The group is the consumer that EventBus, and so the whole saga, builds on:
\* all its offsets, retries and rebalances amount to handling a published event
\* whose marker is missing, marker and work together, or to parking one.
DeliversAsAssumed ==
    [][\/ \E m \in Appeared : /\ Bus!ProcessOnce(Consumer, m)
                             /\ effects' = [effects EXCEPT ![m] = @ + 1]
                             /\ UNCHANGED ParkedEvents
       \/ Bus!DeadLetter(Consumer) /\ UNCHANGED effects]_<<
          processed, effects, ParkedEvents>>
=============================================================================
