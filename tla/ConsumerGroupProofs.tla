------------------------ MODULE ConsumerGroupProofs ------------------------
(***************************************************************************)
(* Proofs about ConsumerGroup, for any number of instances, partitions and *)
(* messages, any log, any number of retries and failures.                  *)
(*                                                                         *)
(* The heart of it is what a committed offset and a message at work stand  *)
(* for: everything before either of them was seen to.  A rebalance sets    *)
(* positions back to committed offsets, and a member that finishes late    *)
(* moves nothing; so no position ever passes over a message.               *)
(***************************************************************************)
EXTENDS ConsumerGroup, TLAPS

\* The messages of p since the group began it, up to offset n, were seen to.
SeenBefore(p, n) == \A k \in begin[p]..(n - 1) : SeenTo(p, k)

\* Per partition, the variables are functions.
ShapeInv ==
    /\ position \in [Partitions -> Nat]
    /\ begin \in [Partitions -> Nat]
    /\ committed \in [Partitions -> Int]
    /\ DOMAIN work = Instances

\* What is behind a committed offset was seen to.
CommittedInv ==
    \A p \in Partitions :
        committed[p] # NoOffset =>
            /\ begin[p] <= committed[p]
            /\ SeenBefore(p, committed[p])

\* What the item that instance w is at says of its message and its partition.
ItemFits(w, item) ==
    LET kind == Kind[MessageAt(item.partition, item.offset)]
    IN  /\ item \in Work
        /\ item.offset < published[item.partition]
        /\ kind # "empty"
        /\ item.step = "park" =>
              item.attempt = IF kind = "garbage" THEN 0 ELSE MaxRetries + 1
        /\ item.step = "handle" => kind # "garbage" /\ item.attempt <= MaxRetries
        /\ ~item.stale => /\ owner[item.partition] = w
                          /\ item.offset = position[item.partition]
        /\ SeenBefore(item.partition, item.offset)

WorkInv == \A w \in Instances : Busy(w) => ItemFits(w, work[w])

\* Only what was published is processed.
AppearedInv == processed \subseteq Appeared

IInv ==
    /\ TypeOK
    /\ ShapeInv
    /\ CommittedInv
    /\ NothingIsSkipped
    /\ WorkInv
    /\ AppearedInv
    /\ ParkedAfterAllRetries

-----------------------------------------------------------------------------
\* The messages of a log are messages, and have a kind.
LEMMA LogHoldsMessages ==
    ASSUME NEW p \in Partitions, NEW n \in Nat, n < Len(Log[p])
    PROVE  MessageAt(p, n) \in Messages /\ Kind[MessageAt(p, n)] \in Kinds
<1>1. Log[p] \in Seq(Messages) /\ n + 1 \in 1..Len(Log[p])
  BY GroupAssumption
<1>2. MessageAt(p, n) \in Messages
  BY <1>1 DEF MessageAt
<1> QED
  BY <1>2, GroupAssumption

\* What was seen to remains so, as long as markers and dead letters only grow.
LEMMA SeenToRemains ==
    ASSUME processed \subseteq processed', parked \subseteq parked',
           NEW p, NEW n, SeenTo(p, n)
    PROVE  SeenTo(p, n)'
BY DEF SeenTo, IsParked, MessageAt

\* What has appeared remains so, as long as logs only grow.
LEMMA AppearedRemains ==
    ASSUME TypeOK, \A p \in Partitions : published'[p] \in Nat /\ published[p] <= published'[p]
    PROVE  Appeared \subseteq Appeared'
<1> SUFFICES ASSUME NEW p \in Partitions, NEW n \in 0..(published[p] - 1)
             PROVE  MessageAt(p, n) \in Appeared'
  BY DEF Appeared
<1>1. published[p] \in Nat /\ published'[p] \in Nat /\ published[p] <= published'[p]
  BY DEF TypeOK
<1>2. n \in 0..(published'[p] - 1)
  BY <1>1
<1> QED
  BY <1>2 DEF Appeared, MessageAt

\* A published message has appeared.
LEMMA PublishedHasAppeared ==
    ASSUME TypeOK, NEW p \in Partitions, NEW n \in Nat, n < published[p]
    PROVE  MessageAt(p, n) \in Appeared /\ MessageAt(p, n) \in Messages
           /\ Kind[MessageAt(p, n)] \in Kinds
<1>1. published[p] \in Nat /\ published[p] <= Len(Log[p]) /\ Len(Log[p]) \in Nat
  BY GroupAssumption DEF TypeOK
<1>2. n \in 0..(published[p] - 1) /\ n < Len(Log[p])
  BY <1>1
<1>3. MessageAt(p, n) \in Messages /\ Kind[MessageAt(p, n)] \in Kinds
  BY <1>2, LogHoldsMessages
<1>4. MessageAt(p, n) \in {MessageAt(p, k) : k \in 0..(published[p] - 1)}
  BY <1>2
<1> QED
  BY <1>3, <1>4 DEF Appeared

-----------------------------------------------------------------------------
\* At the start nothing is published.
LEMMA InitIInv == Init => IInv
<1> SUFFICES ASSUME Init PROVE IInv
  OBVIOUS
<1>1. \A p \in Partitions : Len(Log[p]) \in Nat
  BY GroupAssumption
<1>2. \A p \in Partitions : committed[p] \in {0, -1}
  BY DEF Init, NoOffset
<1>3. TypeOK
  BY <1>1, <1>2, GroupAssumption DEF Init, TypeOK, NoOffset
<1>4. ShapeInv
  BY DEF Init, ShapeInv, NoOffset
<1>5. CommittedInv /\ NothingIsSkipped
  BY <1>2 DEF Init, CommittedInv, SeenBefore, NothingIsSkipped, NoOffset
<1>6. WorkInv /\ AppearedInv /\ ParkedAfterAllRetries
  BY DEF Init, WorkInv, AppearedInv, ParkedAfterAllRetries, Busy
<1> QED
  BY <1>3, <1>4, <1>5, <1>6 DEF IInv

\* A relay adds a message behind those that anything is said about.
LEMMA PublishKeepsIInv ==
    ASSUME IInv, NEW p \in Partitions, Publish(p)
    PROVE  IInv'
<1> USE DEF Publish, group, outcome
<1>1. /\ published' = [published EXCEPT ![p] = @ + 1]
      /\ published[p] < Len(Log[p]) /\ Len(Log[p]) \in Nat
      /\ \A q \in Partitions : /\ published[q] \in Nat /\ published[q] <= published'[q]
                               /\ published'[q] \in Nat /\ published'[q] <= Len(Log[q])
  BY GroupAssumption DEF IInv, TypeOK
<1>2. TypeOK'
  <2>1. published' \in [Partitions -> Nat]
    BY <1>1 DEF IInv, TypeOK
  <2>2. /\ \A q \in Partitions : position'[q] \in 0..published'[q]
        /\ \A q \in Partitions : begin'[q] \in 0..position'[q]
        /\ \A q \in Partitions : committed'[q] \in -1..published'[q]
    BY <1>1 DEF IInv, TypeOK
  <2>3. \A w \in Instances :
           \/ work'[w] = Idle
           \/ /\ work'[w] \in Work
              /\ work'[w].offset < published'[work'[w].partition]
              /\ work'[w].attempt \in 0..(MaxRetries + 1)
    BY <1>1 DEF IInv, TypeOK, Work
  <2>4. \A d \in parked' : /\ d \in [partition : Partitions, offset : Nat, attempts : Nat]
                           /\ d.offset < published'[d.partition]
    BY <1>1 DEF IInv, TypeOK
  <2> QED
    BY <1>1, <2>1, <2>2, <2>3, <2>4 DEF IInv, TypeOK
<1>3. \A q, n : SeenTo(q, n) => SeenTo(q, n)'
  BY SeenToRemains
<1>4. ShapeInv' /\ CommittedInv' /\ NothingIsSkipped'
  BY <1>3 DEF IInv, ShapeInv, CommittedInv, SeenBefore, NothingIsSkipped
<1>5. WorkInv'
  <2> SUFFICES ASSUME NEW w \in Instances, Busy(w)' PROVE ItemFits(w, work[w])'
    BY DEF WorkInv
  <2>1. Busy(w) /\ work' = work /\ ItemFits(w, work[w])
    BY DEF IInv, WorkInv, Busy
  <2>2. work[w].partition \in Partitions /\ work[w].offset \in Nat
    BY <2>1 DEF ItemFits, Work
  <2>3. work[w].offset < published'[work[w].partition]
    BY <1>1, <2>1, <2>2 DEF ItemFits
  <2>4. SeenBefore(work[w].partition, work[w].offset)'
    BY <1>3, <2>1 DEF ItemFits, SeenBefore
  <2> QED
    BY <2>1, <2>3, <2>4 DEF ItemFits, MessageAt
<1>6. AppearedInv'
  BY <1>1, AppearedRemains DEF IInv, AppearedInv
<1> QED
  BY <1>2, <1>4, <1>5, <1>6 DEF IInv, ParkedAfterAllRetries, MessageAt

\* The offset that is committed is a position, and nothing is skipped before it.
LEMMA CommitOffsetKeepsIInv ==
    ASSUME IInv, NEW p \in Partitions, CommitOffset(p)
    PROVE  IInv'
<1> USE DEF CommitOffset, outcome
<1>1. committed' = [committed EXCEPT ![p] = position[p]] /\ position[p] \in Nat
      /\ committed \in [Partitions -> Int]
  BY DEF IInv, ShapeInv
<1>2. TypeOK'
  BY <1>1 DEF IInv, TypeOK
<1>3. ShapeInv'
  BY <1>1 DEF IInv, ShapeInv
<1>4. \A q, n : SeenTo(q, n) <=> SeenTo(q, n)'
  BY DEF SeenTo, IsParked, MessageAt
<1>5. CommittedInv'
  <2> SUFFICES ASSUME NEW q \in Partitions, committed'[q] # NoOffset
               PROVE  begin[q] <= committed'[q] /\ SeenBefore(q, committed'[q])
    BY <1>4 DEF CommittedInv, SeenBefore
  <2>1. CASE q = p
    BY <1>1, <2>1 DEF IInv, TypeOK, NothingIsSkipped, SeenBefore
  <2>2. CASE q # p
    BY <1>1, <2>2 DEF IInv, CommittedInv
  <2> QED
    BY <2>1, <2>2
<1>6. WorkInv'
  BY <1>4 DEF IInv, WorkInv, Busy, ItemFits, SeenBefore, MessageAt
<1> QED
  BY <1>2, <1>3, <1>4, <1>5, <1>6 DEF IInv, NothingIsSkipped, AppearedInv, Appeared,
     ParkedAfterAllRetries, MessageAt

\* An item of a lost partition keeps its message and its attempts.
LEMMA StaleItem ==
    ASSUME NEW item \in Work
    PROVE  LET stale == [item EXCEPT !.stale = TRUE]
           IN  /\ stale \in Work
               /\ stale.partition = item.partition /\ stale.offset = item.offset
               /\ stale.step = item.step /\ stale.attempt = item.attempt
               /\ stale.stale = TRUE
BY DEF Work

\* A new assignment starts every partition at its committed offset, or at the end
\* of the log; what the members are at no longer counts for their partitions.
LEMMA AssignKeepsIInv ==
    ASSUME IInv, NEW members \in SUBSET Instances, Assign(members),
           UNCHANGED <<published, committed, outcome>>,
           failures' \in 0..MaxFailures, DOMAIN work' = Instances,
           \A v \in Instances :
               \/ work'[v] = Idle
               \/ Busy(v) /\ work'[v] = [work[v] EXCEPT !.stale = TRUE]
    PROVE  IInv'
<1> USE DEF Assign, outcome
<1>1. /\ \A p \in Partitions : committed[p] \in Int /\ published[p] \in Nat
                               /\ begin[p] \in Nat
      /\ \A p \in Partitions : committed[p] \in -1..published[p]
      /\ \A p \in Partitions : committed[p] # NoOffset => begin[p] <= committed[p]
  BY DEF IInv, TypeOK, ShapeInv, CommittedInv
<1>2. \A p \in Partitions : /\ position'[p] = StartOffset(p)
                            /\ begin'[p] = IF committed[p] = NoOffset
                                           THEN published[p] ELSE begin[p]
  OBVIOUS
<1>3. \A p \in Partitions : /\ position'[p] \in Nat /\ begin'[p] \in Nat
                            /\ position'[p] \in 0..published[p]
                            /\ begin'[p] \in 0..position'[p]
                            /\ begin'[p] \in {begin[p], published[p]}
  BY <1>1, <1>2 DEF StartOffset, NoOffset
<1>4. \A v \in Instances :
         \/ work'[v] = Idle
         \/ /\ Busy(v) /\ work[v] \in Work /\ work'[v] \in Work
            /\ work'[v].partition = work[v].partition /\ work'[v].offset = work[v].offset
            /\ work'[v].step = work[v].step /\ work'[v].attempt = work[v].attempt
            /\ work'[v].stale = TRUE
  <2> SUFFICES ASSUME NEW v \in Instances, Busy(v),
                      work'[v] = [work[v] EXCEPT !.stale = TRUE]
               PROVE  /\ work[v] \in Work /\ work'[v] \in Work
                      /\ work'[v].partition = work[v].partition
                      /\ work'[v].offset = work[v].offset
                      /\ work'[v].step = work[v].step
                      /\ work'[v].attempt = work[v].attempt
                      /\ work'[v].stale = TRUE
    OBVIOUS
  <2>1. work[v] \in Work
    BY DEF IInv, WorkInv, ItemFits
  <2> QED
    BY <2>1, StaleItem
<1>5. TypeOK'
  <2>1. owner' \in [Partitions -> up' \cup {Nobody}]
    OBVIOUS
  <2>2. \A w \in Instances :
           \/ work'[w] = Idle
           \/ /\ work'[w] \in Work
              /\ work'[w].offset < published'[work'[w].partition]
              /\ work'[w].attempt \in 0..(MaxRetries + 1)
    BY <1>4 DEF IInv, TypeOK, Busy
  <2> QED
    BY <1>3, <2>1, <2>2 DEF IInv, TypeOK
<1>6. ShapeInv'
  BY <1>3 DEF IInv, ShapeInv
<1>7. \A p, n : SeenTo(p, n) <=> SeenTo(p, n)'
  BY DEF SeenTo, IsParked, MessageAt
<1>8. CommittedInv'
  BY <1>2, <1>7 DEF IInv, CommittedInv, SeenBefore
<1>9. NothingIsSkipped'
  <2> SUFFICES ASSUME NEW p \in Partitions, NEW n \in begin'[p]..(position'[p] - 1)
               PROVE  SeenTo(p, n)'
    BY DEF NothingIsSkipped
  <2>1. committed[p] # NoOffset
    BY <1>1, <1>2 DEF StartOffset
  <2> QED
    BY <1>2, <1>7, <2>1 DEF IInv, CommittedInv, SeenBefore, StartOffset
<1>10. WorkInv'
  <2> SUFFICES ASSUME NEW w \in Instances, Busy(w)' PROVE ItemFits(w, work[w])'
    BY DEF WorkInv
  <2>1. /\ Busy(w) /\ work[w] \in Work /\ work'[w] \in Work
        /\ work'[w].partition = work[w].partition /\ work'[w].offset = work[w].offset
        /\ work'[w].step = work[w].step /\ work'[w].attempt = work[w].attempt
        /\ work'[w].stale = TRUE
    BY <1>4 DEF Busy
  <2>2. ItemFits(w, work[w])
    BY <2>1 DEF IInv, WorkInv
  <2>3. SeenBefore(work[w].partition, work[w].offset)'
    <3> SUFFICES ASSUME NEW k \in begin'[work[w].partition]..(work[w].offset - 1)
                 PROVE  SeenTo(work[w].partition, k)
      BY <1>7, <2>1 DEF SeenBefore
    <3>1. work[w].partition \in Partitions /\ work[w].offset \in Nat
      BY <2>1 DEF Work
    <3>2. work[w].offset < published[work[w].partition]
      BY <2>2 DEF ItemFits
    <3>3. begin'[work[w].partition] = begin[work[w].partition]
      BY <1>1, <1>3, <3>1, <3>2
    <3> QED
      BY <2>2, <3>3 DEF ItemFits, SeenBefore
  <2> QED
    BY <2>1, <2>2, <2>3 DEF ItemFits, MessageAt
<1> QED
  BY <1>5, <1>6, <1>8, <1>9, <1>10 DEF IInv, AppearedInv, Appeared,
     ParkedAfterAllRetries, MessageAt

\* Members come, go, and exchange their partitions.
LEMMA MembershipKeepsIInv ==
    ASSUME IInv, \/ Rebalance
                 \/ \E w \in Instances : Start(w) \/ Stop(w)
    PROVE  IInv'
<1>1. DOMAIN work = Instances /\ up \subseteq Instances /\ failures \in 0..MaxFailures
      /\ MaxFailures \in Nat
  BY GroupAssumption DEF IInv, TypeOK, ShapeInv
<1>2. DOMAIN Orphaned = Instances
      /\ \A v \in Instances : \/ Orphaned[v] = Idle
                              \/ Busy(v) /\ Orphaned[v] = [work[v] EXCEPT !.stale = TRUE]
  BY DEF Orphaned
<1>3. ASSUME NEW w \in Instances, Start(w) PROVE IInv'
  BY <1>1, <1>2, <1>3, AssignKeepsIInv DEF Start
<1>4. ASSUME NEW w \in Instances, Stop(w) PROVE IInv'
  <2>1. work' = [Orphaned EXCEPT ![w] = Idle]
    BY <1>4 DEF Stop
  <2>2. DOMAIN work' = Instances
        /\ \A v \in Instances : \/ work'[v] = Idle
                                \/ Busy(v) /\ work'[v] = [work[v] EXCEPT !.stale = TRUE]
    BY <1>2, <2>1
  <2>3. failures' \in 0..MaxFailures
    BY <1>1, <1>4 DEF Stop
  <2>4. Assign(up \ {w}) /\ UNCHANGED <<published, committed, outcome>>
    BY <1>4 DEF Stop
  <2>5. up \ {w} \in SUBSET Instances
    BY <1>1
  <2> QED
    BY <2>2, <2>3, <2>4, <2>5, AssignKeepsIInv
<1>5. ASSUME Rebalance PROVE IInv'
  <2>1. failures' \in 0..MaxFailures
    BY <1>1, <1>5 DEF Rebalance
  <2> QED
    BY <1>1, <1>2, <1>5, <2>1, AssignKeepsIInv DEF Rebalance
<1> QED
  BY <1>3, <1>4, <1>5

-----------------------------------------------------------------------------
\* A dead letter stands for a published message, and says how often it was tried.
LetterFits(d) ==
    /\ d \in [partition : Partitions, offset : Nat, attempts : Nat]
    /\ d.offset < published[d.partition]
    /\ d.attempts = IF Kind[MessageAt(d.partition, d.offset)] = "garbage"
                    THEN 0 ELSE MaxRetries + 1

\* The position of a partition of w's moves over the message at offset n, which
\* was seen to.
MovesOver(w, p, n) ==
    /\ owner[p] = w
    /\ position[p] = n /\ n < published[p]
    /\ position' = [position EXCEPT ![p] = @ + 1]
    /\ SeenTo(p, n)'

\* What has appeared are messages.
LEMMA AppearedAreMessages == TypeOK => Appeared \subseteq Messages
<1> SUFFICES ASSUME TypeOK, NEW p \in Partitions, NEW n \in 0..(published[p] - 1)
             PROVE  MessageAt(p, n) \in Messages
  BY DEF Appeared
<1>1. n \in Nat /\ n < published[p]
  BY DEF TypeOK
<1> QED
  BY <1>1, PublishedHasAppeared

\* Instance w's step on the message at hand: a new item that fits, or none, and
\* then the position may move over the message if it was seen to.
LEMMA HandlingKeepsIInv ==
    ASSUME IInv, UNCHANGED <<published, committed, up, owner, begin>>,
           processed \subseteq processed', processed' \subseteq Appeared,
           effects' \in [Messages -> Nat],
           parked \subseteq parked', \A d \in parked' \ parked : LetterFits(d),
           failures' \in 0..MaxFailures, resolved' \subseteq Partitions,
           NEW w \in Instances, NEW item,
           \/ work' = [work EXCEPT ![w] = item]
           \/ work' = work /\ work[w] = item,
           \/ position' = position /\ (item = Idle \/ ItemFits(w, item))
           \/ item = Idle /\ \E p \in Partitions, n \in Nat : MovesOver(w, p, n)
    PROVE  IInv'
<1>1. \A p, n : SeenTo(p, n) => SeenTo(p, n)'
  BY SeenToRemains
<1>2. \A p, n : SeenBefore(p, n) => SeenBefore(p, n)'
  BY <1>1 DEF SeenBefore
<1>3. DOMAIN work = Instances /\ DOMAIN work' = Instances
      /\ work'[w] = item /\ \A v \in Instances \ {w} : work'[v] = work[v]
  BY DEF IInv, ShapeInv
<1>4. /\ position \in [Partitions -> Nat] /\ position' \in [Partitions -> Nat]
      /\ \A p \in Partitions : /\ position'[p] \in {position[p], position[p] + 1}
                               /\ position'[p] # position[p] =>
                                     \E n \in Nat : MovesOver(w, p, n)
  BY DEF IInv, ShapeInv, MovesOver
<1>5. \A p \in Partitions : /\ position'[p] \in 0..published[p]
                            /\ begin[p] \in 0..position'[p]
  <2> TAKE p \in Partitions
  <2>1. position[p] \in Nat /\ published[p] \in Nat /\ position[p] \in 0..published[p]
        /\ begin[p] \in 0..position[p]
    BY DEF IInv, TypeOK, ShapeInv
  <2>2. \/ position'[p] = position[p]
        \/ position'[p] = position[p] + 1 /\ position[p] < published[p]
    BY <1>4, <2>1 DEF MovesOver
  <2> QED
    BY <2>1, <2>2
<1>6. WorkInv'
  <2> SUFFICES ASSUME NEW v \in Instances, Busy(v)' PROVE ItemFits(v, work[v])'
    BY DEF WorkInv
  <2>1. CASE v = w
    <3>1. work'[v] = item /\ position' = position /\ ItemFits(w, item)
      BY <1>3, <2>1 DEF Busy
    <3> QED
      BY <1>2, <2>1, <3>1 DEF ItemFits, MessageAt
  <2>2. CASE v # w
    <3>1. work'[v] = work[v] /\ Busy(v) /\ ItemFits(v, work[v])
      BY <1>3, <2>2 DEF IInv, WorkInv, Busy
    <3>2. work[v].partition \in Partitions
      BY <3>1 DEF ItemFits, Work
    <3>3. ~work[v].stale => position'[work[v].partition] = position[work[v].partition]
      BY <1>4, <2>2, <3>1, <3>2 DEF ItemFits, MovesOver
    <3> QED
      BY <1>2, <3>1, <3>3 DEF ItemFits, MessageAt
  <2> QED
    BY <2>1, <2>2
<1>7. TypeOK'
  <2>1. \A v \in Instances :
           \/ work'[v] = Idle
           \/ /\ work'[v] \in Work
              /\ work'[v].offset < published'[work'[v].partition]
              /\ work'[v].attempt \in 0..(MaxRetries + 1)
    <3> SUFFICES ASSUME NEW v \in Instances, work'[v] # Idle
                 PROVE  /\ work'[v] \in Work
                        /\ work'[v].offset < published'[work'[v].partition]
                        /\ work'[v].attempt \in 0..(MaxRetries + 1)
      OBVIOUS
    <3>1. ItemFits(v, work[v])'
      BY <1>6 DEF WorkInv, Busy
    <3>2. work'[v] \in Work /\ work'[v].offset < published'[work'[v].partition]
          /\ work'[v].step \in {"handle", "park"} /\ work'[v].attempt \in Nat
          /\ MaxRetries \in Nat
      BY <3>1, GroupAssumption DEF ItemFits, Work
    <3> QED
      BY <3>1, <3>2 DEF ItemFits
  <2>2. \A d \in parked' : /\ d \in [partition : Partitions, offset : Nat, attempts : Nat]
                           /\ d.offset < published'[d.partition]
    BY DEF IInv, TypeOK, LetterFits
  <2>3. processed' \subseteq Messages
    BY AppearedAreMessages DEF IInv
  <2> QED
    BY <1>5, <2>1, <2>2, <2>3 DEF IInv, TypeOK
<1>8. ShapeInv' /\ CommittedInv'
  BY <1>2, <1>3, <1>4 DEF IInv, ShapeInv, CommittedInv
<1>9. NothingIsSkipped'
  <2> SUFFICES ASSUME NEW p \in Partitions, NEW n \in begin[p]..(position'[p] - 1)
               PROVE  SeenTo(p, n)'
    BY DEF NothingIsSkipped
  <2>1. position[p] \in Nat /\ begin[p] \in Nat
    BY DEF IInv, ShapeInv
  <2>2. CASE n < position[p]
    BY <1>1, <2>1, <2>2 DEF IInv, NothingIsSkipped
  <2>3. CASE ~(n < position[p])
    <3>1. position'[p] = position[p] + 1 /\ n = position[p]
      BY <1>4, <2>1, <2>3
    <3> QED
      BY <1>4, <2>1, <3>1 DEF MovesOver
  <2> QED
    BY <2>2, <2>3
<1>10. AppearedInv' /\ ParkedAfterAllRetries'
  BY DEF IInv, AppearedInv, Appeared, ParkedAfterAllRetries, LetterFits, MessageAt
<1> QED
  BY <1>6, <1>7, <1>8, <1>9, <1>10 DEF IInv

\* What w is at, and its message.
LEMMA AtWork ==
    ASSUME IInv, NEW w \in Instances, Busy(w)
    PROVE  /\ ItemFits(w, work[w]) /\ work[w] \in Work
           /\ work[w].partition \in Partitions /\ work[w].offset \in Nat
           /\ work[w].offset < published[work[w].partition]
           /\ MessageOf(w) = MessageAt(work[w].partition, work[w].offset)
           /\ MessageOf(w) \in Appeared /\ MessageOf(w) \in Messages
<1>1. ItemFits(w, work[w])
  BY DEF IInv, WorkInv
<1>2. work[w] \in Work /\ work[w].partition \in Partitions /\ work[w].offset \in Nat
      /\ work[w].offset < published[work[w].partition]
  BY <1>1 DEF ItemFits, Work
<1> QED
  BY <1>1, <1>2, PublishedHasAppeared DEF IInv, MessageOf

\* processOnce adds the message at hand, and perhaps its work.
LEMMA OnceIsTyped ==
    ASSUME IInv, NEW m \in Messages, m \in Appeared, ProcessOnce(m)
    PROVE  /\ processed \subseteq processed' /\ processed' \subseteq Appeared
           /\ effects' \in [Messages -> Nat]
BY DEF IInv, TypeOK, AppearedInv, ProcessOnce

\* A message without a value is passed over.
LEMMA IgnoreKeepsIInv ==
    ASSUME IInv, NEW w \in Instances, NEW p \in Partitions, Ignore(w, p)
    PROVE  IInv'
<1>1. /\ UNCHANGED <<published, committed, up, owner, begin>>
      /\ UNCHANGED <<processed, effects, parked, failures, work>>
      /\ resolved' = resolved \cup {p}
      /\ position' = [position EXCEPT ![p] = @ + 1]
      /\ ~Busy(w) /\ owner[p] = w /\ position[p] < published[p]
      /\ Kind[MessageAt(p, position[p])] = "empty"
  BY DEF Ignore, Resolve, HasNext, outcome
<1>2. work' = work /\ work[w] = Idle
  BY <1>1 DEF Busy
<1>3. PICK n \in Nat : n = position[p]
  BY DEF IInv, ShapeInv
<1>4. MovesOver(w, p, n)
  BY <1>1, <1>3 DEF MovesOver, SeenTo, MessageAt
<1>5. /\ processed' \subseteq Appeared /\ effects' \in [Messages -> Nat]
      /\ failures' \in 0..MaxFailures /\ resolved' \subseteq Partitions
  BY <1>1 DEF IInv, TypeOK, AppearedInv
<1> QED
  BY <1>1, <1>2, <1>4, <1>5, HandlingKeepsIInv

\* The item that dispatch begins is at the position of a partition of its own.
LEMMA DispatchKeepsIInv ==
    ASSUME IInv, NEW w \in Instances, NEW p \in Partitions, Dispatch(w, p)
    PROVE  IInv'
<1> DEFINE kind == Kind[MessageAt(p, position[p])]
           item == [step |-> IF kind = "garbage" THEN "park" ELSE "handle",
                    partition |-> p, offset |-> position[p], attempt |-> 0,
                    stale |-> FALSE]
<1>1. /\ UNCHANGED <<published, committed, group, outcome, failures>>
      /\ work' = [work EXCEPT ![w] = item]
      /\ owner[p] = w /\ position[p] < published[p] /\ kind # "empty"
  BY DEF Dispatch, HasNext
<1>2. item \in Work
  BY DEF IInv, ShapeInv, Work
<1>3. SeenBefore(p, position[p])
  BY DEF IInv, NothingIsSkipped, SeenBefore
<1>4. ItemFits(w, item)
  BY <1>1, <1>2, <1>3, GroupAssumption DEF ItemFits
<1>5. /\ processed' \subseteq Appeared /\ effects' \in [Messages -> Nat]
      /\ failures' \in 0..MaxFailures /\ resolved' \subseteq Partitions
  BY <1>1 DEF IInv, TypeOK, AppearedInv, outcome, group
<1> HIDE DEF item
<1> QED
  BY <1>1, <1>4, <1>5, HandlingKeepsIInv DEF outcome, group

\* Once the message at hand is seen to, its item is done with.
LEMMA FinishKeepsIInv ==
    ASSUME IInv, NEW w \in Instances, Busy(w), Finish(w),
           UNCHANGED <<published, committed>>,
           processed \subseteq processed', processed' \subseteq Appeared,
           effects' \in [Messages -> Nat],
           parked \subseteq parked', \A d \in parked' \ parked : LetterFits(d),
           failures' \in 0..MaxFailures,
           NEW p \in Partitions, p = work[w].partition,
           NEW n \in Nat, n = work[w].offset, SeenTo(p, n)'
    PROVE  IInv'
<1>1. work' = [work EXCEPT ![w] = Idle]
  BY DEF Finish
<1>2. CASE work[w].stale /\ UNCHANGED group
  BY <1>1, <1>2, HandlingKeepsIInv DEF group, IInv, TypeOK
<1>3. CASE ~work[w].stale /\ Resolve(p)
  <2>1. MovesOver(w, p, n)
    BY <1>3, AtWork DEF MovesOver, ItemFits, Resolve
  <2>2. resolved' \subseteq Partitions /\ UNCHANGED <<up, owner, begin>>
    BY <1>3 DEF Resolve, IInv, TypeOK
  <2> QED
    BY <1>1, <2>1, <2>2, HandlingKeepsIInv
<1> QED
  BY <1>2, <1>3 DEF Finish

\* A handler that returns has left the marker of its message.
LEMMA HandlerReturnsKeepsIInv ==
    ASSUME IInv, NEW w \in Instances, HandlerReturns(w)
    PROVE  IInv'
<1>1. /\ Busy(w) /\ ProcessOnce(MessageOf(w)) /\ Finish(w)
      /\ UNCHANGED <<published, committed, parked, failures>>
  BY DEF HandlerReturns
<1>2. PICK p \in Partitions, n \in Nat :
         p = work[w].partition /\ n = work[w].offset /\ MessageOf(w) = MessageAt(p, n)
  BY <1>1, AtWork
<1>3. SeenTo(p, n)'
  BY <1>1, <1>2 DEF SeenTo, ProcessOnce, MessageAt
<1>4. /\ processed \subseteq processed' /\ processed' \subseteq Appeared
      /\ effects' \in [Messages -> Nat]
  BY <1>1, AtWork, OnceIsTyped
<1>5. failures' \in 0..MaxFailures
  BY <1>1 DEF IInv, TypeOK
<1> QED
  BY <1>1, <1>2, <1>3, <1>4, <1>5, FinishKeepsIInv

\* The letter to the dead-letter topic says how often its message was tried.
LEMMA ToDlqKeepsIInv ==
    ASSUME IInv, NEW w \in Instances, ToDlq(w)
    PROVE  IInv'
<1> DEFINE letter == [partition |-> work[w].partition, offset |-> work[w].offset,
                      attempts |-> work[w].attempt]
<1>1. /\ Busy(w) /\ work[w].step = "park" /\ Finish(w)
      /\ parked' = parked \cup {letter}
      /\ UNCHANGED <<published, committed, processed, effects, failures>>
  BY DEF ToDlq
<1>2. PICK p \in Partitions, n \in Nat : p = work[w].partition /\ n = work[w].offset
  BY <1>1, AtWork
<1>3. SeenTo(p, n)'
  <2>1. letter \in parked' /\ letter.partition = p /\ letter.offset = n
    BY <1>1, <1>2
  <2> QED
    BY <2>1 DEF SeenTo, IsParked
<1>4. ItemFits(w, work[w]) /\ work[w] \in Work
  BY <1>1, AtWork
<1>5. LetterFits(letter)
  BY <1>1, <1>4 DEF LetterFits, ItemFits, Work
<1>6. /\ processed' \subseteq Appeared /\ effects' \in [Messages -> Nat]
      /\ failures' \in 0..MaxFailures
  BY <1>1 DEF IInv, TypeOK, AppearedInv
<1> HIDE DEF letter
<1> QED
  BY <1>1, <1>2, <1>3, <1>5, <1>6, FinishKeepsIInv

\* An attempt that fails is counted, and the last of them leads to the dead
\* letters.
LEMMA HandlerThrowsKeepsIInv ==
    ASSUME IInv, NEW w \in Instances, HandlerThrows(w)
    PROVE  IInv'
<1> DEFINE attempt == work[w].attempt + 1
           step == IF attempt > MaxRetries THEN "park" ELSE "handle"
           item == [work[w] EXCEPT !.attempt = attempt, !.step = step]
<1>1. /\ Busy(w) /\ work[w].step = "handle" /\ Retry(w)
      /\ UNCHANGED <<published, group, committed, parked>>
  BY DEF HandlerThrows
<1>2. ItemFits(w, work[w]) /\ work[w] \in Work
  BY <1>1, AtWork
<1>3. work' = [work EXCEPT ![w] = item]
  BY <1>1, <1>2 DEF Retry, IInv, ShapeInv, Work
<1>4. attempt \in Nat /\ attempt <= MaxRetries + 1 /\ MaxRetries \in Nat
  BY <1>1, <1>2, GroupAssumption DEF ItemFits, Work
<1>5. /\ item \in Work /\ item.attempt = attempt /\ item.step = step
      /\ item.partition = work[w].partition /\ item.offset = work[w].offset
      /\ item.stale = work[w].stale
  <2>1. step \in {"handle", "park"}
    OBVIOUS
  <2> HIDE DEF attempt, step
  <2> QED
    BY <1>2, <1>4, <2>1 DEF Work
<1> HIDE DEF item
<1>6. ItemFits(w, item)
  BY <1>1, <1>2, <1>4, <1>5 DEF ItemFits
<1>7. /\ processed \subseteq processed' /\ processed' \subseteq Appeared
      /\ effects' \in [Messages -> Nat] /\ failures' \in 0..MaxFailures
  <2>1. \/ UNCHANGED <<processed, effects>>
        \/ ProcessOnce(MessageOf(w))
    BY DEF HandlerThrows
  <2>2. failures' \in 0..MaxFailures
    BY GroupAssumption DEF HandlerThrows, IInv, TypeOK
  <2>3. CASE UNCHANGED <<processed, effects>>
    BY <2>2, <2>3 DEF IInv, TypeOK, AppearedInv
  <2>4. CASE ProcessOnce(MessageOf(w))
    BY <1>1, <2>2, <2>4, AtWork, OnceIsTyped
  <2> QED
    BY <2>1, <2>3, <2>4
<1> QED
  BY <1>1, <1>3, <1>6, <1>7, HandlingKeepsIInv DEF group, IInv, TypeOK

\* A dead letter that could not be sent is fetched again as a message.
LEMMA DlqFailsKeepsIInv ==
    ASSUME IInv, NEW w \in Instances, DlqFails(w)
    PROVE  IInv'
<1>1. /\ UNCHANGED <<published, group, committed, outcome>>
      /\ work' = [work EXCEPT ![w] = Idle]
      /\ failures' \in 0..MaxFailures
  BY GroupAssumption DEF DlqFails, IInv, TypeOK
<1> QED
  BY <1>1, HandlingKeepsIInv DEF group, outcome, IInv, TypeOK, AppearedInv

\* Every step keeps the invariant.
LEMMA NextKeepsIInv == IInv /\ [Next]_vars => IInv'
<1> SUFFICES ASSUME IInv, [Next]_vars PROVE IInv'
  OBVIOUS
<1>1. CASE \E p \in Partitions : Publish(p) \/ CommitOffset(p)
  BY <1>1, PublishKeepsIInv, CommitOffsetKeepsIInv
<1>2. CASE Rebalance \/ \E w \in Instances : Start(w) \/ Stop(w)
  BY <1>2, MembershipKeepsIInv
<1>3. CASE \E w \in Instances : EachMessage(w) \/ DlqFails(w)
  BY <1>3, IgnoreKeepsIInv, DispatchKeepsIInv, HandlerReturnsKeepsIInv,
     HandlerThrowsKeepsIInv, ToDlqKeepsIInv, DlqFailsKeepsIInv DEF EachMessage
<1>4. CASE UNCHANGED vars
  <2> USE <1>4 DEF vars
  <2>1. \A p, n : SeenTo(p, n) <=> SeenTo(p, n)'
    BY DEF SeenTo, IsParked, MessageAt
  <2>2. TypeOK' /\ ShapeInv' /\ AppearedInv' /\ ParkedAfterAllRetries'
    BY DEF IInv, TypeOK, ShapeInv, AppearedInv, Appeared, ParkedAfterAllRetries, MessageAt
  <2>3. CommittedInv' /\ NothingIsSkipped'
    BY <2>1 DEF IInv, CommittedInv, SeenBefore, NothingIsSkipped
  <2>4. WorkInv'
    BY <2>1 DEF IInv, WorkInv, Busy, ItemFits, SeenBefore, MessageAt
  <2> QED
    BY <2>2, <2>3, <2>4 DEF IInv
<1> QED
  BY <1>1, <1>2, <1>3, <1>4 DEF Next

\* What the group's variables say of each other holds in every state.
THEOREM InductiveInvariant == Spec => []IInv
BY InitIInv, NextKeepsIInv, PTL DEF Spec

\* No retry, rebalance, crash or failed send makes the group pass over a message
\* (handleWithRetry, toDlq and the offsets of eachMessage).
THEOREM NothingSkipped == Spec => []NothingIsSkipped
BY InductiveInvariant, PTL DEF IInv

\* What is parked did not parse, or failed on all MaxRetries + 1 attempts.
THEOREM ParkedInEarnest == Spec => []ParkedAfterAllRetries
BY InductiveInvariant, PTL DEF IInv

-----------------------------------------------------------------------------
\* Markers and dead letters only grow, a group begins a partition anew at its end
\* only, and what is processed is a message at work.
LEMMA StepsAdd ==
    ASSUME IInv, [Next]_vars
    PROVE  /\ processed \subseteq processed' /\ parked \subseteq parked'
           /\ \A p \in Partitions : /\ published[p] <= published'[p]
                                    /\ begin'[p] \in {begin[p], published[p]}
           /\ \A m \in processed' \ processed :
                 \E w \in Instances : Busy(w) /\ m = MessageOf(w)
<1>1. \A p \in Partitions : published[p] \in Nat
  BY DEF IInv, TypeOK
<1>2. ASSUME NEW p \in Partitions, Publish(p)
      PROVE  /\ \A q \in Partitions : published[q] <= published'[q]
             /\ UNCHANGED <<begin, outcome>>
  BY <1>1, <1>2 DEF Publish, group, IInv, TypeOK
<1>3. ASSUME NEW p \in Partitions, CommitOffset(p)
      PROVE  UNCHANGED <<published, begin, outcome>>
  BY <1>3 DEF CommitOffset
<1>4. ASSUME \/ Rebalance
             \/ \E w \in Instances : Start(w) \/ Stop(w)
      PROVE  /\ \A p \in Partitions : begin'[p] \in {begin[p], published[p]}
             /\ UNCHANGED <<published, outcome>>
  BY <1>4 DEF Rebalance, Start, Stop, Assign
<1>5. ASSUME NEW w \in Instances, EachMessage(w) \/ DlqFails(w)
      PROVE  /\ UNCHANGED <<published, begin>>
             /\ processed \subseteq processed' /\ parked \subseteq parked'
             /\ \A m \in processed' \ processed : Busy(w) /\ m = MessageOf(w)
  BY <1>5 DEF EachMessage, DlqFails, Ignore, Dispatch, HandlerReturns, HandlerThrows,
     ToDlq, Finish, Resolve, ProcessOnce, group, outcome
<1>6. CASE UNCHANGED vars
  BY <1>1, <1>6 DEF vars
<1> QED
  BY <1>1, <1>2, <1>3, <1>4, <1>5, <1>6 DEF Next, outcome

\* Every processed message was at some offset up to which all was seen to.
OrderInv ==
    \A m \in processed :
        \E p \in Partitions, n \in Nat :
            /\ n < published[p]
            /\ MessageAt(p, n) = m
            /\ SeenBefore(p, n)

\* The order of handling is kept by every step.
LEMMA StepKeepsOrder == IInv /\ OrderInv /\ [Next]_vars => OrderInv'
<1> SUFFICES ASSUME IInv, OrderInv, [Next]_vars, NEW m \in processed'
             PROVE  \E p \in Partitions, n \in Nat :
                       /\ n < published'[p] /\ MessageAt(p, n) = m
                       /\ SeenBefore(p, n)'
  BY DEF OrderInv, MessageAt
<1>1. PICK p \in Partitions, n \in Nat :
         /\ n < published[p] /\ MessageAt(p, n) = m /\ SeenBefore(p, n)
  <2>1. CASE m \in processed
    BY <2>1 DEF OrderInv
  <2>2. CASE m \notin processed
    <3>1. PICK w \in Instances : Busy(w) /\ m = MessageOf(w)
      BY <2>2, StepsAdd
    <3> QED
      BY <3>1, AtWork DEF ItemFits
  <2> QED
    BY <2>1, <2>2
<1>2. /\ processed \subseteq processed' /\ parked \subseteq parked'
      /\ published[p] <= published'[p] /\ begin'[p] \in {begin[p], published[p]}
  BY StepsAdd
<1>3. published[p] \in Nat /\ published'[p] \in Nat /\ begin[p] \in Nat
  BY NextKeepsIInv DEF IInv, TypeOK, ShapeInv
<1>4. SeenBefore(p, n)'
  <2> SUFFICES ASSUME NEW k \in begin'[p]..(n - 1) PROVE SeenTo(p, k)'
    BY DEF SeenBefore
  <2>1. SeenTo(p, k)
    BY <1>1, <1>2, <1>3 DEF SeenBefore
  <2> QED
    BY <1>2, <2>1, SeenToRemains
<1> QED
  BY <1>1, <1>2, <1>3, <1>4

\* A partition's messages are handled in their order, whatever the members do at
\* once, if no message is in two partitions: the relay sends each event under its
\* order's id as the key (publish in kafka-producer.service.ts).
THEOREM OrderIsKept ==
    ASSUME \A p, q \in Partitions : \A i \in DOMAIN Log[p], j \in DOMAIN Log[q] :
               Log[p][i] = Log[q][j] => p = q
    PROVE  Spec => []HandledInOrder
<1>1. Init => OrderInv
  BY DEF Init, OrderInv
<1>2. IInv /\ OrderInv => HandledInOrder
  <2> SUFFICES ASSUME IInv, OrderInv,
                      NEW p \in Partitions, NEW n \in begin[p]..(published[p] - 1),
                      MessageAt(p, n) \in processed,
                      \A m \in 0..(n - 1) : MessageAt(p, m) # MessageAt(p, n),
                      NEW m \in begin[p]..(n - 1)
               PROVE  SeenTo(p, m)
    BY DEF HandledInOrder
  <2>1. PICK q \in Partitions, k \in Nat :
           k < published[q] /\ MessageAt(q, k) = MessageAt(p, n) /\ SeenBefore(q, k)
    BY DEF OrderInv
  <2>2. /\ n \in Nat /\ begin[p] \in Nat /\ n < published[p]
        /\ published[p] \in Nat /\ published[q] \in Nat
        /\ published[p] <= Len(Log[p]) /\ published[q] <= Len(Log[q])
    BY DEF IInv, TypeOK, ShapeInv
  <2>3. n + 1 \in DOMAIN Log[p] /\ k + 1 \in DOMAIN Log[q]
    <3>1. \A r \in Partitions : /\ Len(Log[r]) \in Nat
                               /\ DOMAIN Log[r] = 1..Len(Log[r])
      BY GroupAssumption
    <3> QED
      BY <2>1, <2>2, <3>1
  <2>4. p = q
    BY <2>1, <2>3 DEF MessageAt
  <2>5. ~(k < n)
    BY <2>1, <2>2, <2>4
  <2> QED
    BY <2>1, <2>2, <2>4, <2>5 DEF SeenBefore
<1> QED
  BY <1>1, <1>2, InductiveInvariant, StepKeepsOrder, PTL DEF Spec

-----------------------------------------------------------------------------
\* A letter of a message that was parked before, or does not parse, is no news to
\* the bus; any other one is a step DeadLetter of the bus.
LEMMA LetterIsDeadLetter ==
    ASSUME IInv, NEW w \in Instances, ToDlq(w),
           \A m \in Messages : Kind[m] # "garbage" => m.topic \in Bus!Subscriptions(Consumer)
    PROVE  \/ Bus!DeadLetter(Consumer)
           \/ ParkedEvents' = ParkedEvents
<1> DEFINE m == MessageOf(w)
           letter == [partition |-> work[w].partition, offset |-> work[w].offset,
                      attempts |-> work[w].attempt]
<1>1. /\ Busy(w) /\ parked' = parked \cup {letter}
      /\ UNCHANGED <<published, processed, effects>>
  BY DEF ToDlq
<1>2. m \in Appeared /\ m \in Messages
      /\ m = MessageAt(work[w].partition, work[w].offset)
  BY <1>1, AtWork
<1>3. letter.partition = work[w].partition /\ letter.offset = work[w].offset
  OBVIOUS
<1> HIDE DEF m, letter
<1>4. {MessageAt(d.partition, d.offset) : d \in parked'} =
         {MessageAt(d.partition, d.offset) : d \in parked} \cup {m}
  BY <1>1, <1>2, <1>3
<1>5. ParkedEvents' = IF Kind[m] = "garbage" THEN ParkedEvents
                      ELSE ParkedEvents \cup {m}
  BY <1>4 DEF ParkedEvents, MessageAt
<1>6. Appeared' = Appeared
  BY <1>1 DEF Appeared, MessageAt
<1>7. CASE Kind[m] # "garbage" /\ m \notin ParkedEvents
  <2>1. m.topic \in Bus!Subscriptions(Consumer)
    BY <1>2, <1>7
  <2>2. ParkedEvents' = ParkedEvents \cup {m}
    BY <1>5, <1>7
  <2> QED
    BY <1>1, <1>2, <1>6, <1>7, <2>1, <2>2 DEF Bus!DeadLetter
<1> QED
  BY <1>5, <1>7

\* Offsets, batches, retries and rebalances amount to the steps of EventBus that
\* CheckoutSaga composes, for a consumer all of whose messages are of topics it
\* registers a handler for (subscribe in kafka-consumer.service.ts).
THEOREM GroupImplementsBus ==
    ASSUME \A m \in Messages : Kind[m] # "garbage" => m.topic \in Bus!Subscriptions(Consumer)
    PROVE  Spec => DeliversAsAssumed
<1> DEFINE Handled == \E m \in Appeared : /\ Bus!ProcessOnce(Consumer, m)
                                         /\ effects' = [effects EXCEPT ![m] = @ + 1]
                                         /\ UNCHANGED ParkedEvents
           Parked == Bus!DeadLetter(Consumer) /\ UNCHANGED effects
           seen == <<processed, effects, ParkedEvents>>
<1>1. ASSUME IInv, [Next]_vars PROVE [Handled \/ Parked]_seen
  <2>1. parked' = parked => UNCHANGED ParkedEvents
    BY DEF ParkedEvents, MessageAt
  <2>2. ASSUME NEW w \in Instances, Busy(w), ProcessOnce(MessageOf(w)), parked' = parked
        PROVE  [Handled \/ Parked]_seen
    <3>1. MessageOf(w) \in Appeared
      BY <1>1, <2>2, AtWork
    <3>2. CASE MessageOf(w) \in processed
      BY <2>1, <2>2, <3>2 DEF ProcessOnce
    <3>3. CASE MessageOf(w) \notin processed
      <4>1. Bus!ProcessOnce(Consumer, MessageOf(w))
        BY <2>2, <3>3 DEF ProcessOnce, Bus!ProcessOnce
      <4> QED
        BY <2>1, <2>2, <3>1, <3>3, <4>1 DEF ProcessOnce
    <3> QED
      BY <3>2, <3>3
  <2>3. CASE \E w \in Instances : ToDlq(w)
    BY <1>1, <2>3, LetterIsDeadLetter DEF ToDlq
  <2>4. CASE \E w \in Instances : HandlerReturns(w) \/ HandlerThrows(w)
    <3>1. PICK w \in Instances : HandlerReturns(w) \/ HandlerThrows(w)
      BY <2>4
    <3>2. /\ Busy(w) /\ parked' = parked
          /\ UNCHANGED <<processed, effects>> \/ ProcessOnce(MessageOf(w))
      BY <3>1 DEF HandlerReturns, HandlerThrows
    <3> QED
      BY <2>1, <2>2, <3>2
  <2>5. CASE UNCHANGED outcome
    BY <2>1, <2>5 DEF outcome
  <2>6. \/ \E w \in Instances : ToDlq(w) \/ HandlerReturns(w) \/ HandlerThrows(w)
        \/ UNCHANGED outcome
    BY <1>1 DEF Next, vars, outcome, Publish, CommitOffset, Rebalance, Start, Stop,
       EachMessage, Ignore, Dispatch, DlqFails
  <2> QED
    BY <2>3, <2>4, <2>5, <2>6
<1> QED
  BY <1>1, InductiveInvariant, PTL DEF Spec, DeliversAsAssumed
=============================================================================
