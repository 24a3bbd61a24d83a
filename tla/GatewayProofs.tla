--------------------------- MODULE GatewayProofs ---------------------------
(***************************************************************************)
(* Proofs about RateLimiter and Gateway, for any gateways, customers,      *)
(* purchases, connections, maximum and window: the limit is shared, the    *)
(* composition keeps what the limiter and the order service promise on     *)
(* their own, the answers that it hands on are the customer's, and no more *)
(* than two windows' worth of requests passes in the seconds of one.       *)
(*                                                                         *)
(* None of the limiter's properties is inductive: they rest on what the    *)
(* counter in Redis says of the requests behind it.  Up to the maximum it  *)
(* is the number of those let in and of those whose answer was lost;       *)
(* beyond it, at least so many were; and it is beyond it if someone was    *)
(* refused.                                                                *)
(***************************************************************************)
EXTENDS Gateway, Sums

CounterInv ==
    \A i \in Identities :
        /\ counters[i].count <= MaxRequests =>
              admitted[i] + unanswered[i] = counters[i].count
        /\ counters[i].count > MaxRequests =>
              admitted[i] + unanswered[i] >= MaxRequests
        /\ admitted[i] <= MaxRequests
        /\ i \in refused => counters[i].count > MaxRequests

IInv == TypeOK /\ CounterInv

-----------------------------------------------------------------------------
\* INCR and EXPIRE NX leave a key with a time to live and one request more, up
\* to the point where the count no longer matters.
LEMMA IncrementedKey ==
    ASSUME TypeOK, NEW i \in Identities
    PROVE  /\ IncrementWindow(i) \in Counter
           /\ IncrementWindow(i).count = Capped(counters[i].count + 1)
<1>1. counters[i] \in Counter \cup {NoKey}
  BY DEF TypeOK
<1>2. counters[i].count \in 0..(MaxRequests + 1)
  BY <1>1, LimitAssumption DEF Counter, NoKey
<1>3. Capped(counters[i].count + 1) \in 1..(MaxRequests + 1)
  BY <1>2, LimitAssumption DEF Capped
<1>4. CASE counters[i] = NoKey
  BY <1>3, <1>4, LimitAssumption DEF IncrementWindow, Counter
<1>5. CASE counters[i] # NoKey
  <2>1. counters[i].ttl \in 1..WindowSeconds
    BY <1>1, <1>5 DEF Counter
  <2>2. QED
    BY <1>3, <1>5, <2>1 DEF IncrementWindow, Counter
<1>6. QED
  BY <1>4, <1>5

LEMMA InitEstablishesIInv == Init => IInv
BY LimitAssumption DEF Init, IInv, TypeOK, CounterInv, NoKey, Counter

-----------------------------------------------------------------------------
\* A request that Redis answers is let in or refused as the counter says.
LEMMA CountKeepsIInv ==
    ASSUME IInv, NEW g \in Gateways, NEW i \in Identities, Count(g, i)
    PROVE  IInv'
<1> DEFINE n == IncrementWindow(i).count
<1>1. /\ IncrementWindow(i) \in Counter
      /\ n = Capped(counters[i].count + 1)
      /\ counters[i].count \in 0..(MaxRequests + 1)
  BY IncrementedKey, LimitAssumption DEF IInv, TypeOK, Counter, NoKey
<1>2. counters' = [counters EXCEPT ![i] = IncrementWindow(i)]
  BY DEF Count
<1>3. CASE Exceeded(n)
  <2>1. /\ refused' = refused \cup {i}
        /\ UNCHANGED <<redisUp, healthy, admitted, unanswered>>
    BY <1>3 DEF Count
  <2>2. TypeOK'
    BY <1>1, <1>2, <2>1 DEF IInv, TypeOK
  <2>3. CounterInv'
    <3> SUFFICES ASSUME NEW j \in Identities
                 PROVE  /\ counters'[j].count <= MaxRequests =>
                              admitted'[j] + unanswered'[j] = counters'[j].count
                        /\ counters'[j].count > MaxRequests =>
                              admitted'[j] + unanswered'[j] >= MaxRequests
                        /\ admitted'[j] <= MaxRequests
                        /\ j \in refused' => counters'[j].count > MaxRequests
      BY DEF CounterInv
    <3>1. CASE j = i
      <4>1. counters'[i].count = n /\ n > MaxRequests
        BY <1>2, <1>3 DEF Exceeded, IInv, TypeOK
      <4>2. admitted[i] + unanswered[i] >= MaxRequests
        BY <1>1, <4>1, LimitAssumption DEF IInv, TypeOK, CounterInv, Capped
      <4>3. QED
        BY <1>1, <2>1, <3>1, <4>1, <4>2, LimitAssumption
        DEF IInv, TypeOK, CounterInv, Counter
    <3>2. CASE j # i
      BY <1>2, <2>1, <3>2 DEF IInv, TypeOK, CounterInv
    <3>3. QED
      BY <3>1, <3>2
  <2>4. QED
    BY <2>2, <2>3 DEF IInv
<1>4. CASE ~Exceeded(n)
  <2>1. /\ admitted' = [admitted EXCEPT ![i] = Capped(@ + 1)]
        /\ UNCHANGED <<redisUp, healthy, unanswered, refused>>
    BY <1>4 DEF Count
  <2>2. /\ counters[i].count + 1 = n
        /\ n <= MaxRequests
    BY <1>1, <1>4, LimitAssumption DEF Exceeded, Capped
  <2>3. admitted[i] + unanswered[i] + 1 = n
    BY <1>1, <2>2, LimitAssumption DEF IInv, TypeOK, CounterInv
  <2>4. /\ Capped(admitted[i] + 1) = admitted[i] + 1
        /\ admitted[i] + 1 <= MaxRequests
    BY <2>2, <2>3, LimitAssumption DEF IInv, TypeOK, Capped
  <2>5. TypeOK'
    BY <1>1, <1>2, <2>1, <2>4, LimitAssumption DEF IInv, TypeOK
  <2>6. CounterInv'
    <3> SUFFICES ASSUME NEW j \in Identities
                 PROVE  /\ counters'[j].count <= MaxRequests =>
                              admitted'[j] + unanswered'[j] = counters'[j].count
                        /\ counters'[j].count > MaxRequests =>
                              admitted'[j] + unanswered'[j] >= MaxRequests
                        /\ admitted'[j] <= MaxRequests
                        /\ j \in refused' => counters'[j].count > MaxRequests
      BY DEF CounterInv
    <3>1. CASE j = i
      <4>1. /\ counters'[i].count = n
            /\ admitted'[i] = admitted[i] + 1
            /\ unanswered'[i] = unanswered[i]
        BY <1>2, <2>1, <2>4 DEF IInv, TypeOK
      <4>2. i \notin refused
        BY <1>1, <2>2, LimitAssumption DEF IInv, CounterInv
      <4>3. QED
        BY <2>1, <2>2, <2>3, <2>4, <3>1, <4>1, <4>2, LimitAssumption
        DEF IInv, TypeOK
    <3>2. CASE j # i
      BY <1>2, <2>1, <3>2 DEF IInv, TypeOK, CounterInv
    <3>3. QED
      BY <3>1, <3>2
  <2>7. QED
    BY <2>5, <2>6 DEF IInv
<1>5. QED
  BY <1>3, <1>4

\* A request that is counted and not answered stands for one of the budget.
LEMMA LoseAnswerKeepsIInv ==
    ASSUME IInv, NEW g \in Gateways, NEW i \in Identities, LoseAnswer(g, i)
    PROVE  IInv'
<1> DEFINE n == IncrementWindow(i).count
<1>1. /\ IncrementWindow(i) \in Counter
      /\ n = Capped(counters[i].count + 1)
      /\ counters[i].count \in 0..(MaxRequests + 1)
  BY IncrementedKey, LimitAssumption DEF IInv, TypeOK, Counter, NoKey
<1>2. /\ counters' = [counters EXCEPT ![i] = IncrementWindow(i)]
      /\ unanswered' = [unanswered EXCEPT ![i] = Capped(@ + 1)]
      /\ healthy' = [healthy EXCEPT ![g] = FALSE]
      /\ UNCHANGED <<redisUp, admitted, refused>>
  BY DEF LoseAnswer
<1>3. Capped(unanswered[i] + 1) \in 0..(MaxRequests + 1)
  BY LimitAssumption DEF IInv, TypeOK, Capped
<1>4. TypeOK'
  BY <1>1, <1>2, <1>3 DEF IInv, TypeOK
<1>5. CounterInv'
  <2> SUFFICES ASSUME NEW j \in Identities
               PROVE  /\ counters'[j].count <= MaxRequests =>
                            admitted'[j] + unanswered'[j] = counters'[j].count
                      /\ counters'[j].count > MaxRequests =>
                            admitted'[j] + unanswered'[j] >= MaxRequests
                      /\ admitted'[j] <= MaxRequests
                      /\ j \in refused' => counters'[j].count > MaxRequests
    BY DEF CounterInv
  <2>1. CASE j = i
    <3>1. /\ counters'[i].count = n
          /\ unanswered'[i] = Capped(unanswered[i] + 1)
          /\ admitted'[i] = admitted[i]
      BY <1>2 DEF IInv, TypeOK
    <3>2. /\ counters[i].count <= MaxRequests =>
                admitted[i] + unanswered[i] = counters[i].count
          /\ counters[i].count > MaxRequests =>
                admitted[i] + unanswered[i] >= MaxRequests
          /\ admitted[i] \in 0..MaxRequests
          /\ unanswered[i] \in 0..(MaxRequests + 1)
      BY DEF IInv, TypeOK, CounterInv
    <3>3. i \in refused' => counters[i].count > MaxRequests
      BY <1>2 DEF IInv, CounterInv
    <3>4. QED
      BY <1>1, <2>1, <3>1, <3>2, <3>3, LimitAssumption DEF Capped
  <2>2. CASE j # i
    BY <1>2, <2>2 DEF IInv, TypeOK, CounterInv
  <2>3. QED
    BY <2>1, <2>2
<1>6. QED
  BY <1>4, <1>5 DEF IInv

\* A window that ends takes with it all that is said about it.
LEMMA TickKeepsIInv == IInv /\ Tick => IInv'
<1> SUFFICES ASSUME IInv, Tick PROVE IInv'
  OBVIOUS
<1> DEFINE Over == {i \in Identities : counters[i].ttl <= 1}
<1>1. /\ counters' = [i \in Identities |->
                        IF i \in Over THEN NoKey
                        ELSE [counters[i] EXCEPT !.ttl = @ - 1]]
      /\ admitted' = [i \in Identities |-> IF i \in Over THEN 0 ELSE admitted[i]]
      /\ unanswered' =
            [i \in Identities |-> IF i \in Over THEN 0 ELSE unanswered[i]]
      /\ refused' = refused \ Over
      /\ UNCHANGED <<redisUp, healthy>>
  BY DEF Tick, Forget
<1>2. ASSUME NEW i \in Identities, i \notin Over
      PROVE  /\ counters'[i] \in Counter
             /\ counters'[i].count = counters[i].count
  <2>1. counters[i] \in Counter
    BY <1>2, LimitAssumption DEF IInv, TypeOK, NoKey, Counter
  <2>2. counters[i].ttl - 1 \in 1..WindowSeconds
    BY <1>2, <2>1, LimitAssumption DEF Counter
  <2>3. QED
    BY <1>1, <1>2, <2>1, <2>2 DEF Counter
<1>3. TypeOK'
  BY <1>1, <1>2, LimitAssumption DEF IInv, TypeOK
<1>4. CounterInv'
  BY <1>1, <1>2, LimitAssumption DEF IInv, TypeOK, CounterInv, NoKey
<1>5. QED
  BY <1>3, <1>4 DEF IInv

LEMMA RedisStopsKeepsIInv == IInv /\ RedisStops => IInv'
<1> SUFFICES ASSUME IInv, RedisStops PROVE IInv'
  OBVIOUS
<1>1. CASE Forget(Identities, counters)
  <2>1. /\ counters' = [i \in Identities |-> NoKey]
        /\ admitted' = [i \in Identities |-> 0]
        /\ unanswered' = [i \in Identities |-> 0]
        /\ refused' = refused \ Identities
    BY <1>1 DEF Forget
  <2>2. TypeOK'
    <3>1. redisUp' \in BOOLEAN
      BY DEF RedisStops
    <3>2. healthy' \in [Gateways -> BOOLEAN]
      BY DEF RedisStops, IInv, TypeOK
    <3>3. QED
      BY <2>1, <3>1, <3>2, LimitAssumption DEF IInv, TypeOK
  <2>3. CounterInv'
    BY <2>1, LimitAssumption DEF CounterInv, NoKey
  <2>4. QED
    BY <2>2, <2>3 DEF IInv
<1>2. CASE UNCHANGED <<counters, admitted, unanswered, refused>>
  BY <1>2 DEF RedisStops, IInv, TypeOK, CounterInv
<1>3. QED
  BY <1>1, <1>2 DEF RedisStops

LEMMA NextKeepsIInv == IInv /\ [Next]_vars => IInv'
<1> SUFFICES ASSUME IInv, [Next]_vars PROVE IInv'
  OBVIOUS
<1>1. ASSUME NEW g \in Gateways, Notice(g) PROVE IInv'
  BY <1>1 DEF Notice, IInv, TypeOK, CounterInv
<1>2. ASSUME NEW g \in Gateways, NEW i \in Identities, Count(g, i) PROVE IInv'
  BY <1>2, CountKeepsIInv
<1>3. ASSUME NEW g \in Gateways, NEW i \in Identities, LoseAnswer(g, i)
      PROVE  IInv'
  BY <1>3, LoseAnswerKeepsIInv
<1>4. CASE Tick
  BY <1>4, TickKeepsIInv
<1>5. CASE RedisStops
  BY <1>5, RedisStopsKeepsIInv
<1>6. CASE RedisStarts
  BY <1>6 DEF RedisStarts, IInv, TypeOK, CounterInv
<1>7. CASE UNCHANGED vars
  BY <1>7 DEF vars, IInv, TypeOK, CounterInv
<1>8. QED
  BY <1>1, <1>2, <1>3, <1>4, <1>5, <1>6, <1>7 DEF Next

-----------------------------------------------------------------------------
\* What the counter says of the requests behind it holds in every state.
THEOREM InductiveInvariant == Spec => []IInv
<1>1. Init => IInv
  BY InitEstablishesIInv
<1>2. IInv /\ [Next]_vars => IInv'
  BY NextKeepsIInv
<1>3. QED
  BY <1>1, <1>2, PTL DEF Spec

\* No key of the rate limiter is ever without a time to live.
THEOREM TypeCorrect == Spec => []TypeOK
<1>1. IInv => TypeOK
  BY DEF IInv
<1>2. QED
  BY <1>1, InductiveInvariant, PTL

\* Any number of gateways together let an identity in at most MaxRequests times
\* in a window on Redis' word.
THEOREM TheLimitIsShared == Spec => []LimitIsShared
<1>1. IInv => LimitIsShared
  BY DEF IInv, CounterInv, LimitIsShared
<1>2. QED
  BY <1>1, InductiveInvariant, PTL

\* Whoever is refused has spent the budget of the window.
THEOREM RefusalsAreEarned == Spec => []RefusedOnlyWhenSpent
<1>1. IInv => RefusedOnlyWhenSpent
  BY DEF IInv, TypeOK, CounterInv, RefusedOnlyWhenSpent
<1>2. QED
  BY <1>1, InductiveInvariant, PTL


-----------------------------------------------------------------------------
(***************************************************************************)
(* The two halves of the composition.                                      *)
(***************************************************************************)
\* Each step of the gateways is one of the limiter, or none.
LEMMA EdgeStepLimits == [EdgeNext]_edgeVars => [Next]_vars
<1> SUFFICES ASSUME [EdgeNext]_edgeVars PROVE Next \/ UNCHANGED vars
  OBVIOUS
<1>1. ASSUME NEW a \in Attempts, Try(a) PROVE Next \/ UNCHANGED vars
  <2> DEFINE i == CustomerOf[PurchaseOf[a]]
  <2>1. i \in Identities
    BY GatewayAssumption
  <2>2. CASE Unauthorized(a)
    BY <2>2 DEF Unauthorized
  <2>3. ASSUME NEW g \in Gateways, Limited(a, g) PROVE Next
    BY <2>1, <2>3 DEF Limited, Next
  <2>4. ASSUME NEW g \in Gateways, Admitted(a, g) PROVE Next \/ UNCHANGED vars
    BY <2>1, <2>4 DEF Admitted, LetIn, Next
  <2> QED
    BY <1>1, <2>2, <2>3, <2>4 DEF Try
<1>2. ASSUME NEW a \in Attempts,
             Handle(a) \/ Unreachable(a) \/ ServeBadly(a) \/ Abandon(a)
      PROVE  UNCHANGED vars
  BY <1>2 DEF Handle, Deliver, Serve, Relay, Unreachable, ServeBadly, Abandon, edge
<1>3. CASE Background
  BY <1>3 DEF Background, SecondPasses, Outage, Next
<1>4. CASE UNCHANGED edgeVars
  BY <1>4 DEF edgeVars
<1> QED
  BY <1>1, <1>2, <1>3, <1>4 DEF EdgeNext

\* Each step of the gateways is one of the order service's contract, or none.
LEMMA EdgeStepOrders == [EdgeNext]_edgeVars => [Orders!Next]_order
<1> SUFFICES ASSUME [EdgeNext]_edgeVars PROVE Orders!Next \/ UNCHANGED order
  OBVIOUS
<1>1. ASSUME NEW a \in Attempts, Handle(a) \/ ServeBadly(a)
      PROVE  Orders!Next \/ UNCHANGED order
  BY <1>1 DEF Handle, Deliver, Serve, Relay, ServeBadly, Orders!Next
<1>2. ASSUME NEW a \in Attempts, Try(a) \/ Unreachable(a) \/ Abandon(a)
      PROVE  UNCHANGED order
  BY <1>2 DEF Try, Unauthorized, Limited, Admitted, Unreachable, Abandon
<1>3. CASE Background
  BY <1>3 DEF Background, SecondPasses, Outage, elsewhere
<1>4. CASE UNCHANGED edgeVars
  BY <1>4 DEF edgeVars
<1> QED
  BY <1>1, <1>2, <1>3, <1>4 DEF EdgeNext

\* Behind any number of gateways and retrying clients, the limit still holds for
\* all gateways together, and refusals are earned.
THEOREM TheEdgeIsLimited == EdgeSpec => [](LimitIsShared /\ RefusedOnlyWhenSpent)
<1>1. EdgeInit => Init
  BY DEF EdgeInit
<1> QED
  BY <1>1, EdgeStepLimits, TheLimitIsShared, RefusalsAreEarned, PTL DEF EdgeSpec, Spec

\* No order is made but through the order service's contract, whatever is lost,
\* retried or abandoned on the way to it.
THEOREM TheEdgeKeepsTheContract == EdgeSpec => Orders!Spec
<1>1. EdgeInit => Orders!Init
  BY DEF EdgeInit
<1>2. [Orders!Next]_order => [Orders!Next]_(Orders!vars)
  BY DEF order, Orders!vars
<1> QED
  BY <1>1, <1>2, EdgeStepOrders, PTL DEF EdgeSpec, Orders!Spec

-----------------------------------------------------------------------------
(***************************************************************************)
(* Answers: what the order service has answered and what clients were told *)
(* rest on orders that stay.                                               *)
(***************************************************************************)
ReplyType ==
    [code : {"none", "201", "400", "401", "422", "500", "lost"},
     order : Keys \cup {None}, replayed : BOOLEAN]

\* What an answer says to purchase p is so.
TrueFor(p, reply) ==
    LET own == placed[HeaderKey[p]] = ForwardedBody(p) IN
    /\ reply.code = "201" => own /\ reply.order = HeaderKey[p]
    /\ reply.code = "422" => ~own /\ placed[HeaderKey[p]] # None

AnswerInv ==
    /\ placed \in [Keys -> {ForwardedBody(p) : p \in Purchases} \cup {None}]
    /\ replies \in [Attempts -> ReplyType]
    /\ told \in [Purchases -> ReplyType]
    /\ \A a \in Attempts : TrueFor(PurchaseOf[a], replies[a])
    /\ \A p \in Purchases : TrueFor(p, told[p])

\* The parameters that the order service sees.
LEMMA AttemptsAreRequests ==
    ASSUME NEW a \in Attempts
    PROVE  /\ PurchaseOf[a] \in Purchases
           /\ HeaderKey[PurchaseOf[a]] \in Keys
           /\ [b \in Attempts |-> HeaderKey[PurchaseOf[b]]][a] = HeaderKey[PurchaseOf[a]]
           /\ [b \in Attempts |-> ForwardedBody(PurchaseOf[b])][a]
                 = ForwardedBody(PurchaseOf[a])
           /\ ForwardedBody(PurchaseOf[a]) # None
BY GatewayAssumption DEF ForwardedBody

\* An error is true of every purchase.
LEMMA ErrorsAreTrue ==
    ASSUME NEW p \in Purchases, NEW c \in {"400", "401", "500", "lost"}
    PROVE  Orders!Error(c) \in ReplyType /\ TrueFor(p, Orders!Error(c))
BY DEF Orders!Error, ReplyType, TrueFor

\* An order that has been made is never replaced.
LEMMA PlacedStays ==
    ASSUME AnswerInv, [Orders!Next]_order
    PROVE  /\ placed' \in [Keys -> {ForwardedBody(p) : p \in Purchases} \cup {None}]
           /\ \A k \in Keys : placed[k] # None => placed'[k] = placed[k]
<1>1. CASE UNCHANGED placed
  BY <1>1 DEF AnswerInv
<1>2. ASSUME NEW a \in Attempts, Orders!MakeOrder(a)
      PROVE  /\ placed[HeaderKey[PurchaseOf[a]]] = None
             /\ placed' = [placed EXCEPT ![HeaderKey[PurchaseOf[a]]]
                              = ForwardedBody(PurchaseOf[a])]
  BY <1>2, AttemptsAreRequests DEF Orders!MakeOrder
<1>3. ASSUME NEW a \in Attempts, Orders!MakeOrder(a)
      PROVE  /\ placed' \in [Keys -> {ForwardedBody(p) : p \in Purchases} \cup {None}]
             /\ \A k \in Keys : placed[k] # None => placed'[k] = placed[k]
  BY <1>2, <1>3, AttemptsAreRequests DEF AnswerInv
<1>4. UNCHANGED placed \/ \E a \in Attempts : Orders!MakeOrder(a)
  BY DEF order, Orders!Next, Orders!Receive, Orders!Place, Orders!PlaceUnnoticed,
         Orders!Answer, Orders!Break, Orders!Collect
<1> QED
  BY <1>1, <1>3, <1>4

\* So what was true of a purchase stays true.
LEMMA TruthStays ==
    ASSUME AnswerInv, [Orders!Next]_order, NEW p \in Purchases, NEW reply,
           TrueFor(p, reply)
    PROVE  TrueFor(p, reply)'
<1>1. HeaderKey[p] \in Keys /\ ForwardedBody(p) # None
  BY GatewayAssumption DEF ForwardedBody
<1> QED
  BY <1>1, PlacedStays DEF TrueFor

\* What the order service decides from an order is true of the request's
\* purchase.
LEMMA VerdictIsTrue ==
    ASSUME NEW a \in Attempts, placed[HeaderKey[PurchaseOf[a]]] # None
    PROVE  Orders!Verdict(a) \in ReplyType /\ TrueFor(PurchaseOf[a], Orders!Verdict(a))
<1> DEFINE p == PurchaseOf[a]
<1>1. p \in Purchases /\ HeaderKey[p] \in Keys
  BY AttemptsAreRequests
<1>2. Orders!Verdict(a) =
         IF placed[HeaderKey[p]] # ForwardedBody(p) THEN Orders!Error("422")
         ELSE [code |-> "201", order |-> HeaderKey[p], replayed |-> serving[a] # "made"]
  BY AttemptsAreRequests DEF Orders!Verdict
<1> QED
  BY <1>1, <1>2 DEF Orders!Error, ReplyType, TrueFor

\* The answers of the order service stay true.
LEMMA RepliesStayTrue ==
    ASSUME AnswerInv, [Orders!Next]_order
    PROVE  /\ replies' \in [Attempts -> ReplyType]
           /\ \A a \in Attempts : TrueFor(PurchaseOf[a], replies[a])'
<1>1. \A b \in Attempts : TrueFor(PurchaseOf[b], replies[b])'
                             \/ replies'[b] # replies[b]
  <2> SUFFICES ASSUME NEW b \in Attempts, replies'[b] = replies[b]
               PROVE  TrueFor(PurchaseOf[b], replies[b])'
    OBVIOUS
  <2>1. TrueFor(PurchaseOf[b], replies[b]) /\ PurchaseOf[b] \in Purchases
    BY AttemptsAreRequests DEF AnswerInv
  <2> QED
    BY <2>1, TruthStays DEF TrueFor
<1>2. CASE UNCHANGED replies
  BY <1>1, <1>2 DEF AnswerInv
<1>3. ASSUME NEW a \in Attempts, NEW reply \in ReplyType,
             TrueFor(PurchaseOf[a], reply),
             replies' = [replies EXCEPT ![a] = reply]
      PROVE  /\ replies' \in [Attempts -> ReplyType]
             /\ \A b \in Attempts : TrueFor(PurchaseOf[b], replies[b])'
  <2>1. replies' \in [Attempts -> ReplyType] /\ replies'[a] = reply
        /\ \A b \in Attempts \ {a} : replies'[b] = replies[b]
    BY <1>3 DEF AnswerInv
  <2>2. PurchaseOf[a] \in Purchases
    BY AttemptsAreRequests
  <2>3. TrueFor(PurchaseOf[a], replies[a])'
    BY <1>3, <2>1, <2>2, TruthStays DEF TrueFor
  <2> QED
    BY <1>1, <2>1, <2>3
<1>4. ASSUME NEW a \in Attempts, Orders!Answer(a)
      PROVE  /\ replies' \in [Attempts -> ReplyType]
             /\ \A b \in Attempts : TrueFor(PurchaseOf[b], replies[b])'
  <2>1. placed[HeaderKey[PurchaseOf[a]]] # None
    BY <1>4, AttemptsAreRequests DEF Orders!Answer
  <2>2. replies' = [replies EXCEPT ![a] = Orders!Verdict(a)]
    BY <1>4 DEF Orders!Answer, Orders!Finish
  <2> QED
    BY <1>3, <2>1, <2>2, VerdictIsTrue
<1>5. ASSUME NEW a \in Attempts, Orders!PlaceUnnoticed(a) \/ Orders!Break(a)
      PROVE  /\ replies' \in [Attempts -> ReplyType]
             /\ \A b \in Attempts : TrueFor(PurchaseOf[b], replies[b])'
  <2>1. PICK c \in {"500", "lost"} : replies' = [replies EXCEPT ![a] = Orders!Error(c)]
    BY <1>5 DEF Orders!PlaceUnnoticed, Orders!Break, Orders!Finish
  <2> QED
    BY <1>3, <2>1, ErrorsAreTrue, AttemptsAreRequests
<1>6. ASSUME NEW a \in Attempts, Orders!Collect(a)
      PROVE  /\ replies' \in [Attempts -> ReplyType]
             /\ \A b \in Attempts : TrueFor(PurchaseOf[b], replies[b])'
  <2>1. Orders!NoReply \in ReplyType /\ TrueFor(PurchaseOf[a], Orders!NoReply)
    BY DEF Orders!NoReply, ReplyType, TrueFor
  <2> QED
    BY <1>3, <1>6, <2>1 DEF Orders!Collect
<1>7. ASSUME NEW a \in Attempts, Orders!Receive(a) \/ Orders!Place(a)
      PROVE  UNCHANGED replies
  BY <1>7 DEF Orders!Receive, Orders!Place
<1>8. CASE UNCHANGED order
  BY <1>2, <1>8 DEF order
<1> QED
  BY <1>2, <1>4, <1>5, <1>6, <1>7, <1>8 DEF Orders!Next

\* A client is told nothing, or something true.
LEMMA TellIsTrue ==
    ASSUME [EdgeNext]_edgeVars, AnswerInv
    PROVE  \/ UNCHANGED told
           \/ \E a \in Attempts : \E reply \in ReplyType :
                 TrueFor(PurchaseOf[a], reply) /\ Tell(a, reply)
<1>1. ASSUME NEW a \in Attempts, Try(a)
      PROVE  \/ UNCHANGED told
             \/ \E c \in {"400", "401"} : Tell(a, Orders!Error(c))
  BY <1>1 DEF Try, Unauthorized, Limited, Admitted, client
<1>2. ASSUME NEW a \in Attempts, Handle(a)
      PROVE  UNCHANGED told \/ Tell(a, Orders!Error("400")) \/ Tell(a, replies[a])
  BY <1>2 DEF Handle, Deliver, Serve, Relay, client
<1>3. ASSUME NEW a \in Attempts, Unreachable(a) \/ ServeBadly(a) \/ Abandon(a)
      PROVE  UNCHANGED told
  BY <1>3 DEF Unreachable, ServeBadly, Abandon
<1>4. CASE Background
  BY <1>4 DEF Background, SecondPasses, Outage, elsewhere
<1>5. CASE UNCHANGED edgeVars
  BY <1>5 DEF edgeVars, client
<1>6. \A a \in Attempts : /\ PurchaseOf[a] \in Purchases
                          /\ replies[a] \in ReplyType
                          /\ TrueFor(PurchaseOf[a], replies[a])
  BY AttemptsAreRequests DEF AnswerInv
<1> QED
  BY <1>1, <1>2, <1>3, <1>4, <1>5, <1>6, ErrorsAreTrue DEF EdgeNext

\* The answers clients were told stay true.
LEMMA ToldStaysTrue ==
    ASSUME [EdgeNext]_edgeVars, AnswerInv
    PROVE  /\ told' \in [Purchases -> ReplyType]
           /\ \A p \in Purchases : TrueFor(p, told[p])'
<1>1. [Orders!Next]_order
  BY EdgeStepOrders
<1>2. ASSUME NEW p \in Purchases, told'[p] = told[p] PROVE TrueFor(p, told[p])'
  BY <1>1, <1>2, TruthStays DEF AnswerInv, TrueFor
<1>3. CASE UNCHANGED told
  BY <1>2, <1>3 DEF AnswerInv
<1>4. ASSUME NEW a \in Attempts, NEW reply \in ReplyType,
             TrueFor(PurchaseOf[a], reply), Tell(a, reply), told' # told
      PROVE  /\ told' \in [Purchases -> ReplyType]
             /\ \A p \in Purchases : TrueFor(p, told[p])'
  <2> DEFINE q == PurchaseOf[a]
  <2>1. q \in Purchases /\ told' = [told EXCEPT ![q] = reply]
    BY <1>4, AttemptsAreRequests DEF Tell
  <2>2. told' \in [Purchases -> ReplyType] /\ told'[q] = reply
        /\ \A p \in Purchases \ {q} : told'[p] = told[p]
    BY <2>1 DEF AnswerInv
  <2>3. TrueFor(q, told[q])'
    BY <1>1, <1>4, <2>1, <2>2, TruthStays DEF TrueFor
  <2> QED
    BY <1>2, <2>2, <2>3
<1> QED
  BY <1>3, <1>4, TellIsTrue

LEMMA InitAnswerInv == EdgeInit => AnswerInv
BY AttemptsAreRequests
DEF EdgeInit, Orders!Init, Orders!NoReply, AnswerInv, ReplyType, TrueFor

LEMMA NextKeepsAnswerInv == AnswerInv /\ [EdgeNext]_edgeVars => AnswerInv'
<1> SUFFICES ASSUME AnswerInv, [EdgeNext]_edgeVars PROVE AnswerInv'
  OBVIOUS
<1>1. [Orders!Next]_order
  BY EdgeStepOrders
<1> QED
  BY <1>1, PlacedStays, RepliesStayTrue, ToldStaysTrue DEF AnswerInv

\* Whoever is told 201 has the one order of the key, made of the items sent and
\* in the name of the token's customer; who is told 422 has not.  Neither the
\* number of gateways nor retries, races, losses or other users of the key
\* change that.
THEOREM CustomersAreToldTheTruth == EdgeSpec => []AnswersAreTheCustomersOwn
<1>1. AnswerInv => AnswersAreTheCustomersOwn
  BY DEF AnswerInv, AnswersAreTheCustomersOwn, TrueFor, ForwardedBody
<1> QED
  BY <1>1, InitAnswerInv, NextKeepsAnswerInv, PTL DEF EdgeSpec

-----------------------------------------------------------------------------
(***************************************************************************)
(* The boundary between two windows.  What was let in lately divides at    *)
(* the age of the key: the seconds since it was made hold exactly what its *)
(* window admitted, and all of them together at most one maximum more.     *)
(***************************************************************************)
Window == 0..(WindowSeconds - 1)

\* The seconds for which the key of i exists.
Age(i) == WindowSeconds - counters[i].ttl

Within(f, n) == SumFunctionOnSet(f, 0..n)

RecentInv ==
    /\ recent \in [Identities -> [Window -> Nat]]
    /\ \A i \in Identities :
          /\ counters[i] = NoKey =>
                /\ recent[i][0] = 0
                /\ Within(recent[i], WindowSeconds - 1) <= MaxRequests
          /\ counters[i] # NoKey =>
                /\ Within(recent[i], Age(i)) = admitted[i]
                /\ Within(recent[i], WindowSeconds - 1) <= admitted[i] + MaxRequests

WindowInv == IInv /\ RecentInv

\* The sums over the first seconds of a window are naturals.
LEMMA WithinIsNat ==
    ASSUME NEW f \in [Window -> Nat], NEW n \in Window
    PROVE  Within(f, n) \in Nat
<1>1. 0..n \subseteq Window /\ 0 \in Int /\ n \in Int
  BY LimitAssumption DEF Window
<1>2. \A x \in 0..n : f[x] \in Nat
  BY <1>1
<1>3. IsFiniteSet(0..n)
  BY <1>1, FS_Interval
<1> QED
  BY <1>2, <1>3, SumIsNat DEF Within

\* Nothing lately.
LEMMA ZerosAreNothing ==
    ASSUME NEW n \in Window
    PROVE  Within([m \in Window |-> 0], n) = 0
<1>1. 0..n \subseteq Window /\ 0 \in Int /\ n \in Int
  BY LimitAssumption DEF Window
<1>2. IsFiniteSet(0..n)
  BY <1>1, FS_Interval
<1> QED
  BY <1>1, <1>2, SumOfZeros DEF Within

\* One second more.
LEMMA WithinGrows ==
    ASSUME NEW f \in [Window -> Nat]
    PROVE  /\ Within(f, 0) = f[0]
           /\ \A n \in Nat : n + 1 \in Window =>
                 Within(f, n + 1) = f[n + 1] + Within(f, n)
<1>1. 0 \in Window /\ 0..0 = {0} /\ \A x \in 0..0 : f[x] \in Int
  BY LimitAssumption DEF Window
<1>2. \A n \in Nat : n + 1 \in Window => \A x \in 0..(n + 1) : f[x] \in Int
  BY LimitAssumption DEF Window
<1> QED
  BY <1>1, <1>2, SumUpTo DEF Within

\* A request let in now counts in each of them.
LEMMA WithinCounts ==
    ASSUME NEW f \in [Window -> Nat], NEW n \in Window
    PROVE  /\ [f EXCEPT ![0] = @ + 1] \in [Window -> Nat]
           /\ Within([f EXCEPT ![0] = @ + 1], n) = Within(f, n) + 1
<1> DEFINE g == [f EXCEPT ![0] = @ + 1]
<1>1. 0..n \subseteq Window /\ 0 \in 0..n /\ n \in Nat /\ 0 \in Window
  BY LimitAssumption DEF Window
<1> IsFiniteSet(0..n)
  BY <1>1, FS_Interval
<1>2. /\ g \in [Window -> Nat] /\ g[0] = f[0] + 1
      /\ \A x \in (0..n) \ {0} : f[x] = g[x]
  BY <1>1
<1>3. \A x \in 0..n : f[x] \in Int /\ g[x] \in Int
  BY <1>1, <1>2
<1>4. f[0] \in Nat /\ Within(f, n) \in Nat
  BY <1>1, WithinIsNat
<1> HIDE DEF g
<1>5. Within(g, n) = Within(f, n) + (g[0] - f[0])
  BY <1>1, <1>2, <1>3, SumChanges DEF Within
<1> QED
  BY <1>2, <1>4, <1>5 DEF g

\* A second later each of them is what the one before it was.
LEMMA WithinShifts ==
    ASSUME NEW f \in [Window -> Nat], NEW g,
           g = [n \in Window |-> IF n = 0 THEN 0 ELSE f[n - 1]]
    PROVE  /\ g \in [Window -> Nat]
           /\ g[0] = 0
           /\ \A n \in Nat : n + 1 \in Window => Within(g, n + 1) = Within(f, n)
           /\ Within(g, WindowSeconds - 1) <= Within(f, WindowSeconds - 1)
<1>1. /\ g \in [Window -> Nat] /\ g[0] = 0
      /\ \A n \in Nat : n + 1 \in Window => n \in Window /\ g[n + 1] = f[n]
  <2>1. \A n \in Window : n # 0 => n - 1 \in Window
    BY LimitAssumption DEF Window
  <2>2. \A n \in Nat : n + 1 \in Window => n \in Window /\ n + 1 # 0 /\ (n + 1) - 1 = n
    BY LimitAssumption DEF Window
  <2>3. 0 \in Window
    BY LimitAssumption DEF Window
  <2> QED
    BY <2>1, <2>2, <2>3
<1> DEFINE A == {n \in Nat : n + 1 \in Window => Within(g, n + 1) = Within(f, n)}
<1>2. 0 \in A
  <2> SUFFICES ASSUME 0 + 1 \in Window PROVE Within(g, 0 + 1) = Within(f, 0)
    OBVIOUS
  <2>1. Within(g, 0 + 1) = g[0 + 1] + Within(g, 0)
    BY <1>1, WithinGrows
  <2>2. Within(g, 0) = 0 /\ g[0 + 1] = f[0] /\ f[0] \in Nat /\ Within(f, 0) = f[0]
    BY <1>1, WithinGrows
  <2> QED
    BY <2>1, <2>2
<1>3. ASSUME NEW n \in Nat, n \in A PROVE n + 1 \in A
  <2> SUFFICES ASSUME n + 1 + 1 \in Window
               PROVE  Within(g, n + 1 + 1) = Within(f, n + 1)
    OBVIOUS
  <2>1. n + 1 \in Nat /\ n + 1 \in Window
    BY LimitAssumption DEF Window
  <2>2. Within(g, n + 1) = Within(f, n)
    BY <1>3, <2>1
  <2>3. Within(g, n + 1 + 1) = g[n + 1 + 1] + Within(g, n + 1)
    BY <1>1, <2>1, WithinGrows
  <2>4. g[n + 1 + 1] = f[n + 1]
    BY <1>1, <2>1
  <2>5. Within(f, n + 1) = f[n + 1] + Within(f, n)
    BY <2>1, WithinGrows
  <2> QED
    BY <2>2, <2>3, <2>4, <2>5
<1>4. \A n \in Nat : n + 1 \in Window => Within(g, n + 1) = Within(f, n)
  <2>1. \A n \in Nat : n \in A => n + 1 \in A
    BY <1>3
  <2>2. Nat \subseteq A
    <3> HIDE DEF A
    <3> QED
      BY <1>2, <2>1, NaturalsIn
  <2> QED
    BY <2>2
<1>5. Within(g, WindowSeconds - 1) <= Within(f, WindowSeconds - 1)
  <2>1. CASE WindowSeconds = 1
    <3>1. 0 \in Window
      BY LimitAssumption DEF Window
    <3>2. Within(g, 0) = 0 /\ Within(f, 0) \in Nat
      BY <1>1, <3>1, WithinGrows, WithinIsNat
    <3> QED
      BY <2>1, <3>2
  <2>2. CASE WindowSeconds # 1
    <3> DEFINE n == WindowSeconds - 2
    <3>1. n \in Nat /\ n + 1 = WindowSeconds - 1 /\ n + 1 \in Window /\ n \in Window
      BY <2>2, LimitAssumption DEF Window
    <3> HIDE DEF n
    <3>2. Within(g, n + 1) = Within(f, n)
      BY <1>4, <3>1
    <3>3. Within(f, n + 1) = f[n + 1] + Within(f, n)
      BY <3>1, WithinGrows
    <3>4. f[n + 1] \in Nat /\ Within(f, n) \in Nat
      BY <3>1, WithinIsNat
    <3> QED
      BY <3>1, <3>2, <3>3, <3>4
  <2> QED
    BY <2>1, <2>2
<1> QED
  BY <1>1, <1>4, <1>5

LEMMA InitRecentInv == EdgeInit => RecentInv
<1> SUFFICES ASSUME EdgeInit PROVE RecentInv
  OBVIOUS
<1> DEFINE zeros == [n \in Window |-> 0]
<1>1. recent = [i \in Identities |-> zeros] /\ counters = [i \in Identities |-> NoKey]
  BY DEF EdgeInit, Init, Window
<1>2. WindowSeconds - 1 \in Window /\ 0 \in Window /\ zeros \in [Window -> Nat]
  BY LimitAssumption DEF Window
<1>3. Within(zeros, WindowSeconds - 1) = 0
  BY <1>2, ZerosAreNothing
<1> QED
  BY <1>1, <1>2, <1>3, LimitAssumption DEF RecentInv

\* What a request that Redis counts leaves of an identity's key.
LEMMA CountedKey ==
    ASSUME IInv, NEW i \in Identities,
           counters' = [counters EXCEPT ![i] = IncrementWindow(i)]
    PROVE  /\ counters'[i] # NoKey
           /\ counters[i] = NoKey => Age(i)' = 0 /\ admitted[i] = 0
           /\ counters[i] # NoKey => Age(i)' = Age(i)
           /\ \A j \in Identities \ {i} : counters'[j] = counters[j]
<1>1. /\ counters'[i] = IncrementWindow(i)
      /\ \A j \in Identities \ {i} : counters'[j] = counters[j]
  BY DEF IInv, TypeOK
<1>2. IncrementWindow(i) # NoKey
  <2>1. IncrementWindow(i) \in Counter
    BY IncrementedKey DEF IInv
  <2> QED
    BY <2>1 DEF Counter, NoKey
<1>3. counters[i] = NoKey => Age(i)' = 0 /\ admitted[i] = 0
  <2> SUFFICES ASSUME counters[i] = NoKey PROVE Age(i)' = 0 /\ admitted[i] = 0
    OBVIOUS
  <2>1. IncrementWindow(i).ttl = WindowSeconds
    BY DEF IncrementWindow
  <2>2. admitted[i] + unanswered[i] = 0 /\ admitted[i] \in Nat /\ unanswered[i] \in Nat
    BY LimitAssumption DEF IInv, TypeOK, CounterInv, NoKey
  <2> QED
    BY <1>1, <2>1, <2>2, LimitAssumption DEF Age
<1>4. counters[i] # NoKey => Age(i)' = Age(i)
  BY <1>1 DEF Age, IncrementWindow
<1> QED
  BY <1>1, <1>2, <1>3, <1>4

\* The age of a key is that of a second of the window.
LEMMA AgeIsInWindow ==
    ASSUME TypeOK, NEW i \in Identities, counters[i] # NoKey
    PROVE  Age(i) \in Window
<1>1. counters[i].ttl \in 1..WindowSeconds
  BY DEF TypeOK, Counter
<1> QED
  BY <1>1, LimitAssumption DEF Age, Window

\* A request that is let in on Redis' word counts in the window and lately.
LEMMA CountKeepsRecentInv ==
    ASSUME WindowInv, NEW g \in Gateways, NEW i \in Identities,
           ~Exceeded(IncrementWindow(i).count), Count(g, i),
           recent' = [recent EXCEPT ![i][0] = @ + 1]
    PROVE  RecentInv'
<1> DEFINE f == recent[i]
<1>1. counters' = [counters EXCEPT ![i] = IncrementWindow(i)]
  BY DEF Count
<1>2. /\ counters'[i] # NoKey
      /\ counters[i] = NoKey => Age(i)' = 0 /\ admitted[i] = 0
      /\ counters[i] # NoKey => Age(i)' = Age(i)
      /\ \A j \in Identities \ {i} : counters'[j] = counters[j]
  BY <1>1, CountedKey DEF WindowInv
<1>3. admitted' = [admitted EXCEPT ![i] = admitted[i] + 1] /\ admitted[i] \in Nat
  <2>1. admitted' = [admitted EXCEPT ![i] = Capped(@ + 1)]
    BY DEF Count
  <2>2. IncrementWindow(i).count = Capped(counters[i].count + 1)
    BY IncrementedKey DEF WindowInv, IInv
  <2>3. counters[i].count \in Nat /\ admitted[i] \in Nat /\ unanswered[i] \in Nat
    BY LimitAssumption DEF WindowInv, IInv, TypeOK, Counter, NoKey
  <2>4. counters[i].count + 1 <= MaxRequests
    BY <2>2, <2>3, LimitAssumption DEF Exceeded, Capped
  <2>5. admitted[i] + unanswered[i] = counters[i].count
    BY <2>3, <2>4, LimitAssumption DEF WindowInv, IInv, CounterInv
  <2>6. Capped(admitted[i] + 1) = admitted[i] + 1
    BY <2>3, <2>4, <2>5, LimitAssumption DEF Capped
  <2> QED
    BY <2>1, <2>3, <2>6
<1>4. /\ admitted'[i] = admitted[i] + 1
      /\ \A j \in Identities \ {i} : admitted'[j] = admitted[j]
  BY <1>3 DEF WindowInv, IInv, TypeOK
<1>5. f \in [Window -> Nat]
  BY DEF WindowInv, RecentInv
<1>6. /\ recent'[i] = [f EXCEPT ![0] = @ + 1]
      /\ \A j \in Identities \ {i} : recent'[j] = recent[j]
      /\ recent' \in [Identities -> [Window -> Nat]]
  <2>1. [f EXCEPT ![0] = @ + 1] \in [Window -> Nat]
    BY <1>5, WithinCounts, LimitAssumption DEF Window
  <2> QED
    BY <2>1 DEF WindowInv, RecentInv
<1> HIDE DEF f
<1>7. \A n \in Window : Within(recent'[i], n) = Within(f, n) + 1 /\ Within(f, n) \in Nat
  BY <1>5, <1>6, WithinCounts, WithinIsNat
<1>8. 0 \in Window /\ WindowSeconds - 1 \in Window
  BY LimitAssumption DEF Window
<1>9. /\ Within(recent'[i], Age(i)') = admitted'[i]
      /\ Within(recent'[i], WindowSeconds - 1) <= admitted'[i] + MaxRequests
  <2>1. CASE counters[i] = NoKey
    <3>1. f[0] = 0 /\ Within(f, WindowSeconds - 1) <= MaxRequests
      BY <2>1 DEF WindowInv, RecentInv, f
    <3>2. Within(f, 0) = 0
      BY <1>5, <3>1, WithinGrows
    <3>3. Within(recent'[i], 0) = 1 /\ Age(i)' = 0 /\ admitted'[i] = 1
      <4>1. Within(recent'[i], 0) = Within(f, 0) + 1
        BY <1>7, <1>8
      <4>2. Age(i)' = 0 /\ admitted[i] = 0
        BY <1>2, <2>1
      <4> QED
        BY <1>4, <3>2, <4>1, <4>2
    <3>4. /\ Within(recent'[i], WindowSeconds - 1) = Within(f, WindowSeconds - 1) + 1
          /\ Within(f, WindowSeconds - 1) \in Nat
      BY <1>7, <1>8
    <3>5. Within(recent'[i], WindowSeconds - 1) <= 1 + MaxRequests
      BY <3>1, <3>4, LimitAssumption
    <3> QED
      BY <3>3, <3>5
  <2>2. CASE counters[i] # NoKey
    <3>1. /\ Within(f, Age(i)) = admitted[i]
          /\ Within(f, WindowSeconds - 1) <= admitted[i] + MaxRequests
      BY <2>2 DEF WindowInv, RecentInv, f
    <3>2. Age(i) \in Window
      BY <2>2, AgeIsInWindow DEF WindowInv, IInv
    <3>3. Within(recent'[i], Age(i)) = admitted[i] + 1 /\ Age(i)' = Age(i)
      BY <1>2, <1>7, <2>2, <3>1, <3>2
    <3>4. /\ Within(recent'[i], WindowSeconds - 1) = Within(f, WindowSeconds - 1) + 1
          /\ Within(f, WindowSeconds - 1) \in Nat
      BY <1>7, <1>8
    <3>5. Within(recent'[i], WindowSeconds - 1) <= admitted[i] + 1 + MaxRequests
      BY <1>3, <3>1, <3>4, LimitAssumption
    <3> QED
      BY <1>4, <3>3, <3>5
  <2> QED
    BY <2>1, <2>2
<1>10. ASSUME NEW j \in Identities \ {i}
       PROVE  /\ counters'[j] = NoKey =>
                    /\ recent'[j][0] = 0
                    /\ Within(recent'[j], WindowSeconds - 1) <= MaxRequests
              /\ counters'[j] # NoKey =>
                    /\ Within(recent'[j], Age(j)') = admitted'[j]
                    /\ Within(recent'[j], WindowSeconds - 1) <= admitted'[j] + MaxRequests
  BY <1>2, <1>4, <1>6 DEF WindowInv, RecentInv, Age
<1> QED
  BY <1>2, <1>6, <1>9, <1>10 DEF RecentInv

\* One that is counted and not let in, or not on Redis' word, does not.
LEMMA KeyKeepsRecentInv ==
    ASSUME WindowInv, NEW i \in Identities,
           counters' = [counters EXCEPT ![i] = IncrementWindow(i)],
           UNCHANGED <<admitted, recent>>
    PROVE  RecentInv'
<1>1. /\ counters'[i] # NoKey
      /\ counters[i] = NoKey => Age(i)' = 0 /\ admitted[i] = 0
      /\ counters[i] # NoKey => Age(i)' = Age(i)
      /\ \A j \in Identities \ {i} : counters'[j] = counters[j]
  BY CountedKey DEF WindowInv
<1>2. /\ Within(recent[i], Age(i)') = admitted[i]
      /\ Within(recent[i], WindowSeconds - 1) <= admitted[i] + MaxRequests
  <2>1. CASE counters[i] = NoKey
    <3>1. /\ recent[i][0] = 0 /\ Within(recent[i], WindowSeconds - 1) <= MaxRequests
          /\ recent[i] \in [Window -> Nat]
      BY <2>1 DEF WindowInv, RecentInv
    <3>2. Within(recent[i], 0) = 0
      BY <3>1, WithinGrows
    <3> QED
      BY <1>1, <2>1, <3>1, <3>2, LimitAssumption
  <2>2. CASE counters[i] # NoKey
    BY <1>1, <2>2 DEF WindowInv, RecentInv
  <2> QED
    BY <2>1, <2>2
<1>3. ASSUME NEW j \in Identities \ {i}
      PROVE  /\ counters'[j] = NoKey =>
                   /\ recent[j][0] = 0
                   /\ Within(recent[j], WindowSeconds - 1) <= MaxRequests
             /\ counters'[j] # NoKey =>
                   /\ Within(recent[j], Age(j)') = admitted[j]
                   /\ Within(recent[j], WindowSeconds - 1) <= admitted[j] + MaxRequests
  BY <1>1 DEF WindowInv, RecentInv, Age
<1> QED
  BY <1>1, <1>2, <1>3 DEF WindowInv, RecentInv

\* A second later the key is a second older, or gone with its window.
LEMMA SecondPassesKeepsRecentInv ==
    ASSUME WindowInv, SecondPasses
    PROVE  RecentInv'
<1> DEFINE Later(f) == [n \in Window |-> IF n = 0 THEN 0 ELSE f[n - 1]]
<1>1. recent' = [i \in Identities |-> Later(recent[i])]
  BY DEF SecondPasses, Window
<1>2. ASSUME NEW i \in Identities
      PROVE  /\ recent[i] \in [Window -> Nat]
             /\ recent'[i] \in [Window -> Nat] /\ recent'[i][0] = 0
             /\ \A n \in Nat : n + 1 \in Window => Within(recent'[i], n + 1) = Within(recent[i], n)
             /\ Within(recent'[i], WindowSeconds - 1) <= Within(recent[i], WindowSeconds - 1)
             /\ Within(recent'[i], WindowSeconds - 1) \in Nat
             /\ Within(recent[i], WindowSeconds - 1) \in Nat
  <2>1. recent[i] \in [Window -> Nat] /\ recent'[i] = Later(recent[i])
    BY <1>1 DEF WindowInv, RecentInv
  <2>2. WindowSeconds - 1 \in Window
    BY LimitAssumption DEF Window
  <2> HIDE DEF Window
  <2> QED
    BY <2>1, <2>2, WithinShifts, WithinIsNat
<1>3. ASSUME NEW i \in Identities
      PROVE  /\ counters'[i] = NoKey =>
                   Within(recent'[i], WindowSeconds - 1) <= MaxRequests
             /\ counters'[i] # NoKey =>
                   /\ Within(recent'[i], Age(i)') = admitted'[i]
                   /\ Within(recent'[i], WindowSeconds - 1) <= admitted'[i] + MaxRequests
  <2>1. /\ counters'[i] = IF counters[i].ttl <= 1 THEN NoKey
                          ELSE [counters[i] EXCEPT !.ttl = @ - 1]
        /\ admitted'[i] = IF counters[i].ttl <= 1 THEN 0 ELSE admitted[i]
    BY DEF SecondPasses, Tick, Forget
  <2>2. counters[i] \in Counter \cup {NoKey} /\ admitted[i] \in 0..MaxRequests
    BY DEF WindowInv, IInv, TypeOK, CounterInv
  <2>3. CASE counters[i] = NoKey
    BY <1>2, <2>1, <2>3, LimitAssumption DEF NoKey, WindowInv, RecentInv
  <2>4. CASE counters[i] # NoKey /\ counters[i].ttl <= 1
    <3>1. counters[i].ttl = 1 /\ Age(i) = WindowSeconds - 1
      BY <2>2, <2>4, LimitAssumption DEF Counter, Age
    <3>2. Within(recent[i], WindowSeconds - 1) = admitted[i]
      BY <2>4, <3>1 DEF WindowInv, RecentInv
    <3> QED
      BY <1>2, <2>1, <2>2, <2>4, <3>2, LimitAssumption
  <2>5. CASE counters[i] # NoKey /\ ~(counters[i].ttl <= 1)
    <3>1. counters[i].ttl \in 2..WindowSeconds /\ counters[i] \in Counter
      BY <2>2, <2>5, LimitAssumption DEF Counter
    <3>2. counters'[i].ttl = counters[i].ttl - 1 /\ counters'[i] # NoKey
      BY <2>1, <2>5, <3>1, LimitAssumption DEF Counter, NoKey
    <3>3. Age(i) \in Nat /\ Age(i) + 1 \in Window /\ Age(i)' = Age(i) + 1
      BY <3>1, <3>2, LimitAssumption DEF Age, Window
    <3>4. Within(recent'[i], Age(i) + 1) = Within(recent[i], Age(i))
      BY <1>2, <3>3
    <3>5. /\ Within(recent[i], Age(i)) = admitted[i]
          /\ Within(recent[i], WindowSeconds - 1) <= admitted[i] + MaxRequests
      BY <2>5 DEF WindowInv, RecentInv
    <3> QED
      BY <1>2, <2>1, <2>2, <2>5, <3>2, <3>3, <3>4, <3>5, LimitAssumption
  <2> QED
    BY <2>3, <2>4, <2>5
<1>4. recent' \in [Identities -> [Window -> Nat]]
  BY <1>1, <1>2
<1> QED
  BY <1>2, <1>3, <1>4 DEF RecentInv

\* Redis forgets all windows, or keeps all.
LEMMA OutageKeepsRecentInv ==
    ASSUME WindowInv, Outage
    PROVE  RecentInv'
<1> DEFINE zeros == [n \in Window |-> 0]
<1>1. \/ Forget(Identities, counters)
      \/ UNCHANGED <<counters, admitted, unanswered, refused>>
  BY DEF Outage, RedisStops
<1>2. recent' = IF counters' = counters THEN recent ELSE [i \in Identities |-> zeros]
  BY DEF Outage, Window
<1>3. CASE counters' = counters /\ UNCHANGED admitted
  BY <1>2, <1>3 DEF WindowInv, RecentInv, Age
<1>4. CASE Forget(Identities, counters)
  <2>1. counters' = [i \in Identities |-> NoKey]
    BY <1>4 DEF Forget
  <2>2. zeros \in [Window -> Nat] /\ 0 \in Window /\ WindowSeconds - 1 \in Window
    BY LimitAssumption DEF Window
  <2>3. Within(zeros, WindowSeconds - 1) = 0
    BY <2>2, ZerosAreNothing
  <2>4. CASE counters' = counters
    <3>1. \A i \in Identities : counters[i] = NoKey
      BY <2>1, <2>4
    <3> QED
      BY <1>2, <2>1, <2>4, <3>1 DEF WindowInv, RecentInv
  <2>5. CASE counters' # counters
    BY <1>2, <2>1, <2>2, <2>3, <2>5, LimitAssumption DEF RecentInv
  <2> QED
    BY <2>4, <2>5
<1> QED
  BY <1>1, <1>3, <1>4

LEMMA NextKeepsWindowInv == WindowInv /\ [EdgeNext]_edgeVars => WindowInv'
<1> SUFFICES ASSUME WindowInv, [EdgeNext]_edgeVars PROVE WindowInv'
  OBVIOUS
<1>1. IInv'
  BY EdgeStepLimits, NextKeepsIInv DEF WindowInv
<1>2. ASSUME UNCHANGED <<vars, recent>> PROVE RecentInv'
  BY <1>2 DEF WindowInv, RecentInv, vars, Age
<1>3. ASSUME NEW a \in Attempts, Try(a)
      PROVE  RecentInv'
  <2> DEFINE i == CustomerOf[PurchaseOf[a]]
  <2>1. i \in Identities
    BY GatewayAssumption
  <2>2. CASE Unauthorized(a)
    BY <1>2, <2>2 DEF Unauthorized
  <2>3. ASSUME NEW g \in Gateways, Limited(a, g) PROVE RecentInv'
    <3>1. Count(g, i) /\ Exceeded(IncrementWindow(i).count) /\ UNCHANGED recent
      BY <2>3 DEF Limited
    <3>2. /\ counters' = [counters EXCEPT ![i] = IncrementWindow(i)]
          /\ UNCHANGED admitted
      BY <3>1 DEF Count
    <3> QED
      BY <2>1, <3>1, <3>2, KeyKeepsRecentInv
  <2>4. ASSUME NEW g \in Gateways, Admitted(a, g) PROVE RecentInv'
    <3>1. LetIn(g, i)
      BY <2>4 DEF Admitted
    <3>2. CASE /\ ~Exceeded(IncrementWindow(i).count) /\ Count(g, i)
               /\ recent' = [recent EXCEPT ![i][0] = @ + 1]
      BY <2>1, <3>2, CountKeepsRecentInv
    <3>3. CASE LoseAnswer(g, i) /\ UNCHANGED recent
      <4>1. /\ counters' = [counters EXCEPT ![i] = IncrementWindow(i)]
            /\ UNCHANGED admitted
        BY <3>3 DEF LoseAnswer
      <4> QED
        BY <2>1, <3>3, <4>1, KeyKeepsRecentInv
    <3>4. CASE UNCHANGED <<vars, recent>>
      BY <1>2, <3>4
    <3> QED
      BY <3>1, <3>2, <3>3, <3>4 DEF LetIn
  <2> QED
    BY <1>3, <2>2, <2>3, <2>4 DEF Try
<1>4. ASSUME NEW a \in Attempts,
             Handle(a) \/ Unreachable(a) \/ ServeBadly(a) \/ Abandon(a)
      PROVE  UNCHANGED <<vars, recent>>
  BY <1>4 DEF Handle, Deliver, Serve, Relay, Unreachable, ServeBadly, Abandon, edge
<1>5. CASE SecondPasses
  BY <1>1, <1>5, SecondPassesKeepsRecentInv DEF WindowInv
<1>6. CASE Outage
  BY <1>1, <1>6, OutageKeepsRecentInv DEF WindowInv
<1>7. CASE (RedisStarts \/ \E g \in Gateways : Notice(g)) /\ UNCHANGED recent
  <2>1. UNCHANGED <<counters, admitted, recent>>
    BY <1>7 DEF RedisStarts, Notice
  <2> QED
    BY <1>1, <2>1 DEF WindowInv, RecentInv, Age
<1>8. CASE UNCHANGED edgeVars
  BY <1>1, <1>2, <1>8 DEF edgeVars, WindowInv
<1> QED
  BY <1>1, <1>2, <1>3, <1>4, <1>5, <1>6, <1>7, <1>8 DEF EdgeNext, Background, WindowInv

\* A fixed window lets more than its maximum through around its boundary, but
\* never more than two windows' worth in any WindowSeconds seconds, whatever the
\* gateways, the losses and the outages of Redis.
THEOREM TwoWindowsAreTheMost == EdgeSpec => []TwoWindowsAtMost
<1>1. EdgeInit => WindowInv
  BY InitEstablishesIInv, InitRecentInv DEF EdgeInit, WindowInv
<1>2. WindowInv => TwoWindowsAtMost
  <2> SUFFICES ASSUME WindowInv, NEW i \in Identities
               PROVE  SumFunction(recent[i]) <= 2 * MaxRequests
    BY DEF TwoWindowsAtMost
  <2>1. recent[i] \in [Window -> Nat] /\ admitted[i] \in Nat /\ admitted[i] <= MaxRequests
    BY LimitAssumption DEF WindowInv, RecentInv, IInv, TypeOK, CounterInv
  <2>2. SumFunction(recent[i]) = Within(recent[i], WindowSeconds - 1)
    BY <2>1 DEF SumFunction, SumFunctionOnSet, FoldFunction, Within, Window
  <2>3. Within(recent[i], WindowSeconds - 1) \in Nat
    BY <2>1, WithinIsNat, LimitAssumption DEF Window
  <2>4. \/ Within(recent[i], WindowSeconds - 1) <= MaxRequests
        \/ Within(recent[i], WindowSeconds - 1) <= admitted[i] + MaxRequests
    BY DEF WindowInv, RecentInv
  <2> QED
    BY <2>1, <2>2, <2>3, <2>4, LimitAssumption
<1> QED
  BY <1>1, <1>2, NextKeepsWindowInv, PTL DEF EdgeSpec
=============================================================================
