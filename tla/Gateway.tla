------------------------------ MODULE Gateway ------------------------------
(***************************************************************************)
(* POST /orders from the customer's side: programs that go on trying until *)
(* they know what became of their purchase, any number of gateways that    *)
(* authenticate, limit and relay each attempt, and behind them the order   *)
(* service as OrdersEndpoint specifies it.                                 *)
(*                                                                         *)
(* An attempt is a connection of such a program.  A purchase may have      *)
(* several, so that a retry races with an attempt that is still under way. *)
(* The guards and the handler up to its fetch are one step: they await     *)
(* only Redis, whose counting is one command.                              *)
(***************************************************************************)
EXTENDS RateLimiter, Functions

CONSTANTS
    Purchases,
    Attempts,
    PurchaseOf,    \* PurchaseOf[a]: the purchase that attempt a is for
    CustomerOf,    \* CustomerOf[p]: the subject of the token
    ClaimOf,       \* ClaimOf[p]: the customerId in the body the client sends
    ItemsOf,       \* ItemsOf[p]: the rest of that body
    HeaderKey,     \* HeaderKey[p]: the Idempotency-Key
    Keys,
    Careless,      \* the purchases whose requests may lack something
    MaxFailures,   \* bound on broken connections, crashes and errors
    None

ASSUME GatewayAssumption ==
    /\ PurchaseOf \in [Attempts -> Purchases]
    /\ CustomerOf \in [Purchases -> Identities]
    /\ ClaimOf \in [Purchases -> Identities]
    /\ HeaderKey \in [Purchases -> Keys]
    /\ \A p \in Purchases : <<ItemsOf[p], CustomerOf[p]>> # None
    /\ MaxFailures \in Nat

VARIABLES
    form,      \* form[p]: what requests for p lack, if anything; never changes
    at,        \* at[a]: how far attempt a has come
    heard,     \* heard[a]: whether the client still waits for attempt a
    told,      \* told[p]: the answer that ended purchase p
    failures,
    recent,    \* recent[i][n]: requests of i that Redis let in n seconds ago
    serving, placed, replies   \* the order service

Forms == {"proper", "no token", "no key", "malformed"}

\* Mutant of ForwardedBody: the client's own customerId takes precedence.
ClientBody(p) == <<ItemsOf[p], ClaimOf[p]>>

\* { ...body, customerId } as OrdersProxyController.create sends it on.
ForwardedBody(p) == <<ItemsOf[p], CustomerOf[p]>>

Orders == INSTANCE OrdersEndpoint WITH
    Requests <- Attempts,
    KeyOf <- [a \in Attempts |-> HeaderKey[PurchaseOf[a]]],
    BodyOf <- [a \in Attempts |-> ForwardedBody(PurchaseOf[a])],
    Bodies <- {ForwardedBody(p) : p \in Purchases}

client == <<at, heard, told, failures>>

order == <<serving, placed, replies>>

edgeVars == <<vars, form, client, recent, order>>

EdgeInit ==
    /\ Init
    /\ Orders!Init
    /\ form \in {f \in [Purchases -> Forms] :
                    \A p \in Purchases \ Careless : f[p] = "proper"}
    /\ at = [a \in Attempts |-> "client"]
    /\ heard = [a \in Attempts |-> TRUE]
    /\ told = [p \in Purchases |-> Orders!NoReply]
    /\ failures = 0
    /\ recent = [i \in Identities |-> [n \in 0..(WindowSeconds - 1) |-> 0]]

-----------------------------------------------------------------------------
Goto(a, place) == at' = [at EXCEPT ![a] = place]

Failure ==
    /\ failures < MaxFailures
    /\ failures' = failures + 1

\* The answer to attempt a, if it ends its purchase and somebody still waits.
\* After 429, 500 or a broken connection the client tries again.
Tell(a, reply) ==
    LET p == PurchaseOf[a] IN
    told' = IF heard[a] /\ told[p] = Orders!NoReply
               /\ reply.code \in {"201", "400", "401", "422"}
            THEN [told EXCEPT ![p] = reply] ELSE told

Sent(a) ==
    /\ at[a] = "client"
    /\ told[PurchaseOf[a]] = Orders!NoReply

\* JwtAuthGuard comes before the limiter, which is not asked.
Unauthorized(a) ==
    /\ Sent(a)
    /\ form[PurchaseOf[a]] = "no token"
    /\ Tell(a, Orders!Error("401"))
    /\ UNCHANGED <<vars, form, at, heard, failures, recent, order>>

\* RateLimitGuard: counted, and one too many.
Limited(a, g) ==
    LET i == CustomerOf[PurchaseOf[a]] IN
    /\ Sent(a)
    /\ form[PurchaseOf[a]] # "no token"
    /\ Exceeded(IncrementWindow(i).count)
    /\ Count(g, i)
    /\ UNCHANGED <<form, client, recent, order>>

\* RateLimitGuard lets identity i in: on Redis' word, or because Redis cannot be
\* asked, or did not answer.
LetIn(g, i) ==
    \/ /\ ~Exceeded(IncrementWindow(i).count)
       /\ Count(g, i)
       /\ recent' = [recent EXCEPT ![i][0] = @ + 1]
       /\ UNCHANGED failures
    \/ /\ LoseAnswer(g, i)
       /\ Failure
       /\ UNCHANGED recent
    \/ /\ ~(healthy[g] /\ redisUp)
       /\ UNCHANGED <<vars, recent, failures>>

\* OrdersProxyController.create, as far as its fetch.
Admitted(a, g) ==
    /\ Sent(a)
    /\ form[PurchaseOf[a]] # "no token"
    /\ LetIn(g, CustomerOf[PurchaseOf[a]])
    /\ IF form[PurchaseOf[a]] = "no key"
       THEN Tell(a, Orders!Error("400")) /\ UNCHANGED at
       ELSE Goto(a, "fetch") /\ UNCHANGED told
    /\ UNCHANGED <<form, heard, order>>

-----------------------------------------------------------------------------
edge == <<vars, form, recent>>

\* The connection ends.
Done(a) ==
    /\ Goto(a, "client")
    /\ heard' = [heard EXCEPT ![a] = TRUE]

\* The order service receives the request; its pipes may refuse it at once.
Deliver(a) ==
    /\ at[a] = "fetch"
    /\ IF form[PurchaseOf[a]] = "malformed"
       THEN Tell(a, Orders!Error("400")) /\ Done(a) /\ UNCHANGED order
       ELSE Orders!Receive(a) /\ Goto(a, "order service") /\ UNCHANGED <<heard, told>>
    /\ UNCHANGED <<edge, failures>>

\* The fetch throws before the order service has the request, or the gateway
\* dies: 500, or no answer.
Unreachable(a) ==
    /\ at[a] = "fetch"
    /\ Failure
    /\ Done(a)
    /\ UNCHANGED <<edge, told, order>>

\* The order service at work.  It does not learn of what becomes of the caller.
Serve(a) ==
    /\ Orders!Place(a) \/ Orders!Answer(a)
    /\ UNCHANGED <<edge, client>>

ServeBadly(a) ==
    /\ Orders!PlaceUnnoticed(a) \/ Orders!Break(a)
    /\ Failure
    /\ UNCHANGED <<edge, at, heard, told>>

\* send relays status, body and Idempotent-Replayed; a fetch that got no answer
\* throws, which makes it a 500.
Relay(a) ==
    /\ at[a] = "order service"
    /\ Orders!Collect(a)
    /\ Tell(a, replies[a])
    /\ Done(a)
    /\ UNCHANGED <<edge, failures>>

\* The client gives up waiting or its connection breaks.  The gateway does not
\* cancel its fetch, nor the order service its work.
Abandon(a) ==
    /\ at[a] # "client" /\ heard[a]
    /\ Failure
    /\ heard' = [heard EXCEPT ![a] = FALSE]
    /\ UNCHANGED <<edge, at, told, order>>

-----------------------------------------------------------------------------
elsewhere == <<form, at, heard, told, order>>

\* A second passes, on the keys of Redis and on what was recent.
SecondPasses ==
    /\ Tick
    /\ recent' = [i \in Identities |-> [n \in 0..(WindowSeconds - 1) |->
                    IF n = 0 THEN 0 ELSE recent[i][n - 1]]]
    /\ UNCHANGED <<elsewhere, failures>>

\* If Redis forgets the windows, what it let in before no longer counts.
Outage ==
    /\ RedisStops
    /\ Failure
    /\ recent' = IF counters' = counters THEN recent
                 ELSE [i \in Identities |-> [n \in 0..(WindowSeconds - 1) |-> 0]]
    /\ UNCHANGED elsewhere

Background ==
    \/ SecondPasses
    \/ Outage
    \/ /\ RedisStarts \/ \E g \in Gateways : Notice(g)
       /\ UNCHANGED <<recent, elsewhere, failures>>

Try(a) == Unauthorized(a) \/ \E g \in Gateways : Limited(a, g) \/ Admitted(a, g)

Handle(a) == Deliver(a) \/ Serve(a) \/ Relay(a)

EdgeNext ==
    \/ \E a \in Attempts :
          Try(a) \/ Handle(a) \/ Unreachable(a) \/ ServeBadly(a) \/ Abandon(a)
    \/ Background

EdgeSpec == EdgeInit /\ [][EdgeNext]_edgeVars

\* Time passes, clients go on trying, and what has been sent is dealt with.
FairEdgeSpec ==
    /\ EdgeSpec
    /\ WF_edgeVars(SecondPasses)
    /\ \A a \in Attempts : WF_edgeVars(Try(a) \/ Handle(a))

-----------------------------------------------------------------------------
\* A fixed window lets more than its maximum through around its boundary, but
\* never more than two windows' worth in any WindowSeconds seconds.
TwoWindowsAtMost ==
    \A i \in Identities :
        SumFunction(recent[i]) <= 2 * MaxRequests

\* Who is told 201 has the one order of the key, made of the items sent and in
\* the name of the token's customer, whoever else used the key and whatever
\* customer the body claimed; who is told 422 has not.
AnswersAreTheCustomersOwn ==
    \A p \in Purchases :
        LET own == placed[HeaderKey[p]] = <<ItemsOf[p], CustomerOf[p]>> IN
        /\ told[p].code = "201" => own /\ told[p].order = HeaderKey[p]
        /\ told[p].code = "422" => ~own /\ placed[HeaderKey[p]] # None

\* Whoever goes on trying is told of an order or why there will be none, through
\* refusals, outages of Redis, lost answers and races with earlier attempts.
CustomersAreServed == \A p \in Purchases : <>(told[p] # Orders!NoReply)
=============================================================================
