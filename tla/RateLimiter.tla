---------------------------- MODULE RateLimiter ----------------------------
(***************************************************************************)
(* The gateway's rate limiter: a fixed window for each identity, counted   *)
(* in Redis for any number of gateway instances, failing open when Redis   *)
(* cannot be asked.                                                        *)
(*                                                                         *)
(* Redis runs the three commands of incrementWindow as one (MULTI), so one *)
(* request is one step.  A key lives for the seconds of its TTL, which Tick *)
(* counts down; that life is the window.  The code only tests whether the  *)
(* counter exceeds the maximum, so the counter stops at one more.          *)
(***************************************************************************)
EXTENDS Naturals

CONSTANTS
    Gateways,
    Identities,      \* customers, or addresses of clients without a token
    MaxRequests,     \* rateLimit.max
    WindowSeconds    \* rateLimit.windowSeconds

ASSUME LimitAssumption ==
    /\ MaxRequests \in Nat \ {0}
    /\ WindowSeconds \in Nat \ {0}

VARIABLES
    redisUp,
    healthy,    \* healthy[g]: what gateway g last heard from its connection
    counters,   \* counters[i]: the key rl:<i>
    admitted,   \* admitted[i]: requests let in by the counter in this window
    unanswered, \* unanswered[i]: counted in this window, but the answer was lost
    refused     \* the identities refused in this window

vars == <<redisUp, healthy, counters, admitted, unanswered, refused>>

NoKey == [count |-> 0, ttl |-> 0]

\* Every key has a time to live.
Counter == [count : 1..(MaxRequests + 1), ttl : 1..WindowSeconds]

\* Every key in Redis counts at least one request and has a time to live, which
\* EXPIRE in the same MULTI as INCR is there for.
TypeOK ==
    /\ redisUp \in BOOLEAN
    /\ healthy \in [Gateways -> BOOLEAN]
    /\ counters \in [Identities -> Counter \cup {NoKey}]
    /\ admitted \in [Identities -> 0..(MaxRequests + 1)]
    /\ unanswered \in [Identities -> 0..(MaxRequests + 1)]
    /\ refused \subseteq Identities

Init ==
    /\ redisUp = TRUE
    /\ healthy = [g \in Gateways |-> FALSE]
    /\ counters = [i \in Identities |-> NoKey]
    /\ admitted = [i \in Identities |-> 0]
    /\ unanswered = [i \in Identities |-> 0]
    /\ refused = {}

-----------------------------------------------------------------------------
\* The events 'ready', for which Redis has to be up, and 'error', which may also
\* come of the network, some time after the fact.
Notice(g) ==
    /\ healthy[g] \/ redisUp
    /\ healthy' = [healthy EXCEPT ![g] = ~@]
    /\ UNCHANGED <<redisUp, counters, admitted, unanswered, refused>>

Capped(n) == IF n > MaxRequests THEN MaxRequests + 1 ELSE n

\* Mutant of IncrementWindow: EXPIRE without NX.
IncrementAndProlong(i) ==
    [count |-> Capped(counters[i].count + 1), ttl |-> WindowSeconds]

\* MULTI, INCR, EXPIRE NX, TTL: the key as the request leaves it.
IncrementWindow(i) ==
    [count |-> Capped(counters[i].count + 1),
     ttl |-> IF counters[i] = NoKey THEN WindowSeconds ELSE counters[i].ttl]

\* Mutant of Exceeded: one request too many.
ExceededLate(n) == n > MaxRequests + 1

\* Mutant of Exceeded: one request too few.
ExceededEarly(n) == n >= MaxRequests

Exceeded(n) == n > MaxRequests

\* canActivate, when Redis answers.
Count(g, i) ==
    /\ healthy[g] /\ redisUp
    /\ counters' = [counters EXCEPT ![i] = IncrementWindow(i)]
    /\ IF Exceeded(IncrementWindow(i).count)
       THEN /\ refused' = refused \cup {i}
            /\ UNCHANGED admitted
       ELSE /\ admitted' = [admitted EXCEPT ![i] = Capped(@ + 1)]
            /\ UNCHANGED refused
    /\ UNCHANGED <<redisUp, healthy, unanswered>>

\* The connection breaks after Redis has counted the request.  The client
\* library may send it again; if it gives up, the request is let in.
LoseAnswer(g, i) ==
    /\ healthy[g] /\ redisUp
    /\ counters' = [counters EXCEPT ![i] = IncrementWindow(i)]
    /\ unanswered' = [unanswered EXCEPT ![i] = Capped(@ + 1)]
    /\ healthy' = [healthy EXCEPT ![g] = FALSE]
    /\ UNCHANGED <<redisUp, admitted, refused>>

-----------------------------------------------------------------------------
\* The window of each identity in S is over.
Forget(S, after) ==
    /\ counters' = [i \in Identities |-> IF i \in S THEN NoKey ELSE after[i]]
    /\ admitted' = [i \in Identities |-> IF i \in S THEN 0 ELSE admitted[i]]
    /\ unanswered' = [i \in Identities |-> IF i \in S THEN 0 ELSE unanswered[i]]
    /\ refused' = refused \ S

\* A second passes.
Tick ==
    /\ \E i \in Identities : counters[i] # NoKey
    /\ Forget({i \in Identities : counters[i].ttl <= 1},
              [i \in Identities |-> [counters[i] EXCEPT !.ttl = @ - 1]])
    /\ UNCHANGED <<redisUp, healthy>>

\* Redis stops, with or without what it held, or comes back.
RedisStops ==
    /\ redisUp
    /\ redisUp' = FALSE
    /\ \/ Forget(Identities, counters)
       \/ UNCHANGED <<counters, admitted, unanswered, refused>>
    /\ UNCHANGED healthy

RedisStarts ==
    /\ ~redisUp
    /\ redisUp' = TRUE
    /\ UNCHANGED <<healthy, counters, admitted, unanswered, refused>>

\* A request of a gateway that cannot ask Redis is let in and changes nothing,
\* and so is not a step.
Next ==
    \/ \E g \in Gateways :
          Notice(g) \/ \E i \in Identities : Count(g, i) \/ LoseAnswer(g, i)
    \/ Tick
    \/ RedisStops
    \/ RedisStarts

Spec == Init /\ [][Next]_vars

-----------------------------------------------------------------------------
\* The limit is enforced across all gateway instances: while Redis can be asked,
\* they let an identity in at most MaxRequests times in a window together.
LimitIsShared == \A i \in Identities : admitted[i] <= MaxRequests

\* No identity is refused before its budget for the window is spent, on requests
\* that were let in or on those whose answer was lost.
RefusedOnlyWhenSpent ==
    \A i \in refused : admitted[i] + unanswered[i] >= MaxRequests
=============================================================================
