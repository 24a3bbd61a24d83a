--------------------------- MODULE OrdersEndpoint ---------------------------
(***************************************************************************)
(* What POST /orders promises to its callers, with no transaction, row or  *)
(* cache: an order is made in one step, at most one for each key, and the  *)
(* order of a key, once made, decides every later answer under that key.   *)
(* IdempotencyKeys implements it; Gateway is built on it.                  *)
(***************************************************************************)
CONSTANTS
    Requests,   \* requests, each of which may be sent many times
    Keys,       \* Idempotency-Key values; they name the orders made under them
    Bodies,     \* hashes of request bodies
    KeyOf,      \* KeyOf[r]: the key request r carries
    BodyOf,     \* BodyOf[r]: the hash of its body
    None        \* stands for no order and no hash

VARIABLES
    serving,  \* serving[r]: "no", "at work", or "made" once r has made the order
    placed,   \* placed[k]: the hash of the body the order of k was made from
    replies   \* replies[r]: the answer to r, until its caller has read it

vars == <<serving, placed, replies>>

NoReply == [code |-> "none", order |-> None, replayed |-> FALSE]

Error(code) == [code |-> code, order |-> None, replayed |-> FALSE]

Init ==
    /\ serving = [r \in Requests |-> "no"]
    /\ placed = [k \in Keys |-> None]
    /\ replies = [r \in Requests |-> NoReply]

Receive(r) ==
    /\ serving[r] = "no" /\ replies[r] = NoReply
    /\ serving' = [serving EXCEPT ![r] = "at work"]
    /\ UNCHANGED <<placed, replies>>

Finish(r, reply) ==
    /\ serving' = [serving EXCEPT ![r] = "no"]
    /\ replies' = [replies EXCEPT ![r] = reply]

MakeOrder(r) ==
    /\ serving[r] = "at work"
    /\ placed[KeyOf[r]] = None
    /\ placed' = [placed EXCEPT ![KeyOf[r]] = BodyOf[r]]

\* The order is made, and its maker will be told unless something breaks.
Place(r) ==
    /\ MakeOrder(r)
    /\ serving' = [serving EXCEPT ![r] = "made"]
    /\ UNCHANGED replies

\* The order is made, and its maker is told of an error.
PlaceUnnoticed(r) ==
    /\ MakeOrder(r)
    /\ Finish(r, Error("500"))

\* What the order of its key means to request r.
Verdict(r) ==
    IF placed[KeyOf[r]] # BodyOf[r] THEN Error("422")
    ELSE [code |-> "201", order |-> KeyOf[r], replayed |-> serving[r] # "made"]

Answer(r) ==
    /\ serving[r] # "no"
    /\ placed[KeyOf[r]] # None
    /\ Finish(r, Verdict(r))
    /\ UNCHANGED placed

\* An error, or no answer, whatever has been done.
Break(r) ==
    /\ serving[r] # "no"
    /\ \E code \in {"500", "lost"} : Finish(r, Error(code))
    /\ UNCHANGED placed

\* The caller has read the answer, or nobody ever will.
Collect(r) ==
    /\ replies[r] # NoReply
    /\ replies' = [replies EXCEPT ![r] = NoReply]
    /\ UNCHANGED <<serving, placed>>

Next ==
    \E r \in Requests :
        \/ Receive(r) \/ Place(r) \/ PlaceUnnoticed(r) \/ Answer(r) \/ Break(r)
        \/ Collect(r)

Spec == Init /\ [][Next]_vars
=============================================================================
