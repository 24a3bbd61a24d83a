--------------------------- MODULE IdempotencyKeys ---------------------------
(***************************************************************************)
(* POST /orders under concurrent requests: IdempotencyService.execute, one *)
(* action for each await, of any number of requests on any number of       *)
(* instances of the order service, against one Postgres and one Redis.     *)
(*                                                                         *)
(* Each request runs in its own process, as far as crashes go, and creates *)
(* at most one order, so the order of request r is called r.  A client's   *)
(* retry is one more request with the same key.  Postgres is read          *)
(* committed: a row is seen by others once its transaction has committed,  *)
(* and an INSERT of a key some open transaction has inserted waits for the *)
(* end of that transaction.                                                *)
(***************************************************************************)
EXTENDS FiniteSets

CONSTANTS
    Requests,   \* the HTTP requests that may reach the order service
    Keys,       \* Idempotency-Key values
    Bodies,     \* hashes of request bodies
    KeyOf,      \* KeyOf[r]: the key request r carries
    BodyOf,     \* BodyOf[r]: the hash of its body
    None        \* stands for no order and no hash

ASSUME RequestAssumption ==
    /\ KeyOf \in [Requests -> Keys]
    /\ BodyOf \in [Requests -> Bodies]
    /\ None \notin Requests \cup Bodies

VARIABLES
    pc,       \* pc[r]: the await request r has reached
    rows,     \* rows[k]: the committed idempotency_keys row of key k
    drafts,   \* drafts[r]: the row r's open transaction has inserted
    created,  \* the orders committed, each with its outbox row
    cache,    \* cache[k]: the Redis entry of key k
    answers   \* answers[r]: what the client of r was told

vars == <<pc, rows, drafts, created, cache, answers>>

Row == [status : {"ABSENT", "IN_PROGRESS", "COMPLETED"},
        hash : Bodies \cup {None}, response : Requests \cup {None}]

NoRow == [status |-> "ABSENT", hash |-> None, response |-> None]

Entry == [hash : Bodies \cup {None}, response : Requests \cup {None}]

NoEntry == [hash |-> None, response |-> None]

Answer == [code : {"none", "201", "409", "422", "500", "lost"},
           response : Requests \cup {None}, replayed : BOOLEAN]

NoAnswer == [code |-> "none", response |-> None, replayed |-> FALSE]

\* Requests, keys, drafts and cache entries hold values of the schema, and an
\* answer is one of those that execute gives.
TypeOK ==
    /\ pc \in [Requests -> {"idle", "get", "find", "claim", "work", "commit",
                            "refind", "set", "done"}]
    /\ rows \in [Keys -> Row]
    /\ drafts \in [Requests -> Row]
    /\ created \subseteq Requests
    /\ cache \in [Keys -> Entry]
    /\ answers \in [Requests -> Answer]

Init ==
    /\ pc = [r \in Requests |-> "idle"]
    /\ rows = [k \in Keys |-> NoRow]
    /\ drafts = [r \in Requests |-> NoRow]
    /\ created = {}
    /\ cache = [k \in Keys |-> NoEntry]
    /\ answers = [r \in Requests |-> NoAnswer]

-----------------------------------------------------------------------------
Goto(r, label) == pc' = [pc EXCEPT ![r] = label]

Reply(r, answer) ==
    /\ answers' = [answers EXCEPT ![r] = answer]
    /\ Goto(r, "done")

Error(code) == [code |-> code, response |-> None, replayed |-> FALSE]

\* Mutant of Replay: the body is not compared.
ReplayAnyBody(r, hash, order) ==
    [code |-> "201", response |-> order, replayed |-> TRUE]

\* assertSameBody, then the stored response.
Replay(r, hash, order) ==
    IF hash # BodyOf[r] THEN Error("422")
    ELSE [code |-> "201", response |-> order, replayed |-> TRUE]

\* handleExisting: a row of the same body still in progress is a conflict.
HandleExisting(r, row) ==
    IF row.hash = BodyOf[r] /\ row.status # "COMPLETED" THEN Error("409")
    ELSE Replay(r, row.hash, row.response)

Arrive(r) ==
    /\ pc[r] = "idle"
    /\ Goto(r, "get")
    /\ UNCHANGED <<rows, drafts, created, cache, answers>>

\* RedisService.get: the entry, or null on a miss and whenever Redis fails.
RedisGet(k) == {cache[k], NoEntry}

GetCached(r) ==
    /\ pc[r] = "get"
    /\ \E cached \in RedisGet(KeyOf[r]) :
          \/ /\ cached # NoEntry
             /\ Reply(r, Replay(r, cached.hash, cached.response))
          \/ /\ cached = NoEntry
             /\ Goto(r, "find")
             /\ UNCHANGED answers
    /\ UNCHANGED <<rows, drafts, created, cache>>

\* findUnique on the key, before the transaction.
FindKey(r) ==
    /\ pc[r] = "find"
    /\ \/ /\ rows[KeyOf[r]] # NoRow
          /\ Reply(r, HandleExisting(r, rows[KeyOf[r]]))
       \/ /\ rows[KeyOf[r]] = NoRow
          /\ Goto(r, "claim")
          /\ UNCHANGED answers
    /\ UNCHANGED <<rows, drafts, created, cache>>

\* The INSERT of the key waits while another transaction holds it; then it
\* goes through, or fails with P2002 if that transaction committed.
KeyHeldByOther(r) ==
    \E q \in Requests \ {r} : KeyOf[q] = KeyOf[r] /\ drafts[q] # NoRow

\* Mutant of ClaimKey: the column is not unique, the earlier look-up decides.
ClaimUnchecked(r) ==
    /\ pc[r] = "claim"
    /\ drafts' = [drafts EXCEPT
          ![r] = [status |-> "IN_PROGRESS", hash |-> BodyOf[r], response |-> None]]
    /\ Goto(r, "work")
    /\ UNCHANGED <<rows, created, cache, answers>>

\* Mutant of ClaimKey: the key is committed before the work begins.
ClaimOutsideTransaction(r) ==
    /\ pc[r] = "claim"
    /\ rows[KeyOf[r]] = NoRow
    /\ rows' = [rows EXCEPT
          ![KeyOf[r]] = [status |-> "IN_PROGRESS", hash |-> BodyOf[r], response |-> None]]
    /\ drafts' = [drafts EXCEPT ![r] = rows'[KeyOf[r]]]
    /\ Goto(r, "work")
    /\ UNCHANGED <<created, cache, answers>>

ClaimKey(r) ==
    /\ pc[r] = "claim"
    /\ ~KeyHeldByOther(r)
    /\ \/ /\ rows[KeyOf[r]] = NoRow
          /\ drafts' = [drafts EXCEPT
                ![r] = [status |-> "IN_PROGRESS", hash |-> BodyOf[r], response |-> None]]
          /\ Goto(r, "work")
       \/ /\ rows[KeyOf[r]] # NoRow
          /\ Goto(r, "refind")
          /\ UNCHANGED drafts
    /\ UNCHANGED <<rows, created, cache, answers>>

\* Mutant of DoWork: Redis is written inside the transaction.
DoWorkAndCache(r) ==
    /\ pc[r] = "work"
    /\ drafts' = [drafts EXCEPT ![r].status = "COMPLETED", ![r].response = r]
    /\ cache' = [cache EXCEPT ![KeyOf[r]] = [hash |-> BodyOf[r], response |-> r]]
    /\ Goto(r, "commit")
    /\ UNCHANGED <<rows, created, answers>>

\* work(tx) and the update of the key row, both inside the transaction.
DoWork(r) ==
    /\ pc[r] = "work"
    /\ drafts' = [drafts EXCEPT ![r].status = "COMPLETED", ![r].response = r]
    /\ Goto(r, "commit")
    /\ UNCHANGED <<rows, created, cache, answers>>

\* The commit makes the key, the order and its event visible in one step.  If
\* its acknowledgement is lost the client is told of an error all the same.
Commit(r) ==
    /\ pc[r] = "commit"
    /\ rows' = [rows EXCEPT ![KeyOf[r]] = drafts[r]]
    /\ drafts' = [drafts EXCEPT ![r] = NoRow]
    /\ created' = created \cup {r}
    /\ \/ Goto(r, "set") /\ UNCHANGED answers
       \/ Reply(r, Error("500"))
    /\ UNCHANGED cache

\* RedisService.setEx, which Redis may fail to do.
RedisSetEx(k, entry) ==
    \/ cache' = [cache EXCEPT ![k] = entry]
    \/ UNCHANGED cache

\* The entry is written, or not, and the answer goes out.
SetCache(r) ==
    /\ pc[r] = "set"
    /\ RedisSetEx(KeyOf[r], [hash |-> BodyOf[r], response |-> r])
    /\ Reply(r, [code |-> "201", response |-> r, replayed |-> FALSE])
    /\ UNCHANGED <<rows, drafts, created>>

\* After P2002: findUnique again, now by the row that caused it.
FindDuplicate(r) ==
    /\ pc[r] = "refind"
    /\ Reply(r, IF rows[KeyOf[r]] = NoRow THEN Error("500")
                ELSE HandleExisting(r, rows[KeyOf[r]]))
    /\ UNCHANGED <<rows, drafts, created, cache>>

\* Mutant of Fail: the transaction is left open.
FailWithoutRollback(r) ==
    /\ pc[r] \in {"find", "claim", "work", "commit", "refind"}
    /\ Reply(r, Error("500"))
    /\ UNCHANGED <<rows, drafts, created, cache>>

\* A query fails, or the transaction outlives Prisma's limit (also while its
\* INSERT waits): whatever the transaction wrote is rolled back.
Fail(r) ==
    /\ pc[r] \in {"find", "claim", "work", "commit", "refind"}
    /\ drafts' = [drafts EXCEPT ![r] = NoRow]
    /\ Reply(r, Error("500"))
    /\ UNCHANGED <<rows, created, cache>>

\* The process dies or the connection to the client does: no answer arrives,
\* and Postgres rolls an open transaction back.
Crash(r) ==
    /\ pc[r] \notin {"idle", "done"}
    /\ drafts' = [drafts EXCEPT ![r] = NoRow]
    /\ Reply(r, Error("lost"))
    /\ UNCHANGED <<rows, created, cache>>

\* Mutant of Expire: what is past its expiresAt is removed from Postgres as well.
ExpireRow(k) ==
    /\ cache[k] # NoEntry
    /\ cache' = [cache EXCEPT ![k] = NoEntry]
    /\ rows' = [rows EXCEPT ![k] = NoRow]
    /\ UNCHANGED <<pc, drafts, created, answers>>

\* The TTL of a Redis entry runs out, or Redis restarts empty.
Expire(k) ==
    /\ cache[k] # NoEntry
    /\ cache' = [cache EXCEPT ![k] = NoEntry]
    /\ UNCHANGED <<pc, rows, drafts, created, answers>>

\* The steps of the handler itself.
Handle(r) ==
    \/ GetCached(r)
    \/ FindKey(r)
    \/ ClaimKey(r)
    \/ DoWork(r)
    \/ Commit(r)
    \/ SetCache(r)
    \/ FindDuplicate(r)

Next ==
    \/ \E r \in Requests : Arrive(r) \/ Handle(r) \/ Fail(r) \/ Crash(r)
    \/ \E k \in Keys : Expire(k)

Spec == Init /\ [][Next]_vars

\* A request that has arrived keeps running; failures, crashes, expiries and
\* arrivals are never forced.
FairSpec == Spec /\ \A r \in Requests : WF_vars(Handle(r))

-----------------------------------------------------------------------------
\* Requests that carry the same key never create two orders between them,
\* however they interleave, fail, and crash (execute).
OneOrderPerKey ==
    \A r, q \in created : KeyOf[r] = KeyOf[q] => r = q

\* Whoever is told 201 is told of an order that is committed, was made under
\* its key from its body, and is flagged as a replay unless the request made
\* it itself: no answer runs ahead of the commit or mixes up two requests.
AnswersAreTrue ==
    \A r \in Requests :
        answers[r].code = "201" =>
            /\ answers[r].response \in created
            /\ KeyOf[answers[r].response] = KeyOf[r]
            /\ BodyOf[answers[r].response] = BodyOf[r]
            /\ answers[r].replayed <=> answers[r].response # r

\* A request is refused as a reuse of the key only if an order was made under
\* that key from another body (assertSameBody).
RefusedForOtherBody ==
    \A r \in Requests :
        answers[r].code = "422" =>
            \E q \in created : KeyOf[q] = KeyOf[r] /\ BodyOf[q] # BodyOf[r]

\* A committed key row is complete and names a committed order of that key, and
\* each committed order has its row: there is no state in between to be seen.
KeyAndOrderCommitTogether ==
    /\ \A k \in Keys :
          rows[k] # NoRow =>
              /\ rows[k].status = "COMPLETED"
              /\ rows[k].response \in created
              /\ KeyOf[rows[k].response] = k
    /\ \A r \in created :
          rows[KeyOf[r]] = [status |-> "COMPLETED", hash |-> BodyOf[r], response |-> r]

\* Redis never says what Postgres, the source of truth, does not.
CacheRepeatsPostgres ==
    \A k \in Keys :
        cache[k] # NoEntry =>
            /\ rows[k].hash = cache[k].hash
            /\ rows[k].response = cache[k].response

\* Every request that arrives comes to an end, also one whose INSERT waits for
\* another's transaction: the waiting cannot be circular.
RequestsComeToAnEnd ==
    \A r \in Requests : pc[r] = "get" ~> pc[r] = "done"

\* Every answer but 500 is one the client may rely on: a 201 is true, and a 422
\* is due to another body.
AnswersAreJust == AnswersAreTrue /\ RefusedForOtherBody

\* What the documentation says of a duplicate (README.md, line 91: "Duplicate
\* key, IN_PROGRESS -> return 409 Conflict"; so does the comment above the 409
\* of handleExisting): a request that looks its key up while another one with
\* the same key and body is at work on it is refused there and then, unless it
\* fails.  The code goes on to its INSERT, waits, and is answered 201.
InProgressIsRefused ==
    [][\A r, q \in Requests :
          /\ r # q /\ KeyOf[r] = KeyOf[q] /\ BodyOf[r] = BodyOf[q]
          /\ drafts[q].status = "IN_PROGRESS"
          /\ pc[r] = "find" /\ pc'[r] # "find"
          => answers'[r].code \in {"409", "500", "lost"}]_vars

\* The endpoint as its callers see it: an order is made when its transaction
\* commits, and named by its key.
Serving ==
    [r \in Requests |-> IF pc[r] \in {"idle", "done"} THEN "no"
                        ELSE IF pc[r] = "set" THEN "made" ELSE "at work"]

Placed == [k \in Keys |-> rows[k].hash]

AsReply(answer) ==
    [code |-> answer.code,
     order |-> IF answer.response = None THEN None ELSE KeyOf[answer.response],
     replayed |-> answer.replayed]

Endpoint == INSTANCE OrdersEndpoint WITH
    serving <- Serving,
    placed <- Placed,
    replies <- [r \in Requests |-> AsReply(answers[r])]

\* Requests, transactions, the second look-up and the cache amount to one order
\* for each key, made in one step, and answers that all follow from it.
ImplementsEndpoint == Endpoint!Spec
=============================================================================
