------------------------ MODULE IdempotencyKeysProofs ------------------------
(***************************************************************************)
(* Proofs about IdempotencyKeys for any requests, keys and bodies.         *)
(***************************************************************************)
EXTENDS IdempotencyKeys, TLAPS

(***************************************************************************)
(* The inductive invariant.                                                *)
(***************************************************************************)
\* An open transaction holds the row that its position in the code says.
DraftInv ==
    \A r \in Requests :
        /\ drafts[r] # NoRow <=> pc[r] \in {"work", "commit"}
        /\ pc[r] = "work" => drafts[r].hash = BodyOf[r]
        /\ pc[r] = "commit" =>
              drafts[r] = [status |-> "COMPLETED", hash |-> BodyOf[r], response |-> r]

\* The primary key is a lock: one open insert, and none of a committed key.
LockInv ==
    \A r \in Requests :
        drafts[r] # NoRow =>
            /\ rows[KeyOf[r]] = NoRow
            /\ \A q \in Requests :
                  drafts[q] # NoRow /\ KeyOf[q] = KeyOf[r] => q = r

\* An order is only there after the commit of the request that made it.
CreatedInv ==
    \A r \in Requests :
        /\ r \in created => pc[r] \in {"set", "done"}
        /\ pc[r] = "set" => r \in created

\* Nobody is told 409: the row of a key in progress is only ever visible inside
\* its own transaction.  The duplicate waits at its INSERT, and then has the
\* first one's response or does the work itself.
DuplicatesWait == \A r \in Requests : answers[r].code # "409"

IInv ==
    /\ TypeOK
    /\ DraftInv
    /\ LockInv
    /\ CreatedInv
    /\ KeyAndOrderCommitTogether
    /\ CacheRepeatsPostgres
    /\ AnswersAreTrue
    /\ RefusedForOtherBody
    /\ DuplicatesWait

-----------------------------------------------------------------------------
\* The invariant holds before any request.
LEMMA InitIInv == Init => IInv
BY RequestAssumption
DEF Init, IInv, TypeOK, DraftInv, LockInv, CreatedInv, KeyAndOrderCommitTogether,
    CacheRepeatsPostgres, AnswersAreTrue, RefusedForOtherBody, DuplicatesWait, Row, NoRow, Entry,
    NoEntry, Answer, NoAnswer

\* The answer made from a stored row or entry that repeats a committed row is
\* true, or refuses another body; it is no conflict.
LEMMA ReplayIsTrue ==
    ASSUME IInv, NEW r \in Requests, r \notin created, rows[KeyOf[r]] # NoRow
    PROVE  LET row == rows[KeyOf[r]]
               a == Replay(r, row.hash, row.response)
           IN  /\ a \in Answer
               /\ a.code # "409"
               /\ row.status = "COMPLETED"
               /\ a.code = "201" =>
                     /\ a.response \in created
                     /\ KeyOf[a.response] = KeyOf[r]
                     /\ BodyOf[a.response] = BodyOf[r]
                     /\ a.replayed <=> a.response # r
               /\ a.code = "422" =>
                     \E q \in created : KeyOf[q] = KeyOf[r] /\ BodyOf[q] # BodyOf[r]
<1> DEFINE row == rows[KeyOf[r]]
           q == row.response
<1>1. /\ KeyOf[r] \in Keys /\ BodyOf[r] \in Bodies
      /\ row.status = "COMPLETED" /\ q \in created /\ KeyOf[q] = KeyOf[r]
      /\ created \subseteq Requests
  BY RequestAssumption DEF IInv, TypeOK, KeyAndOrderCommitTogether
<1>2. row = [status |-> "COMPLETED", hash |-> BodyOf[q], response |-> q]
  BY <1>1 DEF IInv, KeyAndOrderCommitTogether
<1>3. row.hash = BodyOf[q] /\ q # r
  BY <1>1, <1>2
<1>4. CASE row.hash # BodyOf[r]
  BY <1>1, <1>3, <1>4 DEF Replay, Error, Answer
<1>5. CASE row.hash = BodyOf[r]
  BY <1>1, <1>3, <1>5 DEF Replay, Answer
<1> QED
  BY <1>4, <1>5

\* An answer is good for r if it satisfies the three properties of answers.
Good(r, a) ==
    /\ a \in Answer
    /\ a.code # "409"
    /\ a.code = "201" =>
          /\ a.response \in created
          /\ KeyOf[a.response] = KeyOf[r]
          /\ BodyOf[a.response] = BodyOf[r]
          /\ a.replayed <=> a.response # r
    /\ a.code = "422" =>
          \E q \in created : KeyOf[q] = KeyOf[r] /\ BodyOf[q] # BodyOf[r]

LEMMA ErrorIsGood ==
    ASSUME NEW r \in Requests, NEW c \in {"500", "lost"}
    PROVE  Good(r, Error(c))
BY DEF Good, Error, Answer

\* A good answer ends a request, and with it any transaction it had open.
LEMMA ReplyKeepsIInv ==
    ASSUME IInv, NEW r \in Requests, NEW a, Good(r, a), Reply(r, a),
           drafts' = [drafts EXCEPT ![r] = NoRow],
           UNCHANGED <<rows, created, cache>>
    PROVE  IInv'
<1>1. /\ \A q \in Requests : pc'[q] = IF q = r THEN "done" ELSE pc[q]
      /\ \A q \in Requests : answers'[q] = IF q = r THEN a ELSE answers[q]
      /\ \A q \in Requests : drafts'[q] = IF q = r THEN NoRow ELSE drafts[q]
  BY DEF Reply, Goto, IInv, TypeOK
<1>2. TypeOK'
  BY DEF Reply, Goto, IInv, TypeOK, Good, NoRow, Row
<1>3. DraftInv'
  BY <1>1 DEF IInv, DraftInv
<1>4. LockInv'
  BY <1>1 DEF IInv, LockInv
<1>5. CreatedInv'
  BY <1>1 DEF IInv, CreatedInv
<1>6. KeyAndOrderCommitTogether' /\ CacheRepeatsPostgres'
  BY DEF IInv, KeyAndOrderCommitTogether, CacheRepeatsPostgres
<1>7. AnswersAreTrue' /\ RefusedForOtherBody' /\ DuplicatesWait'
  BY <1>1 DEF IInv, AnswersAreTrue, RefusedForOtherBody, DuplicatesWait, Good
<1> QED
  BY <1>2, <1>3, <1>4, <1>5, <1>6, <1>7 DEF IInv

\* A step that only moves r on, outside its transaction.
LEMMA GotoKeepsIInv ==
    ASSUME IInv, NEW r \in Requests, pc[r] \in {"idle", "get", "find", "claim"},
           NEW l \in {"get", "find", "claim", "refind"}, Goto(r, l),
           UNCHANGED <<rows, drafts, created, cache, answers>>
    PROVE  IInv'
<1>1. \A q \in Requests : pc'[q] = IF q = r THEN l ELSE pc[q]
  BY DEF Goto, IInv, TypeOK
<1>2. TypeOK'
  BY DEF Goto, IInv, TypeOK
<1>3. DraftInv' /\ CreatedInv'
  BY <1>1 DEF IInv, DraftInv, CreatedInv
<1>4. LockInv' /\ KeyAndOrderCommitTogether' /\ CacheRepeatsPostgres'
      /\ AnswersAreTrue' /\ RefusedForOtherBody' /\ DuplicatesWait'
  BY DEF IInv, LockInv, KeyAndOrderCommitTogether, CacheRepeatsPostgres,
         AnswersAreTrue, RefusedForOtherBody, DuplicatesWait
<1> QED
  BY <1>2, <1>3, <1>4 DEF IInv

\* A handler past the cache and before its commit has made no order.
LEMMA NotYetCreated ==
    ASSUME IInv, NEW r \in Requests, pc[r] \notin {"set", "done"}
    PROVE  r \notin created
BY DEF IInv, CreatedInv

\* The answer that handleExisting makes of a committed row is good.
LEMMA ExistingIsGood ==
    ASSUME IInv, NEW r \in Requests, r \notin created, rows[KeyOf[r]] # NoRow
    PROVE  Good(r, HandleExisting(r, rows[KeyOf[r]]))
<1>1. HandleExisting(r, rows[KeyOf[r]])
         = Replay(r, rows[KeyOf[r]].hash, rows[KeyOf[r]].response)
  BY ReplayIsTrue DEF HandleExisting
<1> QED
  BY <1>1, ReplayIsTrue DEF Good

\* So is the answer made of a cached entry.
LEMMA CachedIsGood ==
    ASSUME IInv, NEW r \in Requests, r \notin created, cache[KeyOf[r]] # NoEntry
    PROVE  Good(r, Replay(r, cache[KeyOf[r]].hash, cache[KeyOf[r]].response))
<1> DEFINE k == KeyOf[r]
<1>1. k \in Keys
  BY RequestAssumption
<1>2. rows[k].hash = cache[k].hash /\ rows[k].response = cache[k].response
  BY <1>1 DEF IInv, CacheRepeatsPostgres
<1>3. rows[k] # NoRow
  <2>1. cache[k] = [hash |-> cache[k].hash, response |-> cache[k].response]
    BY <1>1 DEF IInv, TypeOK, Entry
  <2> QED
    BY <1>2, <2>1 DEF NoRow, NoEntry
<1> QED
  BY <1>2, <1>3, ReplayIsTrue DEF Good

\* The invariant survives an answer from Redis, or a miss.
LEMMA GetCachedKeepsIInv ==
    ASSUME IInv, NEW r \in Requests, GetCached(r)
    PROVE  IInv'
<1> DEFINE k == KeyOf[r]
<1>1. CASE Goto(r, "find") /\ UNCHANGED answers
  BY <1>1, GotoKeepsIInv DEF GetCached
<1>2. CASE cache[k] # NoEntry /\ Reply(r, Replay(r, cache[k].hash, cache[k].response))
  <2>1. Good(r, Replay(r, cache[k].hash, cache[k].response))
    BY <1>2, NotYetCreated, CachedIsGood DEF GetCached
  <2>2. drafts' = [drafts EXCEPT ![r] = NoRow]
    BY DEF GetCached, IInv, DraftInv, TypeOK
  <2> QED
    BY <1>2, <2>1, <2>2, ReplyKeepsIInv DEF GetCached
<1> QED
  BY <1>1, <1>2 DEF GetCached, RedisGet

\* ... the look-up of the key.
LEMMA FindKeyKeepsIInv ==
    ASSUME IInv, NEW r \in Requests, FindKey(r)
    PROVE  IInv'
<1>1. CASE Goto(r, "claim") /\ UNCHANGED answers
  BY <1>1, GotoKeepsIInv DEF FindKey
<1>2. CASE /\ rows[KeyOf[r]] # NoRow
           /\ Reply(r, HandleExisting(r, rows[KeyOf[r]]))
  <2>1. Good(r, HandleExisting(r, rows[KeyOf[r]]))
    BY <1>2, NotYetCreated, ExistingIsGood DEF FindKey
  <2>2. drafts' = [drafts EXCEPT ![r] = NoRow]
    BY DEF FindKey, IInv, DraftInv, TypeOK
  <2> QED
    BY <1>2, <2>1, <2>2, ReplyKeepsIInv DEF FindKey
<1> QED
  BY <1>1, <1>2 DEF FindKey

\* ... the second look-up after P2002.
LEMMA FindDuplicateKeepsIInv ==
    ASSUME IInv, NEW r \in Requests, FindDuplicate(r)
    PROVE  IInv'
<1> DEFINE a == IF rows[KeyOf[r]] = NoRow THEN Error("500")
                ELSE HandleExisting(r, rows[KeyOf[r]])
<1>1. Good(r, a)
  BY NotYetCreated, ExistingIsGood, ErrorIsGood DEF FindDuplicate
<1>2. drafts' = [drafts EXCEPT ![r] = NoRow]
  BY DEF FindDuplicate, IInv, DraftInv, TypeOK
<1>3. Reply(r, a) /\ UNCHANGED <<rows, created, cache>>
  BY DEF FindDuplicate
<1> HIDE DEF a
<1> QED
  BY <1>1, <1>2, <1>3, ReplyKeepsIInv

\* ... the INSERT of the key.
LEMMA ClaimKeyKeepsIInv ==
    ASSUME IInv, NEW r \in Requests, ClaimKey(r)
    PROVE  IInv'
<1>1. CASE Goto(r, "refind") /\ UNCHANGED drafts
  BY <1>1, GotoKeepsIInv DEF ClaimKey
<1>2. CASE /\ rows[KeyOf[r]] = NoRow
           /\ drafts' = [drafts EXCEPT
                 ![r] = [status |-> "IN_PROGRESS", hash |-> BodyOf[r], response |-> None]]
           /\ Goto(r, "work")
  <2>1. UNCHANGED <<rows, created, cache, answers>> /\ ~KeyHeldByOther(r) /\ pc[r] = "claim"
    BY DEF ClaimKey
  <2>2. /\ \A q \in Requests : pc'[q] = IF q = r THEN "work" ELSE pc[q]
        /\ \A q \in Requests : q # r => drafts'[q] = drafts[q]
        /\ drafts'[r] # NoRow /\ drafts'[r].hash = BodyOf[r]
    BY <1>2 DEF Goto, IInv, TypeOK, NoRow
  <2>3. TypeOK'
    BY <1>2, <2>1, RequestAssumption DEF Goto, IInv, TypeOK, Row
  <2>4. DraftInv'
    BY <2>2 DEF IInv, DraftInv
  <2>5. LockInv'
    BY <1>2, <2>1, <2>2 DEF IInv, LockInv, KeyHeldByOther
  <2>6. CreatedInv'
    BY <2>1, <2>2 DEF IInv, CreatedInv
  <2>7. /\ KeyAndOrderCommitTogether' /\ CacheRepeatsPostgres'
        /\ AnswersAreTrue' /\ RefusedForOtherBody' /\ DuplicatesWait'
    BY <2>1 DEF IInv, KeyAndOrderCommitTogether, CacheRepeatsPostgres,
                AnswersAreTrue, RefusedForOtherBody, DuplicatesWait
  <2> QED
    BY <2>3, <2>4, <2>5, <2>6, <2>7 DEF IInv
<1> QED
  BY <1>1, <1>2 DEF ClaimKey

\* ... the work in the transaction.
LEMMA DoWorkKeepsIInv ==
    ASSUME IInv, NEW r \in Requests, DoWork(r)
    PROVE  IInv'
<1>0. drafts[r] \in Row /\ drafts[r] # NoRow /\ pc[r] = "work"
  BY DEF DoWork, IInv, TypeOK, DraftInv
<1>1. UNCHANGED <<rows, created, cache, answers>>
  BY DEF DoWork
<1>2. /\ \A q \in Requests : pc'[q] = IF q = r THEN "commit" ELSE pc[q]
      /\ \A q \in Requests : q # r => drafts'[q] = drafts[q]
      /\ drafts'[r] = [status |-> "COMPLETED", hash |-> BodyOf[r], response |-> r]
  <2>1. drafts[r].hash = BodyOf[r]
    BY <1>0 DEF IInv, DraftInv
  <2> QED
    BY <1>0, <2>1 DEF DoWork, Goto, IInv, TypeOK, Row
<1>3. drafts'[r] # NoRow
  BY <1>2 DEF NoRow
<1>4. TypeOK'
  BY <1>0, <1>1 DEF DoWork, Goto, IInv, TypeOK, Row
<1>5. DraftInv'
  BY <1>2, <1>3 DEF IInv, DraftInv
<1>6. LockInv'
  BY <1>0, <1>1, <1>2 DEF IInv, LockInv
<1>7. CreatedInv'
  BY <1>0, <1>1, <1>2 DEF IInv, CreatedInv
<1>8. /\ KeyAndOrderCommitTogether' /\ CacheRepeatsPostgres'
      /\ AnswersAreTrue' /\ RefusedForOtherBody' /\ DuplicatesWait'
  BY <1>1 DEF IInv, KeyAndOrderCommitTogether, CacheRepeatsPostgres,
              AnswersAreTrue, RefusedForOtherBody, DuplicatesWait
<1> QED
  BY <1>4, <1>5, <1>6, <1>7, <1>8 DEF IInv

\* ... the commit, acknowledged or not: the one step that publishes an order.
LEMMA CommitKeepsIInv ==
    ASSUME IInv, NEW r \in Requests, Commit(r)
    PROVE  IInv'
<1> DEFINE k == KeyOf[r]
           new == [status |-> "COMPLETED", hash |-> BodyOf[r], response |-> r]
<1>1. /\ k \in Keys /\ BodyOf[r] \in Bodies /\ pc[r] = "commit"
      /\ drafts[r] = new /\ drafts[r] # NoRow /\ rows[k] = NoRow /\ r \notin created
  BY RequestAssumption DEF Commit, IInv, DraftInv, LockInv, CreatedInv
<1>2. PICK l \in {"set", "done"} :
         \A q \in Requests : pc'[q] = IF q = r THEN l ELSE pc[q]
  BY DEF Commit, Reply, Goto, IInv, TypeOK
<1>3. /\ \A q \in Requests : drafts'[q] = IF q = r THEN NoRow ELSE drafts[q]
      /\ \A x \in Keys : rows'[x] = IF x = k THEN new ELSE rows[x]
      /\ created' = created \cup {r}
      /\ cache' = cache
  BY <1>1 DEF Commit, IInv, TypeOK
<1>4. \A q \in Requests :
         answers'[q] = answers[q] \/ answers'[q].code = "500"
  BY DEF Commit, Reply, Error, IInv, TypeOK
<1>5. \A q \in created : KeyOf[q] # k
  <2> SUFFICES ASSUME NEW q \in created, KeyOf[q] = k PROVE FALSE
    OBVIOUS
  <2>1. rows[KeyOf[q]] = [status |-> "COMPLETED", hash |-> BodyOf[q], response |-> q]
    BY DEF IInv, KeyAndOrderCommitTogether
  <2>2. rows[k].status = "COMPLETED"
    BY <2>1
  <2> QED
    BY <1>1, <2>2 DEF NoRow
<1>6. TypeOK'
  <2>1. Error("500") \in Answer
    BY DEF Error, Answer
  <2>2. answers' \in [Requests -> Answer] /\ pc' \in [Requests -> {"idle", "get",
             "find", "claim", "work", "commit", "refind", "set", "done"}]
    BY <2>1 DEF Commit, Reply, Goto, IInv, TypeOK
  <2>3. rows' \in [Keys -> Row] /\ drafts' \in [Requests -> Row]
    BY DEF Commit, IInv, TypeOK, Row, NoRow
  <2> QED
    BY <1>3, <2>2, <2>3 DEF IInv, TypeOK
<1>7. DraftInv'
  BY <1>2, <1>3 DEF IInv, DraftInv
<1>8. LockInv'
  <2> SUFFICES ASSUME NEW q \in Requests, drafts'[q] # NoRow
               PROVE  /\ rows'[KeyOf[q]] = NoRow
                      /\ \A x \in Requests :
                            drafts'[x] # NoRow /\ KeyOf[x] = KeyOf[q] => x = q
    BY DEF LockInv
  <2>1. q # r /\ drafts[q] # NoRow
    BY <1>3
  <2>2. KeyOf[q] # k /\ KeyOf[q] \in Keys
    BY <1>1, <2>1, RequestAssumption DEF IInv, LockInv
  <2> QED
    BY <1>3, <2>1, <2>2 DEF IInv, LockInv
<1>9. CreatedInv'
  BY <1>2, <1>3 DEF IInv, CreatedInv
<1>10. KeyAndOrderCommitTogether'
  <2>1. \A x \in Keys :
           rows'[x] # NoRow =>
               /\ rows'[x].status = "COMPLETED"
               /\ rows'[x].response \in created'
               /\ KeyOf[rows'[x].response] = x
    BY <1>3 DEF IInv, KeyAndOrderCommitTogether
  <2>2. \A q \in created' :
           rows'[KeyOf[q]] = [status |-> "COMPLETED", hash |-> BodyOf[q], response |-> q]
    BY <1>1, <1>3, <1>5, RequestAssumption DEF IInv, TypeOK, KeyAndOrderCommitTogether
  <2> QED
    BY <2>1, <2>2 DEF KeyAndOrderCommitTogether
<1>11. CacheRepeatsPostgres'
  <2>1. cache[k] = NoEntry
    <3>1. cache[k] \in Entry
      BY <1>1 DEF IInv, TypeOK
    <3>2. CASE cache[k] # NoEntry
      BY <1>1, <3>1, <3>2 DEF IInv, CacheRepeatsPostgres, NoRow, NoEntry, Entry
    <3> QED
      BY <3>2
  <2> QED
    BY <1>3, <2>1 DEF IInv, CacheRepeatsPostgres
<1>12. AnswersAreTrue' /\ RefusedForOtherBody' /\ DuplicatesWait'
  BY <1>3, <1>4 DEF IInv, AnswersAreTrue, RefusedForOtherBody, DuplicatesWait
<1> QED
  BY <1>6, <1>7, <1>8, <1>9, <1>10, <1>11, <1>12 DEF IInv

\* ... the write to Redis, done or skipped, and the answer that follows it.
LEMMA SetCacheKeepsIInv ==
    ASSUME IInv, NEW r \in Requests, SetCache(r)
    PROVE  IInv'
<1> DEFINE k == KeyOf[r]
           own == [code |-> "201", response |-> r, replayed |-> FALSE]
           entry == [hash |-> BodyOf[r], response |-> r]
<1>1. /\ k \in Keys /\ BodyOf[r] \in Bodies /\ pc[r] = "set" /\ r \in created
      /\ rows[k].hash = BodyOf[r] /\ rows[k].response = r
  <2>1. /\ k \in Keys /\ BodyOf[r] \in Bodies /\ pc[r] = "set" /\ r \in created
    BY RequestAssumption DEF SetCache, IInv, CreatedInv
  <2>2. rows[KeyOf[r]] = [status |-> "COMPLETED", hash |-> BodyOf[r], response |-> r]
    BY <2>1 DEF IInv, KeyAndOrderCommitTogether
  <2> QED
    BY <2>1, <2>2
<1>2. UNCHANGED <<rows, drafts, created>> /\ Reply(r, own)
  BY DEF SetCache
<1>3. /\ \A q \in Requests : pc'[q] = IF q = r THEN "done" ELSE pc[q]
      /\ \A q \in Requests : answers'[q] = IF q = r THEN own ELSE answers[q]
  BY <1>2 DEF Reply, Goto, IInv, TypeOK
<1>4. \A x \in Keys : cache'[x] = cache[x] \/ (x = k /\ cache'[x] = entry)
  BY DEF SetCache, RedisSetEx, IInv, TypeOK
<1>5. TypeOK'
  <2>1. cache' \in [Keys -> Entry]
    BY <1>1 DEF SetCache, RedisSetEx, IInv, TypeOK, Entry
  <2>2. own \in Answer
    BY DEF Answer
  <2>3. answers' \in [Requests -> Answer] /\ pc' \in [Requests -> {"idle", "get",
             "find", "claim", "work", "commit", "refind", "set", "done"}]
    BY <1>2, <2>2 DEF Reply, Goto, IInv, TypeOK
  <2> QED
    BY <1>2, <2>1, <2>3 DEF IInv, TypeOK
<1>6. DraftInv' /\ LockInv' /\ CreatedInv'
  BY <1>1, <1>2, <1>3 DEF IInv, DraftInv, LockInv, CreatedInv
<1>7. KeyAndOrderCommitTogether'
  BY <1>2 DEF IInv, KeyAndOrderCommitTogether
<1>8. CacheRepeatsPostgres'
  BY <1>1, <1>2, <1>4 DEF IInv, CacheRepeatsPostgres
<1>9. AnswersAreTrue' /\ RefusedForOtherBody' /\ DuplicatesWait'
  BY <1>1, <1>2, <1>3 DEF IInv, AnswersAreTrue, RefusedForOtherBody, DuplicatesWait
<1> QED
  BY <1>5, <1>6, <1>7, <1>8, <1>9 DEF IInv

\* ... the end of an entry's time to live.
LEMMA ExpireKeepsIInv ==
    ASSUME IInv, NEW k \in Keys, Expire(k)
    PROVE  IInv'
<1>1. TypeOK'
  BY DEF Expire, IInv, TypeOK, Entry, NoEntry
<1>2. CacheRepeatsPostgres'
  BY DEF Expire, IInv, TypeOK, CacheRepeatsPostgres
<1>3. /\ DraftInv' /\ LockInv' /\ CreatedInv' /\ KeyAndOrderCommitTogether'
      /\ AnswersAreTrue' /\ RefusedForOtherBody' /\ DuplicatesWait'
  BY DEF Expire, IInv, DraftInv, LockInv, CreatedInv, KeyAndOrderCommitTogether,
         AnswersAreTrue, RefusedForOtherBody, DuplicatesWait
<1> QED
  BY <1>1, <1>2, <1>3 DEF IInv

\* ... and every other step.
LEMMA NextKeepsIInv == IInv /\ [Next]_vars => IInv'
<1> SUFFICES ASSUME IInv, [Next]_vars PROVE IInv'
  OBVIOUS
<1>1. ASSUME NEW r \in Requests, Arrive(r) PROVE IInv'
  BY <1>1, GotoKeepsIInv DEF Arrive
<1>2. ASSUME NEW r \in Requests, Handle(r) PROVE IInv'
  BY <1>2, GetCachedKeepsIInv, FindKeyKeepsIInv, ClaimKeyKeepsIInv, DoWorkKeepsIInv,
     CommitKeepsIInv, SetCacheKeepsIInv, FindDuplicateKeepsIInv DEF Handle
<1>3. ASSUME NEW r \in Requests, Fail(r) PROVE IInv'
  BY <1>3, ErrorIsGood, ReplyKeepsIInv DEF Fail
<1>4. ASSUME NEW r \in Requests, Crash(r) PROVE IInv'
  BY <1>4, ErrorIsGood, ReplyKeepsIInv DEF Crash
<1>5. ASSUME NEW k \in Keys, Expire(k) PROVE IInv'
  BY <1>5, ExpireKeepsIInv
<1>6. CASE UNCHANGED vars
  BY <1>6 DEF vars, IInv, TypeOK, DraftInv, LockInv, CreatedInv, KeyAndOrderCommitTogether,
              CacheRepeatsPostgres, AnswersAreTrue, RefusedForOtherBody, DuplicatesWait
<1> QED
  BY <1>1, <1>2, <1>3, <1>4, <1>5, <1>6 DEF Next

-----------------------------------------------------------------------------
\* Every reachable state satisfies the inductive invariant, with any number of
\* requests, keys and bodies.
THEOREM InductiveInvariant == Spec => []IInv
BY InitIInv, NextKeepsIInv, PTL DEF Spec

\* The handler's state always has its type: no row, entry or answer is made of
\* parts that do not belong together (execute).
THEOREM TypeCorrect == Spec => []TypeOK
<1>1. IInv => TypeOK
  BY DEF IInv
<1> QED
  BY <1>1, InductiveInvariant, PTL

\* However many requests race with the same key, at most one order is made of
\* it: the primary key serialises them and the row outlives the winner.
THEOREM KeysMakeOneOrder == Spec => []OneOrderPerKey
<1>1. IInv => OneOrderPerKey
  <2> SUFFICES ASSUME IInv, NEW r \in created, NEW q \in created, KeyOf[r] = KeyOf[q]
               PROVE  r = q
    BY DEF OneOrderPerKey
  <2>1. /\ rows[KeyOf[r]] = [status |-> "COMPLETED", hash |-> BodyOf[r], response |-> r]
        /\ rows[KeyOf[q]] = [status |-> "COMPLETED", hash |-> BodyOf[q], response |-> q]
    BY DEF IInv, KeyAndOrderCommitTogether
  <2>2. rows[KeyOf[r]].response = r /\ rows[KeyOf[q]].response = q
    BY <2>1
  <2> QED
    BY <2>2
<1> QED
  BY <1>1, InductiveInvariant, PTL

\* Every answer is just: a 201 names a committed order of the request's own key
\* and body, and a 422 is due to an order made from another body.
THEOREM ClientsAreToldTheTruth == Spec => []AnswersAreJust
<1>1. IInv => AnswersAreJust
  BY DEF IInv, AnswersAreJust
<1> QED
  BY <1>1, InductiveInvariant, PTL

\* The conflict that handleExisting has for a duplicate in progress is never the
\* answer, however requests race: no row is committed before it is COMPLETED.
THEOREM NobodyIsInConflict == Spec => []DuplicatesWait
<1>1. IInv => DuplicatesWait
  BY DEF IInv
<1> QED
  BY <1>1, InductiveInvariant, PTL

\* Key and order are one transaction: neither is ever seen without the other.
THEOREM KeyMatchesOrder == Spec => []KeyAndOrderCommitTogether
<1>1. IInv => KeyAndOrderCommitTogether
  BY DEF IInv
<1> QED
  BY <1>1, InductiveInvariant, PTL

\* Redis is never ahead of Postgres, whatever crashes and expires.
THEOREM CacheIsBehindPostgres == Spec => []CacheRepeatsPostgres
<1>1. IInv => CacheRepeatsPostgres
  BY DEF IInv
<1> QED
  BY <1>1, InductiveInvariant, PTL
-----------------------------------------------------------------------------
(***************************************************************************)
(* The refinement of OrdersEndpoint.                                       *)
(***************************************************************************)
\* Nobody is answered before the end of the request.
UnansweredInv == \A r \in Requests : pc[r] # "done" => answers[r] = NoAnswer

LEMMA NextKeepsUnanswered == TypeOK /\ UnansweredInv /\ [Next]_vars => UnansweredInv'
<1> SUFFICES ASSUME TypeOK, UnansweredInv, [Next]_vars PROVE UnansweredInv'
  OBVIOUS
<1>1. ASSUME NEW r \in Requests, Arrive(r) \/ Handle(r) \/ Fail(r) \/ Crash(r)
      PROVE  UnansweredInv'
  <2>1. \/ UNCHANGED answers /\ pc[r] # "done" /\ \E l : Goto(r, l)
        \/ \E a : Reply(r, a)
    BY <1>1 DEF Arrive, Handle, GetCached, FindKey, ClaimKey, DoWork, Commit, SetCache,
                FindDuplicate, Fail, Crash
  <2> QED
    BY <2>1 DEF Reply, Goto, TypeOK, UnansweredInv
<1>2. ASSUME NEW k \in Keys, Expire(k) PROVE UnansweredInv'
  BY <1>2 DEF Expire, UnansweredInv
<1>3. CASE UNCHANGED vars
  BY <1>3 DEF vars, UnansweredInv
<1> QED
  BY <1>1, <1>2, <1>3 DEF Next

replies == [r \in Requests |-> AsReply(answers[r])]

\* A step of r that answers nobody shows in r's own progress and the rows only.
LEMMA GotoMaps ==
    ASSUME TypeOK, NEW r \in Requests, NEW l, Goto(r, l), UNCHANGED <<rows, answers>>
    PROVE  /\ Serving' = [Serving EXCEPT ![r] =
                 IF l \in {"idle", "done"} THEN "no"
                 ELSE IF l = "set" THEN "made" ELSE "at work"]
           /\ Placed' = Placed
           /\ replies' = replies
BY DEF Goto, TypeOK, Serving, Placed, replies, AsReply

\* A step that answers r ends it for its caller.
LEMMA ReplyMaps ==
    ASSUME TypeOK, NEW r \in Requests, NEW a, Reply(r, a)
    PROVE  /\ Serving' = [Serving EXCEPT ![r] = "no"]
           /\ replies' = [replies EXCEPT ![r] = AsReply(a)]
BY DEF Reply, Goto, TypeOK, Serving, replies, AsReply

\* A good answer is the one the contract gives, or a failure.
LEMMA GoodAnswerMaps ==
    ASSUME IInv, NEW r \in Requests, pc[r] \notin {"idle", "done"}, NEW a, Good(r, a),
           a.code # "201" => a \in {Error("422"), Error("500"), Error("lost")},
           Reply(r, a), UNCHANGED rows
    PROVE  Endpoint!Answer(r) \/ Endpoint!Break(r)
<1> DEFINE k == KeyOf[r]
<1>1. k \in Keys /\ created \subseteq Requests /\ BodyOf[r] # None
      /\ None \notin Requests \cup Bodies
  BY RequestAssumption DEF IInv, TypeOK
<1>2. /\ Serving' = [Serving EXCEPT ![r] = "no"]
      /\ replies' = [replies EXCEPT ![r] = AsReply(a)]
      /\ Placed' = Placed
  BY ReplyMaps DEF IInv, Placed
<1>3. Serving[r] # "no" /\ (Serving[r] = "made" <=> pc[r] = "set")
  BY DEF Serving
<1>4. ASSUME NEW q \in created, KeyOf[q] = k PROVE Placed[k] = BodyOf[q] /\ BodyOf[q] # None
  <2>1. rows[KeyOf[q]] = [status |-> "COMPLETED", hash |-> BodyOf[q], response |-> q]
    BY DEF IInv, KeyAndOrderCommitTogether
  <2> QED
    BY <1>1, <1>4, <2>1, RequestAssumption DEF Placed
<1>5. CASE a.code = "201"
  <2> DEFINE q == a.response
  <2>1. q \in created /\ KeyOf[q] = k /\ BodyOf[q] = BodyOf[r] /\ (a.replayed <=> q # r)
        /\ a.replayed \in BOOLEAN /\ q # None
    BY <1>1, <1>5 DEF Good, Answer
  <2>2. q # r <=> pc[r] # "set"
    <3>1. CASE pc[r] = "set"
      <4>1. r \in created
        BY <3>1 DEF IInv, CreatedInv
      <4>2. /\ rows[k] = [status |-> "COMPLETED", hash |-> BodyOf[r], response |-> r]
            /\ rows[k] = [status |-> "COMPLETED", hash |-> BodyOf[q], response |-> q]
        BY <2>1, <4>1 DEF IInv, KeyAndOrderCommitTogether
      <4>3. q = r
        BY <4>2
      <4> QED
        BY <3>1, <4>3
    <3>2. CASE pc[r] # "set"
      BY <2>1, <3>2 DEF IInv, CreatedInv
    <3> QED
      BY <3>1, <3>2
  <2>3. AsReply(a) = [code |-> "201", order |-> k, replayed |-> Serving[r] # "made"]
    BY <1>3, <1>5, <2>1, <2>2 DEF AsReply
  <2>4. Placed[k] = BodyOf[r] /\ Placed[k] # None
    BY <1>4, <2>1
  <2> QED
    BY <1>2, <1>3, <2>3, <2>4
    DEF Endpoint!Answer, Endpoint!Finish, Endpoint!Verdict, replies
<1>6. CASE a = Error("422")
  <2>1. PICK q \in created : KeyOf[q] = k /\ BodyOf[q] # BodyOf[r]
    BY <1>6 DEF Good, Error
  <2>2. Placed[k] # BodyOf[r] /\ Placed[k] # None
    BY <1>4, <2>1
  <2>3. AsReply(a) = [code |-> "422", order |-> None, replayed |-> FALSE]
    BY <1>6 DEF AsReply, Error
  <2> QED
    BY <1>2, <1>3, <2>2, <2>3
    DEF Endpoint!Answer, Endpoint!Finish, Endpoint!Verdict, Endpoint!Error, replies
<1>7. ASSUME NEW c \in {"500", "lost"}, a = Error(c)
      PROVE  Endpoint!Break(r)
  <2>1. AsReply(a) = [code |-> c, order |-> None, replayed |-> FALSE]
    BY <1>7 DEF AsReply, Error
  <2> QED
    BY <1>2, <1>3, <2>1 DEF Endpoint!Break, Endpoint!Finish, Endpoint!Error, replies
<1> QED
  BY <1>5, <1>6, <1>7

\* Replay and HandleExisting give an order, a refusal or a conflict.
LEMMA ReplayIsProper ==
    ASSUME NEW r, NEW hash, NEW order
    PROVE  Replay(r, hash, order).code # "201" => Replay(r, hash, order) = Error("422")
BY DEF Replay, Error

\* ... and of these, handleExisting's other outcome is the refusal.
LEMMA ExistingIsProper ==
    ASSUME NEW r, NEW row, HandleExisting(r, row).code \notin {"201", "409"}
    PROVE  HandleExisting(r, row) = Error("422")
BY ReplayIsProper DEF HandleExisting, Error

\* A request at work that moves on stays at work for its caller.
LEMMA GotoStutters ==
    ASSUME TypeOK, NEW r \in Requests, pc[r] \notin {"idle", "set", "done"},
           NEW l \in {"find", "claim", "work", "commit", "refind"}, Goto(r, l),
           UNCHANGED <<rows, answers>>
    PROVE  UNCHANGED Endpoint!vars
<1>1. Serving[r] = "at work" /\ Serving = [Serving EXCEPT ![r] = "at work"]
  BY DEF Serving
<1>2. Serving' = [Serving EXCEPT ![r] = "at work"] /\ Placed' = Placed /\ replies' = replies
  BY GotoMaps
<1> QED
  BY <1>1, <1>2 DEF Endpoint!vars, replies

\* A request arrives.
LEMMA ArriveMaps ==
    ASSUME TypeOK, UnansweredInv, NEW r \in Requests, Arrive(r)
    PROVE  Endpoint!Receive(r)
<1>1. pc[r] = "idle" /\ Goto(r, "get") /\ UNCHANGED <<rows, answers>>
  BY DEF Arrive
<1>2. answers[r] = NoAnswer
  BY <1>1 DEF UnansweredInv
<1>3. AsReply(NoAnswer) = [code |-> "none", order |-> None, replayed |-> FALSE]
  BY DEF AsReply, NoAnswer
<1>4. Serving[r] = "no" /\ replies[r] = [code |-> "none", order |-> None, replayed |-> FALSE]
  BY <1>1, <1>2, <1>3 DEF Serving, replies
<1>5. Serving' = [Serving EXCEPT ![r] = "at work"] /\ Placed' = Placed /\ replies' = replies
  BY <1>1, GotoMaps, "get" \notin {"idle", "set", "done"}
<1> QED
  BY <1>4, <1>5 DEF Endpoint!Receive, Endpoint!NoReply, replies

\* The commit is the one step that makes the order, whatever becomes of its
\* acknowledgement.
LEMMA CommitMaps ==
    ASSUME IInv, NEW r \in Requests, Commit(r)
    PROVE  Endpoint!Place(r) \/ Endpoint!PlaceUnnoticed(r)
<1> DEFINE k == KeyOf[r]
<1>1. k \in Keys /\ drafts[r].hash = BodyOf[r] /\ rows[k] = NoRow
  <2>1. drafts[r] # NoRow
        /\ drafts[r] = [status |-> "COMPLETED", hash |-> BodyOf[r], response |-> r]
    BY DEF Commit, IInv, DraftInv
  <2>2. drafts[r].hash = BodyOf[r]
    BY <2>1
  <2> QED
    BY <2>1, <2>2, RequestAssumption DEF IInv, LockInv
<1>2. /\ Serving[r] = "at work" /\ Placed[k] = None
      /\ Placed' = [Placed EXCEPT ![k] = BodyOf[r]]
  BY <1>1 DEF Commit, IInv, TypeOK, Serving, Placed, NoRow
<1>3. CASE Goto(r, "set") /\ UNCHANGED answers
  <2>1. Serving' = [Serving EXCEPT ![r] = "made"] /\ replies' = replies
    BY <1>3 DEF Goto, IInv, TypeOK, Serving, replies, AsReply
  <2> QED
    BY <1>2, <2>1 DEF Endpoint!Place, Endpoint!MakeOrder, replies
<1>4. CASE Reply(r, Error("500"))
  <2>1. AsReply(Error("500")) = [code |-> "500", order |-> None, replayed |-> FALSE]
    BY DEF AsReply, Error
  <2>2. /\ Serving' = [Serving EXCEPT ![r] = "no"]
        /\ replies' = [replies EXCEPT ![r] = AsReply(Error("500"))]
    BY <1>4, ReplyMaps DEF IInv
  <2> QED
    BY <1>2, <2>1, <2>2
    DEF Endpoint!PlaceUnnoticed, Endpoint!MakeOrder, Endpoint!Finish, Endpoint!Error, replies
<1> QED
  BY <1>3, <1>4 DEF Commit

\* Every step of a request is one of the contract's, or shows nothing.
LEMMA RequestMaps ==
    ASSUME IInv, UnansweredInv, NEW r \in Requests,
           Arrive(r) \/ Handle(r) \/ Fail(r) \/ Crash(r)
    PROVE  Endpoint!Next \/ UNCHANGED Endpoint!vars
<1>1. TypeOK
  BY DEF IInv
<1>2. CASE Arrive(r)
  BY <1>1, <1>2, ArriveMaps DEF Endpoint!Next
<1>3. CASE Commit(r)
  BY <1>3, CommitMaps DEF Endpoint!Next
<1>4. CASE \/ GetCached(r) /\ Goto(r, "find") /\ UNCHANGED answers
           \/ FindKey(r) /\ Goto(r, "claim") /\ UNCHANGED answers
           \/ ClaimKey(r) \/ DoWork(r)
  <2>1. /\ pc[r] \in {"get", "find", "claim", "work"} /\ UNCHANGED <<rows, answers>>
        /\ \E l \in {"find", "claim", "work", "commit", "refind"} : Goto(r, l)
    BY <1>4 DEF GetCached, FindKey, ClaimKey, DoWork
  <2> QED
    BY <1>1, <2>1, GotoStutters
<1>5. ASSUME NEW a, Good(r, a), Reply(r, a), pc[r] \notin {"idle", "done"}, UNCHANGED rows,
             a.code # "201" => a \in {Error("422"), Error("500"), Error("lost")}
      PROVE  Endpoint!Next
  BY <1>5, GoodAnswerMaps DEF Endpoint!Next
<1>6. CASE Fail(r) \/ Crash(r)
  <2>1. PICK c \in {"500", "lost"} :
           Reply(r, Error(c)) /\ pc[r] \notin {"idle", "done"} /\ UNCHANGED rows
    BY <1>6 DEF Fail, Crash
  <2> QED
    BY <1>5, <2>1, ErrorIsGood
<1>7. CASE SetCache(r)
  <2> DEFINE own == [code |-> "201", response |-> r, replayed |-> FALSE]
  <2>1. Good(r, own)
    BY <1>7 DEF SetCache, IInv, CreatedInv, Good, Answer
  <2> QED
    BY <1>5, <1>7, <2>1 DEF SetCache
<1>8. CASE GetCached(r) /\ cache[KeyOf[r]] # NoEntry
           /\ Reply(r, Replay(r, cache[KeyOf[r]].hash, cache[KeyOf[r]].response))
  <2> DEFINE a == Replay(r, cache[KeyOf[r]].hash, cache[KeyOf[r]].response)
  <2>1. Good(r, a)
    BY <1>8, NotYetCreated, CachedIsGood DEF GetCached
  <2>2. a.code # "201" => a = Error("422")
    BY ReplayIsProper
  <2> HIDE DEF a
  <2>3. Reply(r, a) /\ pc[r] = "get" /\ UNCHANGED rows
    BY <1>8 DEF GetCached, a
  <2> QED
    BY <1>5, <2>1, <2>2, <2>3
<1>9. ASSUME rows[KeyOf[r]] # NoRow, pc[r] \in {"find", "refind"}, UNCHANGED rows,
             Reply(r, HandleExisting(r, rows[KeyOf[r]]))
      PROVE  Endpoint!Next
  <2> DEFINE a == HandleExisting(r, rows[KeyOf[r]])
  <2>1. Good(r, a)
    BY <1>9, NotYetCreated, ExistingIsGood
  <2>2. a.code # "201" => a = Error("422")
    BY <2>1, ExistingIsProper DEF Good
  <2> HIDE DEF a
  <2>3. Reply(r, a)
    BY <1>9 DEF a
  <2> QED
    BY <1>5, <1>9, <2>1, <2>2, <2>3
<1>10. CASE FindKey(r) /\ rows[KeyOf[r]] # NoRow
            /\ Reply(r, HandleExisting(r, rows[KeyOf[r]]))
  BY <1>9, <1>10 DEF FindKey
<1>11. CASE FindDuplicate(r)
  <2>1. CASE rows[KeyOf[r]] = NoRow
    BY <1>5, <1>11, <2>1, ErrorIsGood DEF FindDuplicate
  <2>2. CASE rows[KeyOf[r]] # NoRow
    BY <1>9, <1>11, <2>2 DEF FindDuplicate
  <2> QED
    BY <2>1, <2>2
<1>12. GetCached(r) =>
          \/ Goto(r, "find") /\ UNCHANGED answers
          \/ cache[KeyOf[r]] # NoEntry
             /\ Reply(r, Replay(r, cache[KeyOf[r]].hash, cache[KeyOf[r]].response))
  BY DEF GetCached, RedisGet
<1>13. FindKey(r) =>
          \/ Goto(r, "claim") /\ UNCHANGED answers
          \/ rows[KeyOf[r]] # NoRow /\ Reply(r, HandleExisting(r, rows[KeyOf[r]]))
  BY DEF FindKey
<1> QED
  BY <1>2, <1>3, <1>4, <1>6, <1>7, <1>8, <1>10, <1>11, <1>12, <1>13 DEF Handle

\* The empty database maps to an endpoint without orders.
LEMMA InitMaps == Init => Endpoint!Init
BY RequestAssumption
DEF Init, Endpoint!Init, Endpoint!NoReply, Serving, Placed, AsReply, NoAnswer, NoRow

\* Every step maps to a step of the contract or to none.
LEMMA NextMaps ==
    IInv /\ UnansweredInv /\ [Next]_vars => [Endpoint!Next]_(Endpoint!vars)
<1> SUFFICES ASSUME IInv, UnansweredInv, [Next]_vars
             PROVE  Endpoint!Next \/ UNCHANGED Endpoint!vars
  OBVIOUS
<1>1. ASSUME NEW k \in Keys, Expire(k) PROVE UNCHANGED Endpoint!vars
  BY <1>1 DEF Expire, Endpoint!vars, Serving, Placed, AsReply
<1>2. CASE UNCHANGED vars
  BY <1>2 DEF vars, Endpoint!vars, Serving, Placed, AsReply
<1> QED
  BY <1>1, <1>2, RequestMaps DEF Next

\* To their callers, any number of requests in any number of processes, with
\* their transactions, look-ups, crashes and a cache that forgets, are an
\* endpoint that makes one order of a key in one step and answers by it.
THEOREM KeysImplementEndpoint == Spec => ImplementsEndpoint
<1>1. Init => UnansweredInv
  BY DEF Init, UnansweredInv
<1>2. IInv => TypeOK
  BY DEF IInv
<1> QED
  BY <1>1, <1>2, InductiveInvariant, NextKeepsUnanswered, InitMaps, NextMaps, PTL
  DEF Spec, ImplementsEndpoint, Endpoint!Spec
=============================================================================
