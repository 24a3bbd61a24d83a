# Checkout, verified

TLA+ models of the checkout platform in this repository, the TLC runs that
check them on small instances, and TLAPS proofs that carry the central results
over to any number of orders, products, requests, keys, service instances,
relays, consumer groups, gateways and customers.

    tlc -config CheckoutSaga_saga.cfg MCCheckoutSaga.tla
    tlapm CheckoutSagaProofs.tla

## 1. The system

Five processes and the stores between them.  Paths are relative to
`src/services/`.

| Part | State | Operations | Hard because |
|---|---|---|---|
| Order service, HTTP (`order-service/src/idempotency`, `orders`, `redis`) | `idempotency_keys`, `orders`, Redis entries | `IdempotencyService.execute`, `createOrder` | concurrent requests with one key, crashes after the commit, a cache in front of the truth |
| Order service, saga (`orders.service.ts`, `saga.consumer.ts`) | status and two legs of each order | `applyLegOutcome`, `settleConfirmed`, `settleCancelled` | outcomes arrive in any order, more than once, and after the order is settled |
| Payment service | `payments` | `charge` | at-least-once delivery; the charge may be for an order that is already cancelled |
| Inventory service | `products`, `reservations` | `reserve`, `release` | creation and cancellation of an order travel on different topics; scarce stock |
| Notification service | `notifications` | two mails | triggered by two different services |
| Outbox and relay (three services) | `outbox_events` | `enqueue`, `tick` / `drainBatch` | crash between the broker's acknowledgement and the mark |
| Consumer framework (all services) | `processed_events`, offsets, `*.DLQ` topics | `processOnce`, `dispatch`, `handleWithRetry`, `toDlq` | redelivery, retries, parked events, crash between two effects |
| API gateway | rate-limit counters in Redis; the calls under way | authentication, rate limiting, relaying `POST /orders` | shared counters, failing open; retries that race with earlier attempts, connections given up while the order is being made |

The services share no table.  They interact through events only: a
transaction that changes state stages a row in its own outbox; a relay polls the
outbox and publishes to Kafka; a consumer handles the event in a transaction
that also inserts `(eventId, consumer)` into `processed_events`.  The gateway
calls the order service over HTTP, and only for creating and reading orders.

    orders.created ─┬─> payment   ─> payments.completed / payments.failed ──┐
                    └─> inventory ─> inventory.reserved / inventory.rejected┤
        order service settles: orders.confirmed / orders.cancelled  <───────┘
        orders.cancelled ─> inventory (release);  orders.confirmed,
        payments.failed ─> notification

## 2. The modules

### The saga

| Module | Models | State | Actions |
|---|---|---|---|
| `EventBus` | outbox, relay, log, `processed_events`, dead letters | `outbox[t][o]` rows staged on a topic for an order; `published` events; `processed[c]`; `deadLetters[c]` | `Enqueue`, `Relay`, `ProcessOnce`, `DeadLetter` |
| `OrderService` | `createOrder`, the four outcome handlers | `orders[o]`: status and two legs | `CreateOrder`, `OnPaymentCompleted`, `OnPaymentFailed`, `OnInventoryReserved`, `OnInventoryRejected` |
| `PaymentService` | `charge` | `payments[o]` | `PaymentOnOrderCreated` |
| `InventoryService` | `reserve`, `release` | `available[p]`, `reserved[p]`, `reservations[o]` | `InventoryOnOrderCreated`, `InventoryOnOrderCancelled` |
| `NotificationService` | the two mails | `notifications[o]` | `NotifyOnOrderConfirmed`, `NotifyOnPaymentFailed` |
| `CheckoutSaga` | the composition: each process's steps leave the other databases alone | all of the above | `PlaceOrder`, `RunRelay`, `SagaHandles`, `PaymentHandles`, `InventoryHandles`, `NotificationHandles`, `Park` |
| `CheckoutContract` | abstract: what a checkout promises, with no service, event or database | `status`, `payment`, `stock`, `mails` | `Place`, `ChargeCard`, `DecideStock`, `Confirm`, `Cancel`, `ReturnStock`, `SendMail` |

One action is one database transaction: the code runs every handler inside
`processOnce`'s transaction and `createOrder` inside that of `execute`, so a
crash or an error before the commit leaves no trace.  What is abstracted:

- **Event identity.**  `eventId` is a random UUID fixed when the row is staged.
  The model's identity is (topic, order, serial number of the row).  If the code
  staged two rows of a topic for an order they would be two events, and so they
  are in the model; nothing is deduplicated that the code would not deduplicate.
- **Delivery.**  An event on the log can be handed to a consumer at any time, in
  any order with others, and again.  That covers several partitions and topics
  read at different speeds, lost offset commits, rebalances, and rows published
  twice by a relay that died before its mark.  Per-key ordering within one topic
  is not used by any result: an order has at most one event of a topic, which is
  proved (`AtMostOneRow`).
- **Retries.**  A failed attempt rolls back and is no step.  Exhausted retries
  are `DeadLetter`; the consumers that may exhaust them are the constant
  `UnreliableConsumers`.  A crash before the offset commit brings a parked event
  back, so parked events may still be processed.
- **Payloads.**  An event carries a copy of the order's lines and total, which
  never change after `createOrder`; the services read constants instead.  The
  lines of an order are summed up per product (`Quantity`) next to the largest
  one (`LargestLine`), which is all that `reserve` compares with the stock.
- **Unknown products** are inserted with `defaultStock` on first mention; nothing
  else changes a product before that, so the model starts with the rows there.
- **One instance per service**, one message at a time, as the start commands of
  the repository's `README.md` (lines 249 to 251) run them: the statements of one
  handler are not interleaved with those of another on the same database.  That
  this makes a handler one atomic step is checked, not assumed: `ReservationsAreAtomic`
  of `StockRace` and `SettlementsAreAtomic` of `OrderSettlement` show it statement by
  statement.  What several instances do is what those two modules are for.

### The HTTP layer

`IdempotencyKeys` models `IdempotencyService.execute` with one action per
`await`: `GetCached`, `FindKey`, `ClaimKey`, `DoWork`, `Commit`, `SetCache`,
`FindDuplicate`, for any number of concurrent requests.  `drafts[r]` is the row
that request `r`'s open transaction has inserted and nobody else can see;
`rows[k]` the committed one.  Postgres is READ COMMITTED with a primary key on
`key`: an INSERT of a key that an open transaction has inserted waits
(`KeyHeldByOther`), then succeeds or fails with P2002.  `Fail` is any query that
fails, or the transaction time limit, `Crash` a dead process or connection,
`Expire` the TTL of a Redis entry.  `Commit` may lose its acknowledgement, so a
client can be told 500 of an order that exists.  Redis failures are the branches
of `GetCached` and `SetCache` that do as if there were no cache.

`OrdersEndpoint` is the contract of `POST /orders`, with no transaction, row or
cache: `Place` makes the order of a key in one step, at most one for each key,
and the order that is there decides every answer (`Verdict`); anything may break
off with 500 or without an answer.  `IdempotencyKeys` implements it
(`ImplementsEndpoint`): the order of a key is made at the commit of the request
that claimed it, and every other step is an answer, a failure or a stutter.

Body hashes are opaque.  `hashBody` hashes the JSON text, so the same order with
its fields in another sequence counts as another body, which is one of the bodies
of the model.  `expiresAt` is written to Postgres and never read there: a key does
not expire, and none does in the model; only the Redis entry has a time to live.

### The services at scale

`README.md` of the repository, section 6, scales a service by adding consumer
instances.  Two modules take the handlers that test before they write apart, one
action per SQL statement, at Postgres' default isolation, READ COMMITTED.  In
both, `tx[w]` is the handler at work in instance `w` with what its open
transaction has written; any idle instance may be given any event whose offset
is not committed, so that a rebalance lets two instances work on one event.

| Module | Models | State | Actions |
|---|---|---|---|
| `StockRace` | `reserve` and `release` inside `processOnce`, in any number of inventory instances | `known`, `stock`, `reservations`, `processed`, `outbox`: committed; `tx[w]`; `handled`: committed offsets | `Deliver`, `MarkProcessed`, `FindProduct`, `InsertProduct`, `CheckLine`, `FindReservation`, `UpdateProduct`, `Commit`, `Acknowledge`, `Fail`, `AbortDeadlocked` |
| `OrderSettlement` | `applyLegOutcome` inside `processOnce`, in any number of order instances | `orders`, `processed`, `outbox`, `tx[w]`, `handled` | `Deliver`, `MarkProcessed`, `ReadOrder`, `UpdateLeg`, `Commit`, `Acknowledge`, `Fail` |

- A lock is held from the statement that takes it to the end of the transaction;
  who holds it is read off `tx` (`RowHeldBy`, `MarkerHeldBy`, `RowTaken`), so
  there is no lock table to get wrong.  `Waits` is one transaction waiting for
  another; a cycle of waits is `Deadlocked`, and Postgres aborts one of it.
- `tx.product.upsert` with an empty update is a SELECT, and an INSERT if nothing
  was found: two steps.  P2002 of either INSERT ends in `SkipDuplicate`, because
  `processOnce` does not ask which constraint it was.
- The statements that write the reservation and the outbox row are part of
  `Commit`: only transactions of the same order could wait for them.  Where
  `reserve` and `release` of one order overlap (they are different events), the
  unique `orderId` of reservations is met by one `reserve` only.
- `settleConfirmed` and `settleCancelled` follow the leg's UPDATE on a row their
  own transaction has locked, so they are part of `UpdateLeg`.

### The transport

| Module | Models | State | Actions |
|---|---|---|---|
| `OutboxRelay` | the relay of a service in any number of instances | `open`, `staged`, `marked` rows; `log` as the broker holds it; `relay[w]`: the tick that runs | `Enqueue`, `CommitRow`, `Poll`, `Publish`, `Mark`, `Fail` |
| `ConsumerGroup` | `KafkaConsumerService` over the partitions of a group | `published`, `owner`, `position`, `committed` per partition; `work[w]`; `processed`, `effects`, `parked` | `Publish`, `Start`, `Stop`, `Rebalance`, `CommitOffset`, `Ignore`, `Dispatch`, `HandlerReturns`, `HandlerThrows`, `ToDlq`, `DlqFails` |

These two justify the bus of the saga.  `OutboxRelay` implements `EventBus!Relay`
(`RelaysAsAssumed`), and `ConsumerGroup` implements `EventBus!ProcessOnce` and
`EventBus!DeadLetter` (`DeliversAsAssumed`): offsets, batches, retries, rebalances
and marks amount to the few steps that `CheckoutSaga` composes.

- A row's number is its `createdAt`.  Rows become visible when their transactions
  commit, so a relay may see an older row after a younger one was published.
- A failed send may have reached the broker.  The mark may fail after the send
  succeeded.  Either ends the tick, and the next one starts from what is unmarked.
- A message is good, poison (its handler always throws), garbage (it does not
  parse) or empty; `Kind` says which.  An attempt that throws may have committed.
- A member that lost its partitions finishes the message at hand (`stale`), but
  moves neither the new owner's position nor the committed offset, as kafkajs
  does with a generation that is over.

### The gateway

| Module | Models | State | Actions |
|---|---|---|---|
| `RateLimiter` | the fixed window of `rate-limit.guard.ts`, for any number of gateways | `redisUp`, `healthy[g]`, `counters[i]`; `admitted`, `refused`, `unanswered` of the current window | `Count`, `LoseAnswer`, `Notice`, `Tick`, `RedisStops`, `RedisStarts` |
| `Gateway` | `POST /orders` from the client to the order service and back, on top of `RateLimiter` and `OrdersEndpoint` | `at[a]`, `heard[a]`, `told[p]`, `form[p]`, `recent`; the order service's `serving`, `placed`, `replies` | `Unauthorized`, `Limited`, `Admitted`, `Deliver`, `Unreachable`, `Serve`, `ServeBadly`, `Relay`, `Abandon`, `SecondPasses`, `Outage`, `Background` |

- One request is one step of the limiter, because MULTI runs INCR, EXPIRE NX and
  TTL as one.  The counter stops at one more than the maximum, all that the code
  compares it with.  Redis may stop and start, with or without its memory; a
  gateway learns of it late (`healthy`), and lets in whatever it cannot ask about.
  `admitted`, `refused` and `unanswered` are there for the properties.
- A purchase is something a customer wants ordered once, under one key.  Its
  program tries again after 429, 500 or a broken connection, and may have several
  attempts under way at once, each through any gateway.
- The guards and the handler up to its `fetch` are one step, since they await only
  Redis.  From then on an attempt is a call to the order service, which may never
  arrive (`Unreachable`), be served while the client has gone (`Abandon`: the code
  passes no abort signal on), or fail in any way `OrdersEndpoint` knows.
- Tokens, headers and bodies are abstracted to what decides the outcome: the
  token's customer, the customer and items in the body, the key, and what a
  request lacks (`form`).  The gateway overwrites the body's `customerId` with the
  token's (`ForwardedBody`).
- The order service is `OrdersEndpoint`, not `IdempotencyKeys`: the refinement puts
  everything shown here on top of the transactions and the cache.

## 3. The runs

All of `CheckoutSaga` is instantiated by `MCCheckoutSaga`: order `o2` is declined
(its total ends in 13, the configured decline), `o1` is charged and takes one unit
of each of `p1` and `p2`.  `o2` lists `p1` on two lines, of two units and of one; the
stock of a product is 2.  So `o2` is refused if it comes after `o1`, and if it comes
first it takes three units of the two there are, and `o1` is refused.  Every
combination of a good or bad payment leg and a good or bad inventory leg is reached.

| Run | Instance | Shows |
|---|---|---|
| `saga` | 2 orders, 2 products, fair; inventory and notification may park | confirmations that are paid and held, one outcome of each leg, one announcement, conservation of stock, overselling by one order alone and no more than its own lines explain, truthful mails, nothing pending when drained; the refinement of `CheckoutContract`; every order is settled and due mails are sent, dead letters excepted; held stock of a cancelled order comes back if the reservation was there before the cancellation was handled |
| `saga_late_reserve` | 2 orders | **violated**: a cancellation handled before the creation leaves stock reserved |
| `saga_no_refund` | 2 orders | **violated**: a charge of a cancelled order stays |
| `keys_requests` | 4 requests, 2 keys, 2 bodies, fair | one order per key, true answers, justified refusals, key and order together, Redis behind Postgres; nobody waits for ever because another request is at work; implements `OrdersEndpoint` |
| `keys_in_progress` | 2 requests with one key and body | **violated**: a duplicate that meets the first request at work is not told 409 |
| `stock_instances` | 1 or 2 instances; 2 orders, one of them cancelled twice, the other with a product on two lines; 2 products, one of them new; 1 failure; fair | no lost update, no stock returned twice but that of the order cancelled twice, one answer per order, the one way in which an event is dropped, answers through deadlocks; the statements of a single instance amount to `InventoryService`'s steps |
| `stock_oversell` | 2 instances, 2 orders, 1 unit of each product | **violated**: both take the last item |
| `settle_instances` | 1 to 3 instances, 1 order, every pair of outcomes; 1 failure; fair | the verdict fits the legs; no decided leg is lost; the order is settled; the statements of a single instance amount to `OrderService`'s steps, which announce once |
| `settle_twice` | 2 instances, 1 order | **violated**: cancelled and announced twice |
| `group_members` | 2 members of a new or a known group, 2 partitions, 5 messages of every kind, one published twice; 1 retry; 1 failure or rebalance; fair | nothing skipped, order kept, all retries before parking, every message seen to; implements the delivery of `EventBus` |
| `relay_instances` | 2 relays, 3 rows of 2 orders, batches of 2; 2 failures; fair | marked means published; rows of an order in order; every committed row published and marked; implements `EventBus!Relay` |
| `gateway_requests` | 2 gateways, 2 customers, 2 purchases under one key with 3 connections; 1 request in 2 seconds; 1 failure or outage; fair | the shared limit, earned refusals, two windows' worth at most around a boundary; 201 and 422 tell each customer the truth about its own purchase; whoever goes on trying is told |

**Bounds.**  Orders interact through stock only, and through it two at a time: each
is refused or not by what is left when its turn comes.  The two orders of `saga` are
as different as orders can be for the code, one of them with the amount that is
declined and the lines that oversell; safety and progress are asked of the same
instance, with dead letters, so that what holds of the tables is checked around a
parked event as well.  For any number of orders the invariants are proved (section 4).
No counter is bounded artificially: `outbox` rows are bounded by what the handlers
stage.  Four requests on two keys contain the three roles at one key (owner,
honest retry, reuse with another body) and an independent request; a fifth could
only repeat one of them.  Two instances are enough for every pair of statements
to interleave; `settle_instances` has a third, so that a second and third handler
wait for the same row.  In both modules the initial state chooses how many
instances are deployed (`deployed`), and the properties that need a single one
say so (`Alone`).  `Cancellations` says how many cancellations of an order are announced,
up to the two that several order services may stage; in `stock_instances` it is two of
`o1`, and both of them may be handled at once.  `MaxFailures` bounds crashes, failed calls and rebalances
in a behaviour: one failure at any point, and a second after it where the
recovery from the first could itself be hit.  `MaxRetries` is 1, so that a
message can fail once and succeed, or fail to the end; `BatchSize` is 2 of 3
rows, so that a batch is neither one row nor all.  In `gateway_requests` customer
`c1` has two connections, so that a retry races with its first attempt, and `c2`
uses the same key and items with `c1`'s name in the body, so that an order can be
mistaken for another customer's; one request in two seconds is the smallest limit
with a second in which a window is neither new nor over, and with two customers
and two gateways every refusal, admission and outage meets every stage of another
attempt.  `MaxFailures` counts outages of Redis there too.  There is no symmetry,
since orders, products, customers and requests differ in their data.

**Deadlock** checking is off in all configurations: when all orders are placed
and all events handled, the system rests.

**Fairness.**  Each relay is a `setInterval` that retries what it could not
publish, and each consumer group fetches for ever, so `RunRelay(s)` and "some
event this consumer has not parked is handled" are weakly fair.  A consumer in
`UnreliableConsumers` may park any event instead; the others are assumed to
succeed within their retries.  Placing orders, parking, and coming back from a
dead letter are never forced.  In `IdempotencyKeys` the steps of a request that
has arrived are weakly fair; arrivals, failures, crashes and expiries are not.
In the modules at scale a consumer
goes on fetching and its statements end (`WF` of `Deliver` or `Proceed`), relays'
timers go on, members that stopped are started again, and time passes.  In
`Gateway` clients go on trying and what has been sent is dealt with: `Try` or
`Handle` of each attempt is weakly fair, and so is `SecondPasses`; refusals use up
windows, but a window ends whatever the clients do.  `CustomersAreServed` rests on
the assumption that an order can be made: a body whose total does not fit
Postgres' 32 bits answers 500 every time, and is no purchase of the model.  One
assumption is strong: in `StockRace` the INSERT or UPDATE of each line is strongly
fair, because Postgres queues those that wait, and a row or key that is free again
and again is granted in the end.  Failures are never forced, and bounded.

Type invariants are proved rather than run, for `CheckoutSaga`, `IdempotencyKeys`,
`RateLimiter`, `OutboxRelay`, `OrderSettlement`, `StockRace` and `ConsumerGroup`, by
themselves or as a part of an inductive invariant.

**Mutants.**  Each property has a mutant in the module of the definition it
mutates, named in the comment above it and listed in `PROJECT.json`: the plausible
slip in the code (no dedup insert, no status test, `||` for `&&`, a look-up
forgotten, Redis written inside the transaction) that the property finds.

## 4. What is proved

`CheckoutSagaProofs` proves, for every value of the constants under the
assumptions named in the modules (totals and quantities are naturals, a largest
line is not more than the sum of the lines, unreliable consumers are consumers):

- `TypeCorrect`, `ConfirmationIsSafe`, `CancellationIsJustified`,
  `AnnouncementIsUnique`, `OutcomesAreUnique`, `MailsAreTruthful`,
  `NothingIsLeftPending`: the invariants of `saga`, and
  `CancelledForAReason`, with any set of unreliable consumers;
- `StockAddsUp`: what is on the shelf and what is held for orders is what there was
  (`StockIsAccountedFor`), for any number of orders that compete for a product;
- `OversellingIsBounded`: whatever the lines of the orders, a product that is
  oversold is so to one order, and by no more than what that order's lines of it
  take beside the largest (`OversoldByOneOrder`); so orders that list no product
  twice never oversell, and competing for stock never does.  Section 5 says how one
  order can;
- `SagaImplementsContract`: every behaviour of the services is one of the
  contract.

The properties are not inductive: a status says nothing of a payment unless the
legs do, and a leg says nothing unless the events on the way do.  The inductive
invariant `IInv` follows a fact from the service that owns it to every place that
repeats it: a row in the outbox is backed by the table of its service; at most
one row exists for a topic and order; a published event has its row; a processed
event was published; a decided leg has its processed event; a settled status has
its legs and its announcement; a mail has its event.  Each part is a named
conjunct, each process has a lemma that its steps preserve `IInv`, and
`ApplyLegOutcomeKeepsIInv` serves the four outcome handlers.

`IdempotencyKeysProofs` proves all invariants of `keys_requests`.  Its `IInv`
adds to them that an open transaction holds the row its program counter says
(`DraftInv`), that the primary key acts as a lock (`LockInv`: an open insert
excludes a committed row and another open insert of the key), and that only a
request past its commit has an order (`CreatedInv`).  `NobodyIsInConflict`
is the other side of `keys_in_progress`: no request at all is told 409, because no
row is ever committed IN_PROGRESS.
`ReplyKeepsIInv` serves every step that ends a request.
`KeysImplementEndpoint` is the refinement of `OrdersEndpoint`: the mapping reads
the order of a key off the rows that are committed, so `Commit` is the step that
makes it, with or without its acknowledgement; a request that found the key in
Postgres or in Redis found what `CachedIsGood` says, and answers accordingly.

`GatewayProofs` proves the type invariant of the limiter, `LimitIsShared` and
`RefusedOnlyWhenSpent` for any number of gateways and identities and any maximum
and window.  Its `IInv` says what the counter means: up to the maximum it is the
number of requests let in or unanswered, beyond it there were at least that many,
and it is beyond if anyone was refused.  It goes on to the composition, for any
gateways, customers, purchases and connections: each of its steps is one of the
limiter or leaves it alone, and so both invariants carry over (`TheEdgeIsLimited`);
likewise for the contract of the order service (`TheEdgeKeepsTheContract`); and
`AnswersAreTheCustomersOwn` (`CustomersAreToldTheTruth`).  The last needs that an
answer on its way (`replies`) says what the order of its key is, and that a key
keeps its order.  `TwoWindowsAreTheMost` proves `TwoWindowsAtMost`: `RecentInv` says
that the requests let in since the current window began are the `admitted` ones,
and that a whole window's length back adds at most the maximum, which is what the
window before may have let in.

`OutboxRelayProofs` proves the two invariants of `relay_instances` and that the
relays implement `EventBus!Relay`, for any number of instances, rows and failures
and any batch size.  `IInv` adds three parts: a tick works on committed rows, and
what it is about to mark is on the log (`TickInv`); the older rows of an order are
committed before a younger one is inserted (`StagingInv`); and a batch holds every
older row of its orders that is not on the log yet (`BatchInv`).  The last is what
makes any number of relays keep the order: a tick sends the oldest row of its
batch, so `OldestOfBatch` finds nothing older missing on the log, however often
other instances have sent those rows.  `BatchInv` holds when a batch is read
because `FirstOf` takes the oldest rows (`FirstOfIsClosed`, by cardinalities), and
that there is an oldest row is the well-founded order of the naturals
(`OldestIsIn`).

`OrderSettlementProofs` proves `VerdictFitsTheLegs` and `NoLegIsLost` for any number
of instances and orders.  What an instance has read says nothing, since others
write in the meantime.  What carries both properties is that the UPDATE of a leg
works on the row as the last transaction left it and holds it until its own
commit (`LockInv`): so what is about to be committed is the committed row with one
more leg, settled if its legs say so (`Updated`), and a processed outcome is in its
order's row unless the order was settled before (`ProcessedInv`).
`AloneIsAtomic` proves `SettlementsAreAtomic`: if one instance is deployed, its commit is
a step of one of the four handlers of `OrderService`, the module that `CheckoutSaga`
composes.  `AloneInv` says why: what the one instance has read or marked is still so
when it commits, since nobody else has committed.  `AloneAnnouncesOnce` is
`AnnouncedOnce` for one instance, and `AnnouncedAtMostTwice` says how bad more of them
can be: an order is announced confirmed at most once and cancelled at most twice, as
`settle_twice` shows it, however many instances there are.  Each
cancellation is announced by the commit of a leg of its own (`CountInv`), and there
are two legs; a confirmation needs both.

`StockRaceProofs` is about any number of instances, orders, products and lines:

- `OneAnswerPerOrder` and `OnlyNewProductsLoseOrders`.  The INSERT of the marker works
  as a lock on the event (`MarkerInv`), and a transaction past it has an event that
  nobody has processed; so the creation of an order answers once, and only for a
  reservation that its commit makes.  A product that is not found was not known at
  the start, and with one instance it is not inserted by anybody else before the
  INSERT: hence the one way to drop an event (`MayDrop`).
- `StockAddsUp`: `OnlyRepeatedCancelsDistortStock`, however the UPDATEs of the
  instances interleave and however often an order is cancelled.  What makes it so is
  that a transaction has locked the rows it works on and holds exactly the units of the
  lines behind it (`LedgerInv`), and that a reservation is made by one transaction, and
  released by one unless there are several instances and two cancellations of the order.
- `AloneNeverOversells`: with one instance orders never oversell by racing, for any
  lines (`OversoldByOneOrder`).  `stock_oversell` shows what two instances do.
- `AloneIsAtomic`: with one instance every commit is a step of `InventoryService`
  (`ReservationsAreAtomic`).  `DecisionInv` says that the loop over the lines has come to
  the decision that `InventoryService` makes at once from the largest lines.
- `LinesAsAssumed`: the quantities and largest lines that the lines of an order
  amount to are such as `InventoryService` assumes.

`ConsumerGroupProofs` proves `NothingIsSkipped`, `ParkedAfterAllRetries`,
`HandledInOrder` and `DeliversAsAssumed` for any number of members, partitions,
messages and retries.  `IInv` says that everything before a committed offset
(`CommittedInv`) and before a message at work (`ItemFits`) was seen to; a message
at work that still counts is at its partition's position, and the partition is its
instance's.  A new assignment may set positions back, to committed offsets only.
`HandledInOrder` assumes that no message is in two partitions, which the producer's
key, the order's id, sees to; `DeliversAsAssumed` assumes that the messages that
parse are of topics the consumer has registered.

With these, what the saga assumes of its surroundings is proved of the modules that
detail them: `RelaysAsAssumed` and `DeliversAsAssumed` for the relay and the delivery
of `EventBus`, `AloneIsAtomic` twice for the handlers of the order and the inventory
service, with one instance each, and `LinesAsAssumed` for its quantities.

`Sums` has the lemmas about sums over finite sets that the stock and the windows
need: a sum over no elements is 0, one element more adds its value, a change of one
value changes the sum by as much, a sum of naturals that are each bounded is
bounded.  They are inductions over a finite set.  The library's induction
theorems take the property as a parameter, which the provers cannot instantiate;
here the property is a set of numbers or of subsets (`NaturalsIn`, `SubsetsIn`), and
the induction is the absence of a smallest counterexample.

**Model-checked only.**  Liveness, which rests on fairness and is out of the
prover's reach: `OrdersSettle` of both modules that have it, `CustomersAreTold`,
`TimelyReservationIsReleased`, `RequestsComeToAnEnd`, `OrdersAreAnswered`,
`PartitionsMoveOn`, `CommittedIsPublished`, `CustomersAreServed`.

## 5. Disagreements with the documentation

Each of the first four, and the seventh, is a run that TLC must find violated.  The
others are part of what a passing run says exactly.

1. `inventory.service.ts:140`: a cancellation that overtakes the creation of its
   order is a no-op, and the later reservation is held for ever;
   `docs/sequence-diagrams/checkout-failure-path.md:35` says order of arrival
   does not matter (`saga_late_reserve`).
2. Nothing refunds a completed payment of an order cancelled for lack of stock;
   `README.md:139` promises a compensating action for each step
   (`saga_no_refund`).
3. `inventory.service.ts:57` reads the stock without a lock and decrements it
   without a condition: two instances both take the last item, while
   `README.md:18` names two orders racing for it and line 162 recommends more
   instances (`stock_oversell`).  With one instance no race oversells, which is
   proved (`AloneNeverOversells`).
4. `orders.service.ts:119` tests the status on a row read without a lock: handlers
   of the two legs at once cancel and announce the order twice, in spite of the
   comment at line 121 (`settle_twice`).  Each announcement has an event id of its
   own, and `inventory.service.ts:135` reads the reservation's status without a
   lock in turn: two instances that handle the two cancellations at once return
   the stock twice, in spite of the comment at line 132, "a redelivered cancel never
   double-restores".  `stock_instances` reaches it; `OnlyRepeatedCancelsDistortStock` says
   that nothing else distorts the stock, and by how much this does.  More than two
   cancellations there cannot be (`AnnouncedAtMostTwice`), and with one order service no
   more than one (`AloneAnnouncesOnce`).
5. `inventory.service.ts:58` compares the stock with each line by itself: an
   order with two lines of a product, which the DTO accepts, oversells it with a single
   instance.  `o2` of `MCCheckoutSaga` and `o3` of `MCStockRace` do; `OversoldByOneOrder`
   says that this is the only way of a single instance, and by how much.
6. `inventory/common/idempotent-consumer.ts:24` takes every P2002 for a duplicate
   delivery; two orders that are the first to mention a product race at its
   INSERT, and one order's event is dropped unprocessed.
   `OnlyNewProductsLoseOrders` says that this is the only way.
7. `idempotency.service.ts:143`: the 409 of `README.md:91` and of the comment above it
   cannot be given; a duplicate in progress waits at its INSERT and is answered 201
   (`keys_in_progress`, `NobodyIsInConflict`).
8. `kafka-consumer.service.ts:57` starts a new group at the end of the log, while
   `README.md:166` lets a new service replay it.  `begin` in `ConsumerGroup` is
   where such a group starts, and `NothingIsSkipped` speaks of what comes after.

## 6. Not modelled

- **Token issuer** (`auth.controller.ts`): stateless, it signs the customer id it is
  given.  `Gateway` starts from a token's customer.
- **Reading an order** (`GET /orders/:id`): changes nothing.
- **Which bodies are well-formed** (the DTO and the key's format): `Gateway` has the
  outcome, a 400 before anything is done.
- **Request ids, configuration, module wiring, health checks, start-up**: no state of
  their own that behaviour depends on.
- **Load tests and scripts**: tools that drive a deployment.
- **Kafka, Postgres, Redis, kafkajs, Prisma**: external, modelled from how the code
  uses them; the comments of the modules say what is assumed of them.
- **A message whose JSON value is `null`**: `kafka-consumer.service.ts:98` reads its
  `eventId` inside the `catch`, which throws, so it is neither handled nor parked.  No
  producer of the system writes one; the kinds of `ConsumerGroup` are what can come.
