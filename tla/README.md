# Orbital: TLA+ specifications and proofs

Orbital turns the Stellar ledger into events for applications. `pulse-core`
reads streams of ledger records and contract events, remembers how far it got and
routes events to watchers. `pulse-webhooks` delivers the events of a watcher
over HTTP, with retries. `worker-core` fires on-chain transactions from events,
verifies that they were fired and bills for it. `pulse-notify` shows events in a
browser; `abi-registry` and `orbital-indexer` keep the specifications of
contracts; two Soroban contracts hold payrolls and those specifications.

This directory models the parts whose correctness depends on orders of steps
that nobody can enumerate by hand. TLC checks every interleaving of small
instances; TLAPS proves the safety properties of every modelled part, from the webhook
delivery and the event engine to the payroll contract, for every value of the
parameters. Paths below are relative to `src/packages/` unless they begin with
`contracts/` or `apps/`.

## Inventory

State, operations, interactions, hard behaviour and correctness, per part.
`PROJECT.json` lists the source files of each.

### Event ingestion (`pulse-core`)

| Part | State | Operations | Hard behaviour | What makes it correct |
| --- | --- | --- | --- | --- |
| EventEngine: Horizon stream | `isRunning`, `stopStream`, `streamEpoch`, `reconnectTimer`, `reconnectAttempt`, the stored cursor and the writes under way | `start`, `stop`, `openStream`, `handleStreamError`, `onmessage`, `persistHorizonCursor` | a cursor read that answers after `stop()` and another `start()`; writes landing out of order; crash with a cursor ahead of or behind delivery | one connection at a time; resumption skips nothing; a reconnection ends |
| EventEngine: queue | `eventQueue`, `processing`, `inBackpressure`, `pausedSources` | `enqueueEvent`, `processQueue`, `pauseSource`, `resumeSource` | handlers that call back into the engine while the queue is drained | the queue is bounded; backpressure ends; no event is passed over without congestion |
| EventEngine: subscriptions | watchers by address, contract id and filter, reference counts, the Soroban subscriber | `subscribe`, `subscribeContract`, `unsubscribe`, `unsubscribeAll`, `start`, `stop` | shared watchers; a `stop()` that awaits in the middle | a watcher lives as long as a holder does, and is polled for |
| EventEngine: routing | trustline states, pending ABI lookups, paused sources | `normalize`, `route`, `handleSorobanEvent`, `dispatchContractEvent` | several roles of one account in one operation; a lookup that answers after a pause or an unsubscription | everybody concerned is told once |
| EventEngine: unified ingestion | the de-duplication window, the unified poller's cursor chain | the poll loop, `DedupeWindow` | two transports reporting one operation in either order, window eviction, mode changes, cursor writes that fail, a start during `stop()` | the same number of deliveries either way; the cursor moves back and events are repeated for known reasons only |
| SorobanSubscriber | promise chain of polls, cursor, seen ids, retry counter | poll loop, stop, exit | a retry beside the chain, a failed flush, a stale cursor, a restart | every event handled; the cursor never ahead of the handler |
| Cursor stores | one register per key; a coalescing and a caching decorator | `get`, `set`, flush | one failed flush in a chain | no event skipped for it |
| Watcher | listeners, `stopped` | `on`, `emit`, `stop` | stop handlers run inside `stop` | nothing emitted after stop |

The engine calls the watchers' handlers synchronously; a `WebhookDelivery` is
such a handler. The engine and a cursor store interact through promises only.

### Webhook delivery (`pulse-webhooks`)

| Part | State | Operations | Hard behaviour | What makes it correct |
| --- | --- | --- | --- | --- |
| WebhookDelivery, in memory | `activeDeliveries`, `overflowQueue`, `retryTimers`, running attempts | `handleWatcherEvent`, `dispatchDelivery`, `doAttempt`, `deliverToUrl`, `emitFailure`, `emitDropped`, `replayFailure`, `stop` | slots, overflow, timers and replays interleave; stops at every await | no delivery lost or doubled; both caps exact; every delivery settles |
| WebhookDelivery, durable | the same plus `queueDrainTimers` and the poller | `persistRetry`, `drainDueRetries`, `processQueueRecord` | two kinds of consumers of one queue; crash at an await; claims expiring under an attempt | a persisted retry survives until it is settled; the queue stays near its cap |
| Retry queues | queued and claimed records (memory maps, four Redis keys, one Postgres table, SQS messages and receipts) | `enqueue`, `dequeue`, `ack`, `nack`, `evictNewest`, `size` | consumers that die, settle late, or act on stale reads between round trips | a record is in one place until acked or evicted; a claim is a lease |
| Dead-letter stores | entries, `replayedAt` | add, list, replay, remove, clear | FIFO eviction while a replay runs | a given-up delivery is recorded |
| dedupReceiver | seen ids | check, then mark | two copies at once; the handler throws after the mark | a handler runs once per event |
| Signing, URL validation, back-off, metrics, CLI | none | pure functions, reporting | none | not modelled |

### Workers (`worker-core`)

| Part | State | Hard behaviour | What makes it correct |
| --- | --- | --- | --- |
| Fire claims, TxSubmitter, BackstopWatcher | claims with an owner and a time to live, sent transactions, intervention records | a submission slower than the claim, a transaction that lands late, the backstop beside the worker | a window fires once; interventions are on record |
| Retry queue, dead letters | a file, a cached array, calls under way | overlapping calls, two first loads, a crash between write and rename | no submission forgotten; none repeated after success |
| State stores | the state document; history and registration rows | read-modify-write by two processes, death between two statements | the history is kept |
| Paymaster, sponsorship policy | rate buckets, the day's total | sliding window, turn of the day | bounded per user and day |
| Subscription lifecycle, service | open window, coverage record, audit trail | calls that start inside another's awaits | coverage without gaps; a trail that replays |
| Cost meter | open and sealed windows, arrivals | subscriptions that come and go between windows | every cost attributed once |
| Backfill, verification, verdict stores | sink and checkpoint; chain tip and delivered events; chains of corrections | crash between flush and checkpoint; late, repeated, reordered events; corrections during a query | as if uninterrupted; verdicts stand; one verdict per window |
| Guards, schedules, billing, SLO figures, manifests, CLI | counters, tables | none beyond one call | not modelled |

### The rest

| Part | State | Hard behaviour | What makes it correct |
| --- | --- | --- | --- |
| `pulse-notify` | pool of shared connections, timers, suspense cache, the hooks' own state and effects | release racing acquire, late callbacks of replaced sockets, renewed tokens, fetches that answer out of order | hooks share one connection, which comes back; nothing is leaked; what is shown is current |
| `abi-registry` | the clients' caches, paged reads, the publisher's account, recorded verdicts | publications and lapsing entries between pages; transactions included late; a mirror that lags; jobs that overlap or throw | reads are complete and not staler than the caches allow; changes of verdict are told |
| `orbital-indexer` | discoveries under way, back-off | several processes with one key | a promised spec is published, but for two exceptions of the code; no fee is paid in vain |
| `contracts/payroll`, `contracts/registry` | on-chain storage; each call atomic | call sequences by anybody | each window is paid once and in full; the registry's entries agree |
| `apps/web` | stream counters in Redis shared by instances | an instance that dies between two commands | streams per address are limited, slots come back |
| `anchor-sdk` | two transition tables | none: synchronous, one object per transaction | not modelled |

## Modules

| Module | Models | Uses |
| --- | --- | --- |
| `WebhookDelivery` | `pulse-webhooks/src/index.ts` without a retry queue | |
| `RetryQueue` | the contract of `RetryQueue.ts`: what an adapter promises | |
| `QueueSetting` | the constants and the clock the adapters share | |
| `MemoryRetryQueue`, `RedisRetryQueue`, `PostgresRetryQueue` | the files of the same name | implement `RetryQueue` |
| `SqsRetryQueue` | `SqsRetryQueue.ts` over SQS | |
| `DurableDelivery` | `index.ts` with `config.retryQueue` | composes the delivery with an `INSTANCE` of `MemoryRetryQueue` |
| `EventEngine` | the Horizon side of `pulse-core/src/EventEngine.ts` | |
| `SorobanSubscriber` | `SorobanSubscriber.ts` with `coalesceCursorStore.ts` | |
| `DualTransport` | the two transports of one operation, `dedupe.ts`, the unified cursor | |
| `Subscriptions` | reference counts, shared watchers, `start` and `stop` around them | |
| `EventRouting` | `normalize`, `route` and the contract events' dispatch | |
| `DedupReceiver` | `pulse-webhooks/src/dedup.ts` | |
| `ConnectionPool`, `SuspenseResource`, `EventHook`, `ContractState` | `pulse-notify`'s shared connections, suspense hook, `useStellarEvent` with visibility and token renewal, `useContractState` | |
| `FireClaims` | `idempotency.ts`, `TxSubmitter.ts`, `eventTrigger.ts` (claims), `BackstopWatcher.ts` | |
| `FileRetryQueue` | `worker-core/src/retry.ts`, dead letters | |
| `WorkerState` | the file, Redis and Postgres state stores side by side | |
| `BackstopSubscription`, `SubscriptionService` | `subscription/lifecycle.ts` with `coverage.ts`; `SubscriptionService.ts` | |
| `Sponsorship` | `Paymaster.ts`, `sponsorshipPolicy.ts` | |
| `Backfill`, `Verification`, `VerdictStore`, `CostMeter` | `verification/` and `backstop/costMeter.ts` | |
| `SpecRegistry`, `WorkerRegistry` | `contracts/registry`: the specs with the on-chain client that reads them; the operators' and offerings' tables | |
| `SpecPublisher`, `SpecResolution`, `VerificationJob` | the publisher with the indexer; the default chain of clients with its caches; `verificationJob.ts` | |
| `Payroll` | `contracts/payroll/src/lib.rs` | |
| `StreamSlots` | `apps/web/lib/demo-limits.ts` and the stream route | |
| `MC...` | the instances TLC checks | the modules they extend |
| `RetryQueueProofs` | theorems on the four adapters, and on the leases of all of them | `MCRetryQueues` |
| `IngestionProofs` | theorems on `Subscriptions`, `DualTransport`, `SorobanSubscriber`, `EventRouting` | those modules |
| `ServicesProofs` | theorems on `DedupReceiver`, `FireClaims`, `FileRetryQueue`, `WorkerState`, `SubscriptionService`, `BackstopSubscription`, `VerdictStore`, `StreamSlots`, `Payroll` | those modules |
| `WorkerProofs` | theorems on `Sponsorship`, `CostMeter`, `Backfill`, `Verification`; lemmas on sums, folds and minima | those modules |
| `ClientProofs` | theorems on `ConnectionPool`, `SuspenseResource`, `EventHook`, `ContractState`, `SpecPublisher`, `VerificationJob`, `WorkerRegistry`, `SpecRegistry`, `SpecResolution`, and on the composition | `MCServices`, `WorkerProofs` |
| the other `...Proofs` | theorems and proofs | the module of the same name, `TLAPS` |

Definitions whose name begins with `Mut` are mutated copies of a definition. No
specification uses them; `PROJECT.json` says which property each one must
violate. Variables marked `history` are read by properties only. An invariant
that is a conjunction of named parts carries its argument in the comments of
the parts.

### WebhookDelivery

A *chain* is one delivery of one event to one URL with all its attempts; a
replay from the dead-letter store is a new chain. `flights` are the running
`deliverToUrl` calls with the stage they have reached. Each await is a step
boundary, so another flight, a timer, a replay or a stop may come between
validation, request, answer and continuation.

| Action | Code |
| --- | --- |
| `HandleWatcherEvent` | `handleWatcherEvent` and the loop over `dispatchDelivery` |
| `Validate`, `FetchSettles` | `doAttempt` up to `fetch`, and its outcome |
| `AttemptReturns`, `ScheduleRetry`, `EmitFailure` | the rest of `deliverToUrl`, each with the `.finally` that frees the slot and `drainOverflowQueue` |
| `RetryTimerFires` | the callback of the retry timer |
| `ReplayFailure` | `replayFailure` |
| `Stop`, `WatcherStop` | `stop()`, and the watcher's, which calls it |

Left out: signatures, headers, health timestamps, metrics, tracing. The awaits
on the custom validator and on DNS are one stage. The `.finally` that frees the
slot runs in the same step as the continuation before it; only microtasks
separate them. Listeners of `webhook.failed` and `webhook.dropped` that call
back into the delivery are not modelled, nor are the dead-letter store's
`remove` and `clear`.

### The retry queues

`RetryQueue` keeps the ids that are queued, in flight and gone. A record leaves
only by an ack of someone who was handed it or by eviction.

`MemoryRetryQueue` adds due times, the insertion number and the visibility
timeout. Consumers may die and may settle after their claim expired. The order in
which expired claims return is the iteration order of a map, left
nondeterministic. Its operations (`EnqueueOp`, `DequeueOp`, ...) are separate from
the actions, so that `DurableDelivery` can use them.

`RedisRetryQueue` keeps two sorted sets and two index hashes. Each Lua script is
one atomic action, each read another; a worker remembers what it read
(`work[w]`) and acts on it after others have moved. `NumLegacy` records start in
flight without an index entry, as a build without the index left them. Members
that do not parse are left out. Ids are unique in all modules.

`PostgresRetryQueue` is one table with a statement per operation; `FOR UPDATE
SKIP LOCKED` lets a statement pass over a row another session works on
(`Unskipped`). A locked row is in flight also after its lock expired.

`SqsRetryQueue` has one action per request to SQS. Messages have a visibility
and, on a FIFO queue, a de-duplication id; the maps of receipts are the
process's, and a crash empties them. Two copies of a record may exist by design,
so the contract is not claimed of it.

### DurableDelivery

A *task* is a running async call: a first delivery, a poll or a drain. Each await
on the queue and each attempt is a step. `SlowQueue` lets the clock advance
during queue awaits, `DeliveryTimeout` ends attempts. `Crash` ends every task
and keeps the queue, as a durable adapter does; the operations are those of
`MemoryRetryQueue`, whose semantics the adapters mirror. The poll's dequeue and
the start of its attempt are one step, and so are the poller's ack and the
`emitFailure` after it; both pairs run without an await between them in the
continuation.

### EventEngine, DualTransport, Subscriptions, EventRouting

Four views of `EventEngine.ts`, each with the state its hazards need.

In `EventEngine` the ledger is the sequence of records `1..head`, a paging token
is a position and cursor 0 is none. `handling` is the record `processQueue`
routes; while it is not 0 only what a handler on the stack may call can happen,
since JavaScript runs a step to its end. As
`test/EventEngine.backpressure.test.ts` explains, the queue fills only while a
handler runs.

| Action | Code |
| --- | --- |
| `Start`, `Stop` | `start()`, `stop()` |
| `CursorRead` | the continuation of `resolveStreamCursor` in `openStream` |
| `OnMessage` | `onmessage`: reconnect success, cursor write, `enqueueEvent` |
| `OnError`, `ReconnectTimerFires` | `handleStreamError` and its timer |
| `HandlerReturns` | one turn of the loop of `processQueue` |
| `WriteLands`, `WriteFails` | `persistHorizonCursor` settling, `handleCursorFailure` |
| `PauseSource`, `ResumeSource` | the two calls |
| `Subscribe`, `Unsubscribe` | a watcher appears, or its last holder leaves |
| `LedgerCloses`, `Crash` | the environment |

Abstractions: a cursor read takes effect at its answer; two writes of the same
cursor under way are one; a closed stream reports no late error; rate limits
change a delay only.

In `DualTransport` an operation is one record of Horizon and one event per movement
on the unified stream (`Unified` names the operation of each), in ledger order on
each side and in any order between them. `DedupeWindow` is a bounded sequence of
keys with what each side has reported. Each start has a poller of its own
(`polls`), since one may outlive the `stop()` that aborts it.

| Action | Code |
| --- | --- |
| `HorizonRecord`, `RouteQueued` | `onmessage`; a turn of the queue with `route` |
| `UnifiedEvent`, `PollerEnds` | a page of `pollUnifiedEvents`; its end, by the signal or an error |
| `CursorRead` | `resolveUnifiedCursor`: the stored cursor, or none when the read fails |
| `CursorWritten` | `persistUnifiedCursor`, the oldest write of the chain: it lands, fails, or is skipped while the store is held to be unhealthy |
| `StartEngine`, `NetworkVerified` | `start()`; the continuation that resolves the mode and calls `startUnifiedPoller` |
| `BeginStop`, `StopAborts`, `StopFlushes`, `StopEnds` | `stop()` between its awaits on the Soroban subscriber, the poller and the cursor writes; a start may come in each |
| `HorizonGivesUp` | the last reconnect failed, so that `start()` works again without a `stop()` |

`lapses` records what makes a repetition possible: a read or a write of the cursor that
failed, or a start that no finished `stop()` precedes. Abstractions: a page has one
event; `stop()` is not called again while one is under way; the reader's cursor after
a failed read may be any, since the server chooses it.

`Subscriptions` counts the holders of watchers by key (address, contract id or
filter). `EngineStop` is `stop()` up to its await on the Soroban subscriber,
`EngineStopped` the rest.

`EventRouting` routes one operation at a time, with every assignment of accounts
to its roles; `ContractStep` delivers contract events, answers ABI lookups in any
order, pauses, resumes and unsubscribes.

### SorobanSubscriber

Polls follow one another by promise chaining; the module keeps the chain as the
code builds it, with an outer and an inner promise per link, because a retry
timer starts a poll beside the chain and a rejected link ends it. `PollStep` is
the next await of a poll (cursor, page, each handler, save), `PollFailure` a
rejection there. What a poll still has to hand out is a set of events; it takes them
in paging order. `DoFlush`, `FlushWritten` and `FlushFails` are the coalescing
store. `Exit` is the death of the process, after which `Start` reads what the
inner store holds.

### Around the engine and the deliveries

Each module is one part with its own state; what it interacts with (React,
sockets, Redis, SQL, the chain, other processes) is modelled from how the code
uses it.

| Module | State | A step is |
| --- | --- | --- |
| `DedupReceiver` | the store's marks, the copies of each event and where they are | one await of one copy |
| `ConnectionPool` | pool entries, subscribers, each socket's own state, reconnect timers | a hook's call, a socket's event (also of a replaced one), a timer |
| `SuspenseResource` | cache entries, reference counts, release timers, each consumer's render | a render, commit, drop, unmount, event or timer |
| `EventHook` | page visibility, tokens, renewals under way, the pool's entries, what the effect last ran with, the rendered state | a callback, a timer, an effect, a render with another token |
| `ContractState` | every fetch with its abort flag, the key rendered and the key the effect ran for | a render, an effect, a refresh, an answer |
| `FireClaims` | the claim with its expiry, each process's await, sent transactions | an await of a manager, a planner or the backstop; a ledger; a crash |
| `FileRetryQueue` | the file, the temporary text, the arrays in memory with their identity, calls under way | one await of a call, the owner's decision, time, a restart |
| `WorkerState` | the document, the rows, what each call has read | one read or statement of a call, or its death |
| `BackstopSubscription` | subscription, stored windows, calls and queued microtasks | a call's synchronous part, the store's answer, one microtask |
| `SubscriptionService` | the record with its trail, what each call has read | a get with its checks, or a put |
| `Sponsorship` | rate buckets, the day's total, the clock | one bump, or a tick |
| `Payroll` | terms, next window, balances, ledger time | one successful call of the contract |
| `SpecRegistry` | entries with their time to live, each read's pages, the cache | one transaction, simulation or cache operation |
| `WorkerRegistry` | a table with its list, latest entry and times to live; a paged read | one call of the contract, somebody prolonging one entry, or a ledger |
| `SpecResolution` | the LRU caches of the hosted and the on-chain client with their expiries, calls under way, what chain and mirror held when | one await of a call, a publication, a sync, time |
| `VerificationJob` | the recorded statuses, alerts, where each job is | one await of a job, or its throwing |
| `SpecPublisher` | each process's step, the account's sequence, sent transactions, which processes rehearse (`dryRun`) | one await, or an inclusion |
| `Backfill` | sink, checkpoint, the run's batch | a ledger read, an upsert, a save, a failure |
| `Verification` | chain tip, what happened, what was delivered, verdicts | an occurrence, a delivery, an invocation, a verification |
| `VerdictStore` | records with what they supersede, a query under way | a record, or one round trip of a query |
| `CostMeter` | subscriptions, open and sealed windows, arrivals | one call |
| `StreamSlots` | the Redis key with its time to live, each request's await | one command, a close, time, a death |

Abstractions worth knowing. `FileRetryQueue`: the loop that dequeues and attempts is not
in the package and is modelled from the interface. `Backfill`: a verdict is the set of
ledgers whose events it counts. `CostMeter`: one cost driver stands for all; shares divide
without rest. `Payroll`: the lines of one recipient are added up. `SpecRegistry`: blobs
are left out, since they are immutable and checked against their hash. `EventHook`: one
hook in full, the other components of its key as one; a connection two components share
stays open when one leaves it for a renewed token, and is joined again. `SpecResolution`:
the list of versions and their records are two awaits, of which the last page of the list
decides the answer; what a cache holds is a version, 0 for the empty list of a contract
without any; retries of the transport and the pages are in `SpecRegistry`. The two modules
differ in the client's part they show: `SpecRegistry` reads page by page while entries
lapse, with one reader; `SpecResolution` has overlapping readers and both caches.
`WorkerRegistry`: one table of one operator; the operators' and the offerings' are written
alike. `SpecPublisher`: the registry may refuse a spec with another error than
`AlreadyPublished` at any time. `StreamSlots`: one address; a Redis
command that fails ends its request as a death does.

## What TLC checks

| Run | Properties | Instance | Shows |
| --- | --- | --- | --- |
| `webhook` | `NothingLost`, `NothingDoubled`, `CapsHold`, `NoRequestAfterWatcherStop`, `EveryDeliverySettles` | 1 event, 3 URLs, delivery cap 0 (which becomes 1), 1 retry slot, 2 attempts, 1 replay | overflow, shedding and replay all happen, a stop may come anywhere, and with fairness every delivery settles |
| `retry_queues` | `MemoryImplementsContract`, `RedisImplementsContract`, `PgImplementsContract`, `LeasesExclusive`, `KeysConsistent`, `SqsKeeps` | 2 consumers, 2 records (1 legacy in Redis), clock to 3, timeout -1 (which becomes 1), one adapter per behaviour | any two round trips interleave, claims expire twice, consumers die and settle late |
| `durable` | `RetriesAccounted`, `OneAttemptWithinTimeout` | 3 deliveries, 2 tasks, retry cap 1, 1 crash, slow queue, stops | a persisted retry survives, what is given up is recorded, the queue stays near its cap, and a delivery has one attempt at a time; about 1.4 million states |
| `engine_horizon` | `ConnectionSound`, `BackpressureSound`, `NothingMissedUncongested`, `EngineReconnects` | all policies, with and without a store, marks 1 and 0 (which becomes 1), 1 retry, 3 records, 2 starts, 2 faults | about 1.1 million states |
| `ingestion` | `SorobanSafe`, `EveryEventHandled`, `SameCountEitherWay`, `StoredCursorAdvances`, `SubscribersServed`, `EveryoneIsTold` | Soroban: 3 links with 1 event, 1 trouble and 1 flush, 2 links with 2 events and 2 troubles, page 1, window 1; transports: operations of 2 and 1 movements, window 1, 2 starts, beside each other with a cursor that is well kept, and the poller alone with one kind of failure per behaviour; subscriptions: 2 callers, 3 keys, 3 watchers; routing: 2 accounts, 2 contracts, 3 subscriptions, 2 contract events | one of the four per behaviour; they share no state; about 300 000 states |
| `services` | `HooksServed`, `HandledOnce`, `FiresAccounted`, `RetriesKept`, `StateKept`, `CoverageSound`, `TermsReplayable`, `SponsorshipBounded`, `PayrollSound`, `RegistryFinds`, `BackfillResumes`, `OneObligation`, `VerdictsStand`, `RegistryKept`, `VerdictsSound`, `CostsSound`, `SlotsSound` | see `Services.cfg` and the bounds in `MCServices`: two or three actors per part; horizons 0 and 1; one publisher of two may rehearse | about 1.0 million states; one part per behaviour |
| `webhook_stop_claim` | `NoAttemptAfterStop` (violated) | 1 event, 1 URL, 2 attempts | finding 1 |
| `sqs_fifo` | `SqsNothingLost` (violated) | a FIFO queue | finding 2 |
| `durable_watcher_stop` | `RetriesSurvive` (violated) | 1 delivery | finding 3 |
| `durable_attempts` | `AttemptsWithinRetries` (violated) | 1 delivery, 3 attempts allowed | finding 4 |
| `durable_long_drain` | `OneAttemptAtATime` (violated) | 3 deliveries, attempts shorter than claims, a queue that answers at once | finding 5 |
| `engine_resume_claim` | `ContinuesFromLastDelivered` (violated) | 2 records, no faults | finding 6 |

`MCIngestion` and `MCServices` put several independent modules in one run: the
initial state chooses a `part`, the others stand still. A behaviour is then a
behaviour of that part, and a property of another part holds in it from the
initial state on. Deadlock is not checked anywhere: each system stops when its
inputs are used up.

**Why the bounds are enough.** Each hazard needs two actors and one more step
than the code expects. Two tasks, workers or consumers give every pairwise
interleaving; a third adds none of another kind, because each script and each
await touches one record. Two records distinguish "this one" from "another".
Three ledger records are enough to be handling one, have one queued and offer one
at the mark; the fourth, which would meet a full queue in the "pause" policy
again, is covered by the proof of `QueueStaysBounded`. Two starts make a cursor
read stale, two faults exhaust a retry limit of 1, three links let a poll of the
interval and one of the retry timer overlap behind a third. The clocks outlast
two visibility timeouts, a claim and the transaction sent under it, a rate window
and a day, or a time to live and a stream. Windows of one element are full after
one, so eviction happens.

**Fairness.** `webhook` assumes that each attempt goes on and each armed timer
fires: `fetch` is bounded by its abort timer, and Node runs continuations and
timers. `engine_horizon` assumes that the cursor store answers (or fails), the
reconnect timer fires and a handler returns. `ingestion` assumes that the
interval ticks, each poll goes on to its next await and a cursor write settles.
Nobody is assumed to emit, stop, replay or start, no ledger to close, and no
request to succeed more often than the bound on troubles requires.

## What TLAPS proves

For every value of the constants that the `ASSUME`s allow: any number of
events, URLs, workers, consumers, records, replays and faults, caps and
timeouts of any sign, payrolls of any size.

| Module | Theorems | Inductive invariant |
| --- | --- | --- |
| `WebhookDeliveryProofs` | `TypeCorrect`, `NoLoss`, `NoDuplication`, `DeliveryCapHolds`, `RetryCapHolds`, `AllCapsHold`, `NoRequestOnceStopped` | `TypeOK /\ Slots /\ Places /\ Kept /\ Bounds` |
| `RetryQueueProofs` | `QueueTyped`, `QueueImplementsContract` | memory: `MemoryTypeOK /\ Maps /\ HeldKnown` |
| | `RedisTyped`, `RedisOneMember`, `RedisIndex`, `RedisKeysAgree`, `RedisMeetsContract` | Redis: `Store /\ Rest /\ HeldIndexed` |
| | `PgTyped`, `PgMeetsContract`, `LeasesAreExclusive`, `SqsStandardKeeps` | `PgInv`; `LeaseInv`; `SqsInv`: `SqsTyped /\ SqsReceipts /\ SqsCalls /\ SqsSpared` |
| `EventEngineProofs` | `TypeCorrect`, `SingleConnection`, `ResumptionSkipsNothing`, `StreamIsSound`, `BackpressureEnds`, `QueueStaysBounded`, `BackpressureIsSound`, `UncongestedDelivery` | `TypeOK /\ Link /\ Prefix /\ Flags /\ Held /\ Owed` |
| `IngestionProofs` | `SubscribersAreServed` | `SubInv`: `RegistrySound /\ (~lateRelease => Served /\ CountsSuffice) /\ PolledWhileStarted` |
| | `SameCountHolds`, `CursorNeverBack` | `DualInv`: `WindowTyped /\ QueueTyped /\ PollTyped`, `Counted(n)` of every operation that is neither evicted nor repeated, `CursorsInOrder` while `Orderly`, and `HeardBefore` without lapses |
| | `SorobanIsSafe` | `SorInv`: `SorTyped /\ CursorsCovered /\ SeenHandled /\ OneAtATime /\ HandedOnce` and `LinkSound(j)` of every poll |
| | `EveryoneIsToldOnce` | `RoutingInv`: `RoutingTyped /\ PendingSound /\ OwedGiven`, `GivenSound(s)` of every subscription, and the properties of a step |
| `DurableDeliveryProofs` | `DurableTyped`, `RetriesAreAccounted`, `OneAttemptHolds` | `DurableInv`: `Shape /\ SparedInv /\ RecordInv /\ CapInv /\ OnePlaceInv` |
| `ServicesProofs` | `EventsHandledOnce` | `DedupInv` |
| | `BooksKept`, `WindowsPaidOnce`, `WindowsNeverEarly`, `MoneyStaysOnCourse`, `PayrollIsSound` | `PayrollInv`: `Books /\ TermsSound /\ NothingWithoutTerms` and the three properties |
| | `WindowFiresOnce` | `FireInv` |
| | `TermsAreReplayable` | `ServiceInv` |
| | `FireHistoryKept` | `StateInv` |
| | `VerdictsAreSound` | `StoreInv` |
| | `SlotsAreSound` | `SlotInv` |
| | `CoverageIsSound` | `BackstopInv`: `BackstopTyped /\ Tiled /\ (~raced => OneAtATime /\ Noticed)` |
| | `RetriesAreKept` | `FileInv`: `FileTyped /\ DeadKept /\ (~loadedTwice => OneArray) /\ (~overlapped => InTurn)` |
| `WorkerProofs` | `BackfillIsWhole` | `BackfillInv`: `SinkSound /\ SinkCovers` and `BatchInv`: `BucketsHold`, `FlushSound` |
| | `SponsorshipIsBounded` | `SponsorInv`: `SponsorTyped /\ BucketsCount /\ WindowsHeld /\ FloatBounded` |
| | `CostsAreSound` | `MeterInv`: `MeterTyped /\ WindowsOrdered /\ CostsAllAttributed /\ StandaloneIsAlone` |
| | `ObligationsAreOne`, `VerdictsAreFinal` | `ChainTyped`; `VerdictsInv`: `ChainTyped` and `SettledUpTo(T)` of some ledger `T` |
| `ClientProofs` | `PoolIsShared` | `PoolInv`: every entry `Serves` or is `Retired` |
| | `ResourcesReleased` | `SuspenseInv`: `EntryCounted` of every entry |
| | `HookKeepsUp` | `HookInv`: `HasListener`, `IsFollowed`, `VisibleIsActive` |
| | `EntriesAreCurrent` | `ReaderInv`: `LastSpeaks` |
| | `PublishingIsSound` | `PublisherInv`: `WorkSound`, `TransactionSound` |
| | `ChangesAreTold` | `JobInv`: `RunCovers` of every run, `ContractSound` of every contract |
| | `WorkersAreFound` | `WorkerInv`: `TableSound` (up to `prolonged`), `PagerSound` |
| | `ReadsAreFresh` | `RegistryInv`: `CacheSound`, `ReadSound`, `ListSound` |
| | `SpecsAreResolved` | `ResolutionInv`: `ResolutionTyped /\ HeldGrows /\ CacheWithinBounds`, `EntrySound` of every entry of both caches, `AskSound` of every call |
| | `HooksAreServed`, `RegistryIsKept`, `RegistryIsFound` | the conjunctions of the above |
| | `ServicesKeepClients`, `ServicesKeepWorkers` | the same, and the invariants of `WorkerProofs`, for the specification `services` checks |

*WebhookDelivery.* `NothingDoubled` ignores attempts that have had their 2xx
answer, and does not say that what is pending was accepted; it is not preserved
by a step as it stands. `Places` locates every chain, answered attempts
included: an attempt is answered exactly when its chain is delivered. `Kept` is
the conservation of accepted chains, with the fact that a stopped watcher has
stopped the delivery; `Slots` adds to `SlotsAccounted` that the flights are a
finite set, which the cardinality lemmas need; `Bounds` is `RetriesBounded /\
RetryDiscipline`, whose bound on the timers is what bounds the attempts they
start.

*MemoryRetryQueue.* A late ack or nack is a contract step only if the consumer
once received the record: `HeldKnown`. `Maps` says that the two maps are
disjoint and hold one entry per id.

*RedisRetryQueue.* A worker acts on a member it read earlier, so a script's guard is
all that protects the keys. `Store` is the consistency of the four keys.
`HeldIndexed` is needed because the ack script goes through the index: a record
that a worker was handed is never one of those an older build left without an
entry.

*PostgresRetryQueue, leases, SqsRetryQueue.* `PgInv` is the type of the table and,
as in memory, that whoever settles a row was handed it. That claims are leases
(`LeasesExclusive`) needs per adapter that the claim of a consumer in time is
still on record with the expiry it was given; in Redis, which reads before it
writes, also that no read runs ahead of the clock, that a member claimed was due,
and that a worker about to reclaim holds a member whose claim has expired
(`RedisLeases`). For SQS the point is between the send and the delete of a nack:
`SqsSpared` says that every record not settled has a message that no request under
way is about to delete, `SqsReceipts` that a receipt names one message for ever,
and `SqsCalls` what each await implies. The theorem assumes a standard queue: on a
FIFO queue it is false (finding 2).

*DurableDelivery.* A chain that is not settled may have several records, one of
them about to be acked, so that a record exists says too little: `SparedInv` says that
one exists which nobody is about to ack. `RecordInv` follows what was given up from
the decision to the dead-letter store. `CapInv` counts, besides the queue, the
claims nobody at work answers for (`Orphans`), since each comes back when it
expires. `OnePlaceInv` says that a chain is queued once or with one call; the
attempts of `OneAttemptWithinTimeout` follow. The bound of `QueueNearCap` comes from this
proof: an earlier one, without the factor of two for the calls at work, held on
instances with two deliveries, and the failing proof step led to a counterexample
with three, which the run now has.

*EventEngine.* `OneConnection` alone is not inductive: a cursor read of the
current epoch might open a second stream. `Link` adds that such a read is under way
only while there is no connection. `NoGap` needs the same of everything a
stream may later resume from, the stored cursor and each write under way:
`Prefix`. `BackpressureReleased` speaks of the idle queue; `Flags` carries the
three flags through a drain. `Held` says that under "pause" the source stays
paused for the whole episode, so only one event above the mark is accepted. `Owed`
says that an uncongested source is never paused.

*Subscriptions.* The last holder of a watcher takes it down when it finds a count of
one. That nobody else holds it then is `CountsSuffice`: the count of a key is at
least the number of holders of the watcher it has now. It may be more, since a
watcher that was stopped is replaced under a count that is kept. `PolledWhileStarted`
says of a stream that is down and will be opened again what `IdsArePolledFor` says of
one that is up.

*DualTransport.* `Counted(n)` says what was delivered of an operation from who has
reported it (`By(n)`, the one entry of the window): nothing while there is no entry,
once while only Horizon reported, and once per movement the poller has passed as soon as
it has passed one, since the movement that it drops is the one Horizon delivered.
`Awaited(n)`, Horizon has yet to report or to route the operation, is what makes its
report come once. It holds whatever fails, for operations no transport has repeated; a
second report of the same transport is, to `seenFrom`, another movement.

The cursor is another matter. `CursorsInOrder` says that the cursors lie in order: the
stored one, those to be written, the poller's. A poller that starts while an older one
still has writes under way, or without the stored cursor, breaks it, so it is claimed
while neither has happened (`Orderly`): then every start follows a finished `stop()`, one
poller lives at a time, and a write that fails leaves the order as it is. `HeardBefore`
adds, while writes do not fail either, that nothing reported lies beyond the last cursor;
so the poller restarts where it was and repeats nothing.

*SorobanSubscriber.* `CursorCoversHandled` speaks of the three places a cursor may be
in; a poll under way holds a fourth and a fifth, the cursor it asked from and the one
it will save. `LinkSound(j)` says that the first is covered and that the second is once
the events the poll still holds are handled, so a poll may be overtaken, stopped or
rejected anywhere. That a page holds every event up to its cursor (`PageCovers`) is the
one place where the filters must be in one group (`OneGroup`): with several groups the
saved cursor is the first answer's and may be ahead of another group's page, and the
property is false. `OneAtATime` and `HandedOnce` are conditional on the two
exceptions the property names. The proof does not look into `Behind`: whatever a
rejection frees, a freed link owes nothing.

*EventRouting.* What an operation leads to is computed in one step, so
`ConcernedAreTold` is a statement on `route`: `Once(s, A)` says that a sequence of
calls tells each pair of `A` once, `OnceConcat` composes it over the watchers, and
`NormalizeFacts` connects the type of an event with that of its operation. The model's
assumption that `NoAccount` is no account comes from here. An earlier form of three
expressions had `CASE` guards that overlap, which TLC reads in order and the logic does
not; the proof asked for the order to be written down. For contract events `PendingSound`
carries what the registry's answer will need, that the subscriptions an event is
owed to are in force and match it and that nobody has been given it, across any number
of other steps.

*Payroll.* The three properties speak of what was paid under the terms; a step
of `configure` would break them if anything had been paid before. `TermsSound`
says that the configured owner is a party and that what each party is owed is an
integer, `NothingWithoutTerms` that nothing was paid before, and `Books` types
the balances so that the sums are of integers.

*DedupReceiver, FireClaims, WorkerState, SubscriptionService.* `DedupInv`: whoever
passed `mark` left its id in the store, and only a handler that runs, ran or threw
did. `FireInv`: the holder of an unexpired claim is its owner (`HoldersClaim`); without
an excuse one transaction is alive at a time, and the claim outlives it (`OneAlive`).
`StateInv` says what each call that was interrupted has written so far, in both
kinds of store. `ServiceInv`: the records calls are about to put replay as the stored
one does, since any of them may be put last.

*VerdictStore.* The store's invariant is that what a record supersedes is there, in the
same window, that a window with records has one that none of them supersedes, and that a
query under way has found at most one record per window, which no record it saw
supersedes. That a window has a newest record is an induction over a finite set, taken
from the well-foundedness of strict subsets.

*StreamSlots.* Without a stray command the counter is at least the requests that
have yet to decrement it, and a stream that is open ends before the key does
(`CounterSound`). The theorem is for one stream per address, the configured value
(`apps/web/lib/demo-limits.ts:18`): with two, the second stream may outlive the key.

*BackstopSubscription.* `append` accepts a window only if it begins where the record ends
(`OnlyNextAccepted`), so `Tiled`, the exact tiling up to `openedAt` or to the end of
the one window whose call has yet to move it there, is preserved by every crossing.
`OneAtATime` adds, for calls that do not start inside another's microtasks, that a
window still to be appended was computed in the state in force. `Noticed` says that a
call to `lapse` that can still succeed keeps to the announced ledger.

*FileRetryQueue.* The claim that a job is never lost is about three places: the array in
memory, the file, and the submission a call has in hand. `OneArray`: as long as the file
was read once there is one array, a job that is queued is in it, in hand or was lost with
a process that died with it in hand, and a submission in hand is not in it. `InTurn`: as
long as calls take turns the file lags the array by the one call under way, and what
succeeded is in neither. `DeadKept` follows what was given up into the dead letters.

*The browser hooks.* An entry that is in the pool `Serves`: its connection is open, on its
way or about to be opened again, and the handles given out are those of its subscribers.
An entry its last subscriber left is `Retired`, so a late callback finds nobody to tell.
`EntryCounted` ties the suspense cache's count to the components that hold the entry or
wait for its timer. For `useStellarEvent` the danger is a socket that a renewed token has
replaced: what the hook holds is shown (`HasListener`), and it is left once the renewal
has answered, since the refresh key then differs until the effect has run (`IsFollowed`).
`LastSpeaks`: of the fetches of a contract's state only the last is not aborted, whatever
order they answer in.

*SpecPublisher, VerificationJob.* The publisher reads its account before it simulates. So
a transaction whose sequence number is still the next one was simulated against a registry
without the contract, and any inclusion makes all earlier numbers stale (`WorkSound`,
`TransactionSound`), and no included transaction fails. A promise is kept by whoever finds
the spec on chain, there or refused as published already. The code makes two more, which
the property names as exceptions: any other contract error counts as published
(`refused`), and a dry run returns before it sends (`dryRun`). A contract that is
not excused is in the hands of one run at a time; `RunAware` says what this run knows of
it, the latest verdict before `record()` and the last two after it. `RunCovers`: every
contract is still to come, in hand, counted or among the errors.

*SpecRegistry, WorkerRegistry.* A paged read crosses publications and lapsing entries.
What was read is the first part of the list (`FirstOf`), the cursor is its length
(`PageAppends`), and a publication made meanwhile is not before the beginning of any read.
In the operators' table the record of `latest` must live at least as long as the entry that
names it. The proof showed that this needs a threshold above zero, as the contract has
(`LIFETIME_THRESHOLD` is `BUMP_AMOUNT` less 30 days). `WorkerTtlMin` is now assumed positive.
Anybody may restore or extend one entry alone (`Prolong`); `latest` may then outlive the
record it names until the next registration, which `prolonged` records.
`getSpecAt` walks a filtered list; that it answers a version of the highest ledger up to
the one asked for (`InForceAnswered`) needs that what a filter keeps is what it is asked for.

*SpecResolution.* Both caches keep an answer for a whole time to live from the end of the
fetch it came from, and a slow fetch is stored over a newer one. So an entry is only as
fresh as one time to live and its own fetch allow (`took`). `EntrySound` says of an entry
of either cache when its fetch began, one time to live and the fetch before it expires,
and that it is not older than what its source held before that; `SeenSound` and `GotSound`
say the same of what a call has in hand and has not stored. `HeldGrows` makes "not older" a
statement on versions. `KnownIsFound` follows for the answer of the on-chain client,
whether it comes from its cache or from a read: a spec the chain had that long ago is not
answered with null, nor with an older version. The bound of one time to live alone
(`HitsWithinTtl`) is false.

*Backfill.* The checkpoint is the only thing a restart has, and it says "up to here",
not which verdicts were written with which events. `SinkSound` says that a verdict in the
sink is that of an uninterrupted run over one of the ranges started, `SinkCovers` that
everything up to the checkpoint is there. Within a run, `BucketsHold` says that what was
read past the checkpoint is in the buckets, and `FlushSound` that the windows to flush
come before all others, so that a checkpoint passes no window still held. The proof
found that the property was false as it had been stated: ranges were excused only when an
earlier one was shorter, and a run shortened to a range that ends inside a window finds
that window written with events past its range. `SameRange` now says which ranges may
follow each other, and `Services.cfg` has three of them.

*Sponsorship.* A bucket is pruned only when its user is granted a bump, so it is not the
list of the bumps of a window. `BucketsCount` says that it counts the same after any time
from the start of the window on. `WindowsHeld` is about every window there ever was; a
bump disturbs those that end now. A day's sum changes only today, and `daily.date` never
lies ahead of it.

*CostMeter.* The sums are over sets that grow by a whole window at a time. The total of what
is sealed and what is open is kept by moving the open costs into one new window
(`CostsAllAttributed`), the standalone total subscription by subscription. That
`arrivalsPerWindow[i]` is of the i-th window sealed is `WindowsOrdered`: the windows
closed are ranked by where they start, and windows start later and later.

*Verification.* The plan is a fold over the deliveries in the order of their ledgers.
`PlannedFor(s, acc)` is preserved by each element, the last of those it covers: every
event of `s` that obliges lies in one window, and the last window ends where `until` says.
So the windows depend on the ledgers only. For `VerdictsStand` two plans are compared:
what is delivered after a verification happened after it (`SettledUpTo(T)`), later events
open no window before the ones that are there (`StartsStay`, `WindowsStay`), and a later
invocation is not earlier than those seen (`ResolveStands`). The horizon is any. With the
default `verificationHorizonLedgers = 0` a window verified in the very ledger of its
deadline may be `missed`, and `fired` after an invocation later in that ledger; the
property allows this one change and no other. `Judged` carries it: a verdict given at
ledger `T` is past the horizon, and if `T` was the deadline the window is in `atDeadline`.

*Inductions over data.* The library's induction theorems cannot be used by the provers
here. Where a proof needs one, it takes a smallest counterexample (`NatMin` and
`SmallestSet` in `WorkerProofs`, from `WFMin`) and shows that there is a smaller one.
`Min`, sums and `MapThenFoldSet` are unfolded once, in lemmas that say what they return
(`MinIs`, `FoldExists`, the lemmas on `SumFunctionOnSet`).

The refinement theorems show that the initial states of a queue are initial
states of the contract and that each step is a contract step or leaves its
variables unchanged.

**What the proofs assume.** The named `ASSUME`s of the modules, which TLC evaluates in the
runs: bounds and limits are natural numbers, what is counted is finite, a window, a day
and a cache have a size. Stronger ones are justified where they are stated: a cost divides
by any number of subscriptions (`SpendAssumption`; the code divides floating-point
numbers), an export has the ledgers asked for (`BackfillAssumption`), the threshold of the
operators' entries is positive. Three theorems have a hypothesis of their own:
`SqsStandardKeeps` (a standard queue), `SlotsAreSound` (one stream per address),
`SorobanIsSafe` (one filter group).

**Only model-checked.** Liveness (`EveryDeliverySettles`, `EngineReconnects`,
`EveryEventHandled`): fairness and `ENABLED` are out of the prover's reach. Every
invariant and action property of a passing run is stated by a theorem, with the
hypotheses above: `SqsKeeps` on FIFO queues, `SlotsSound` for other limits than one and
`SorobanSafe` for several filter groups are false in general. That two instances of a
module in one run do not disturb each other holds by `OthersStill`; the compositions are
proved for the parts of `ClientProofs` and `WorkerProofs`.

## Findings

1. `stop()` does not keep further attempts from being made while the watcher
   runs: a failing attempt arms a new timer and the overflow queue drains
   (`pulse-webhooks/src/index.ts:475`, comment at `:300`).
2. `nack` on a FIFO queue sends the record again under the de-duplication id of
   the first message; SQS drops the copy and the original is deleted
   (`SqsRetryQueue.ts:374`, `README.md:526`).
3. A drain acks its record although the watcher was stopped during the attempt;
   the retry is lost (`index.ts:804`, `README.md:530`).
4. The poller requeues a failed record with the attempt number it had, so a delivery is
   attempted more than `retries` times (`index.ts:535`, `README.md:373`).
5. `drainDueRetries` claims with the time it was called at; late in a long drain
   a claim is expired from the start and the poller takes the record
   (`index.ts:801`, `MemoryRetryQueue.ts:8`).
6. Resuming a source does not continue from the last delivered event: events of the
   pause are discarded and their cursors saved (`pulse-core/src/EventEngine.ts:1955`,
   comments at `:1347` and `:1368`).

### Claims the code does not keep

Some properties that hold name their exceptions (`strayed`, `crossed`,
`callsMet`, `raced`, `excuses`...). Beside each such property its module states
the claim of a comment or a document without the exceptions. These definitions are in no
run; put in `Services.cfg` or `Ingestion.cfg` as an invariant, each gives a
counterexample.

| Definition | Module | What happens |
| --- | --- | --- |
| `AtMostOnceInWindow` | `SorobanSubscriber` | a retry timer's poll beside the chain handles an event a second time (`SorobanSubscriber.ts:285`) |
| `ContractsArePolledFor` | `Subscriptions` | a filter subscription alone starts no poller (`EventEngine.ts:973`) |
| `AddedMeansNew` | `EventRouting` | a raised limit of an unseen trustline is `trustline.added` (`EventEngine.ts:2620`) |
| `NothingReplayed` | `DualTransport` | after a failed read or write of the cursor, or a start during `stop()`, the poller repeats delivered events (`EventEngine.ts:1431`, `:1717`) |
| `SuspendedIsListening` | `SuspenseResource` | a component suspended past the release timer waits on a released connection (`useStellarEventSuspense.ts:111`) |
| `WonOnce` | `FireClaims` | a planner's claim expires and the window is won again (`eventTrigger.ts:201`) |
| `SurvivesRestart` | `FileRetryQueue` | a record is out of the file while it is worked on (`retry.ts:291`) |
| `AnnouncedOnlyWhileExpiring` | `BackstopSubscription` | a call that crosses another leaves the announced ledger behind (`lifecycle.ts:284`) |
| `CancellationIsTerminal` | `SubscriptionService` | a put that crosses a cancel undoes it (`SubscriptionService.ts:236`) |
| `CeilingIsMaximum` | `Sponsorship` | the last bump of a day may pass the ceiling (`sponsorshipPolicy.ts:265`) |
| `SpecAtIsMostRecent` | `SpecRegistry` | of two versions of one ledger the older is answered (`OnChainAbiRegistryClient.ts:189`) |
| `AttestedIsAnswered` | `SpecResolution` | an answer that is not sampled is the mirror's, however old (`HostedAbiRegistryClient.ts:171`, comment at `:68`) |
| `HitsWithinTtl` | `SpecResolution` | records that a slow read got are kept a whole time to live from its end (`OnChainAbiRegistryClient.ts:237`) |
| `EveryTransitionAlerted` | `VerificationJob` | a step that throws after `record()` is not repeated: the change is recorded and never told (`verificationJob.ts:106`) |
| `EveryPromiseIsPublished` | `SpecPublisher` | any contract error counts as published, a dry run returns before sending: the caller gets a spec nobody can find (`AutoPublishIndexer.ts:175`, `OnChainRegistryPublisher.ts:335`, comment at `AutoPublishIndexer.ts:92`) |
| `NoDuplicateAttempts` | `SpecPublisher` | an attempt given up is repeated beside the first (`AutoPublishIndexer.ts:97`) |
| `LongerRangeIsWhole` | `Backfill` | a later, longer range skips the rest of a flushed window (`backfill.ts:107`) |
| `SettledIsFinal`, `RejectedWithinWindow` | `Verification` | late events turn a missed window into a late one (`WorkerVerificationEngine.ts:147`, `:158`) |
| `AnswersTheOperator` | `VerdictStore` | Postgres answers with a record another operator's correction replaced (`PostgresWorkerVerdictStore.ts:186`) |
| `SamplesAlwaysRight` | `CostMeter` | an empty window shifts every later one by an index (`costMeter.ts:425`) |
| `OneStreamPerIp`, `NoSlotLeaks` | `StreamSlots` | `DEL` crosses another request's `INCR`; an instance dies between `INCR` and `EXPIRE` (`demo-limits.ts:94`, `:120`) |

Observed while modelling, with no statement in the repository to contradict:
`start()` after the retries are used up keeps `reconnectAttempt`, so the first
error of the new run gives up at once; relief of backpressure also lifts a pause
the user asked for during it; a reconnect from an older cursor delivers events
again; an `EventSource` the server refused is never opened again; with several
filter groups the cursor of the first answer is saved for all
(`SorobanSubscriber.ts:572`); a `start()` while `stop()` is under way may find
`unifiedRunning` still set and leave the engine without a unified poller
(`EventEngine.ts:1476`), or read a cursor whose successors are still being written
(`EventEngine.ts:1679`); one failed flush ends the coalescing store's chain
(`coalesceCursorStore.ts:34`); two first calls of the file retry queue each
read the file into an array of their own (`retry.ts:308`).

## Not modelled

The map covers about an eighth of the repository's implementation lines. Most of
the rest has no behaviour a model could get wrong: generated record types
(`_raw-horizon.gen.ts`), type declarations and re-exports, pages and components
of the web application, documentation generators, command-line tools, examples
and scripts. Pure functions (field-by-field normalization, decoding, code
generation, signing, URL checks, back-off, canonical forms, scores and SLO
figures) have no state; their outcomes are inputs of the models. The RPC client
translates requests and answers; its failures are inputs of `SorobanSubscriber`
and `DualTransport`. `anchor-sdk` and the circuit breaker are transition tables
used by one caller. Within modelled parts, each component's note in
`PROJECT.json` says what is left out.

## Plan

The next steps, in the order of what they would say about the system:

1. Model several filter groups of `SorobanSubscriber` as a run of their own
   (`GroupOf` is already a constant), the caching cursor store and the live
   verifier's loop.
2. State the composition of all parts of `MCServices` as one theorem: what
   `ServicesKeepClients` and `ServicesKeepWorkers` do not name is proved part by part
   in `ServicesProofs`.
