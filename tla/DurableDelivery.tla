--------------------------- MODULE DurableDelivery ---------------------------
(***************************************************************************)
(* WebhookDelivery with config.retryQueue set (packages/pulse-webhooks/src/ *)
(* index.ts) composed with MemoryRetryQueue, whose semantics every adapter  *)
(* mirrors.  A failed delivery is persisted as a retry record; two kinds of *)
(* consumers of the same process take records back: the poller              *)
(* (processQueueRecord) and the drains (drainDueRetries) a timer starts     *)
(* when a record falls due.  The process may crash; its queue survives.     *)
(*                                                                          *)
(* A CHAIN is the delivery of one event to one URL.  A TASK is a running    *)
(* async call; every await on the queue and every attempt is a step.  The   *)
(* concurrency cap of first attempts is WebhookDelivery's.                  *)
(***************************************************************************)
EXTENDS Integers, FiniteSets, TLC

CONSTANTS
    Chains,                \* deliveries the watcher's events start
    Retries,               \* config.retries
    MaxConcurrentRetries,  \* config.maxConcurrentRetries, as configured
    VisibilityTimeout,     \* the queue's visibilityTimeoutMs
    DeliveryTimeout,       \* config.deliveryTimeoutMs: an attempt ends by then
    Delays,                \* what config.backoff returns
    SlowQueue,             \* may time pass while a task awaits the queue?
    MayStop,               \* may delivery.stop() or watcher.stop() be called?
    Tasks,                 \* BOUND: async calls running at once
    MaxCrashes,            \* BOUND on crashes of the process
    MaxTime,               \* BOUND on the clock
    MaxRecords,            \* BOUND on the records persisted
    MaxSeq                 \* BOUND on the queue's seq

ASSUME DurableAssumption ==
    /\ Retries \in Nat
    /\ MaxConcurrentRetries \in Int
    /\ VisibilityTimeout \in Int
    /\ DeliveryTimeout \in Nat
    /\ Delays \subseteq Nat
    /\ SlowQueue \in BOOLEAN
    /\ MayStop \in BOOLEAN
    /\ IsFiniteSet(Tasks)
    /\ MaxCrashes \in Nat
    /\ MaxTime \in Nat
    /\ MaxRecords \in Nat
    /\ MaxSeq \in Nat

VARIABLES
    queued, inFlight, seq,  \* the queue
    now,                    \* Date.now()
    enqueued,               \* records persisted so far; their ids are 1..enqueued
    task,                   \* what each task is doing
    drainTimers,            \* this.queueDrainTimers: the times they fire at
    stopped,                \* this.stopped
    watcherStopped,         \* this.watcher.stopped
    crashes,                \* crashes so far
    everStopped,            \* history: the watcher of some process was stopped
    tries,                  \* history: attempts made per chain
    persisted,              \* history: chains with a record ever enqueued
    delivered,              \* history: chains answered 2xx
    finished,               \* history: chains whose last attempt failed for good
    shed,                   \* history: chains a record of which was evicted
    expired,                \* history: a claim expired under a task at work on it
    deadLettered            \* history: chains recorded in the dead-letter store

queueVars == <<queued, inFlight, seq>>
life      == <<stopped, watcherStopped, crashes, everStopped>>
outcomes  == <<tries, persisted, delivered, finished, shed, expired, deadLettered>>
vars == <<queueVars, now, enqueued, task, drainTimers, life, outcomes>>

RetryCap == IF MaxConcurrentRetries < 1 THEN 1 ELSE MaxConcurrentRetries

(* What a retry record carries: the delivery and the number of the attempt.  *)
Retry == [chain : Chains, attempt : Nat]

Queue == INSTANCE MemoryRetryQueue WITH
            Records <- Retry, Consumers <- {}, gone <- {}, held <- <<>>

(* A task: a first delivery, a poll or a drain, the await it is at, the      *)
(* retry it attempts and the id of its record, the nowMs of a drain, when    *)
(* the attempt began, and what evictNewest gave it to drop.                  *)
Kinds == {"none", "first", "poll", "drain"}
Stops == {"idle", "attempt", "size", "evict", "enqueue", "ack", "ackThenFail", "nack", "dequeue"}
Task  == [kind : Kinds, at : Stops, retry : SUBSET Retry, id : Nat, nowMs : Nat, since : Nat,
          drop : SUBSET Chains]
Idle  == [kind |-> "none", at |-> "idle", retry |-> {}, id |-> 0, nowMs |-> 0, since |-> 0,
          drop |-> {}]

Attempting(kind, r, i, t) ==
    [kind |-> kind, at |-> "attempt", retry |-> {r}, id |-> i, nowMs |-> t, since |-> now,
     drop |-> {}]

-----------------------------------------------------------------------------
Init ==
    /\ queued = {} /\ inFlight = {} /\ seq = 0
    /\ now = 0
    /\ enqueued = 0
    /\ task = [k \in Tasks |-> Idle]
    /\ drainTimers = {}
    /\ stopped = FALSE /\ watcherStopped = FALSE /\ crashes = 0 /\ everStopped = FALSE
    /\ tries = [c \in Chains |-> 0]
    /\ persisted = {} /\ delivered = {} /\ finished = {} /\ shed = {} /\ deadLettered = {}
    /\ expired = FALSE

Goes(k, x) == task' = [task EXCEPT ![k] = x]
GoesTo(k, s) == Goes(k, IF s = "idle" THEN Idle ELSE [task[k] EXCEPT !.at = s])

(* One more attempt of c: the count stops at one more than config.retries.   *)
Tried(c) == tries' = [tries EXCEPT ![c] = IF @ > Retries THEN @ ELSE @ + 1]

(* The watcher emits an event: the first attempt of its delivery.            *)
FirstAttempt(k, c) ==
    /\ task[k] = Idle
    /\ ~stopped
    /\ tries[c] = 0
    /\ Goes(k, Attempting("first", [chain |-> c, attempt |-> 1], 0, 0))
    /\ Tried(c)
    /\ UNCHANGED <<queueVars, now, enqueued, drainTimers, life,
                   persisted, delivered, finished, shed, expired, deadLettered>>

(* dequeue(t): the task attempts what it is handed, or is done.              *)
TakesOne(k, kind, t) ==
    /\ seq < MaxSeq
    /\ \E Q \in Queue!AfterReclaim(t) :
         /\ Queue!DequeueOp(Q, t)
         /\ \/ /\ Queue!HandsOut(Q, t) = {}
               /\ Goes(k, Idle)
               /\ UNCHANGED tries
            \/ \E y \in Queue!HandsOut(Q, t) :
                 /\ Goes(k, Attempting(kind, y.data, y.id, t))
                 /\ Tried(y.data.chain)
    /\ expired' = (expired \/ \E j \in Tasks : task[j].id \in {x.id : x \in Queue!Expired(now)})
    /\ UNCHANGED <<now, enqueued, drainTimers, life,
                   persisted, delivered, finished, shed, deadLettered>>

(* The poller's interval fires; it runs until stop().                        *)
Poll(k) ==
    /\ task[k] = Idle
    /\ ~stopped
    /\ TakesOne(k, "poll", now)

(* drainDueRetries is called: by a drain timer, which stop() clears but      *)
(* persistRetry arms again, or by anyone (a scheduler, at startup).  Its     *)
(* nowMs is read once, for the whole loop.                                   *)
StartDrain(k) == Goes(k, [Idle EXCEPT !.kind = "drain", !.at = "dequeue", !.nowMs = now])

DrainTimerFires(k, t) ==
    /\ task[k] = Idle
    /\ t \in drainTimers /\ t <= now
    /\ drainTimers' = drainTimers \ {t}
    /\ StartDrain(k)
    /\ UNCHANGED <<queueVars, now, enqueued, life, outcomes>>

DrainCalled(k) ==
    /\ task[k] = Idle
    /\ StartDrain(k)
    /\ UNCHANGED <<queueVars, now, enqueued, drainTimers, life, outcomes>>

(* The head of the drain loop.                                               *)
MutDrainClock(k) == now + VisibilityTimeout
DrainClock(k) == task[k].nowMs

DrainDequeues(k) ==
    /\ task[k].at = "dequeue"
    /\ \/ /\ watcherStopped
          /\ Goes(k, Idle)
          /\ UNCHANGED <<queueVars, now, enqueued, drainTimers, life, outcomes>>
       \/ /\ ~watcherStopped
          /\ TakesOne(k, "drain", DrainClock(k))

-----------------------------------------------------------------------------
(* The attempt of task k ends.  What follows depends on who awaits it: a     *)
(* first delivery is over, a drain acks its record whatever came of it, the  *)
(* poller settles the record by the result unless the watcher is stopped.    *)
AfterDelivery(k) == IF task[k].kind = "drain" THEN "ack" ELSE "idle"

CanRetry(r) == r.attempt < Retries

AttemptSucceeds(k) ==
    /\ task[k].at = "attempt"
    /\ \E r \in task[k].retry : delivered' = delivered \cup {r.chain}
    /\ GoesTo(k, IF task[k].kind # "poll" THEN AfterDelivery(k)
                 ELSE IF watcherStopped THEN "idle" ELSE "ack")
    /\ UNCHANGED <<queueVars, now, enqueued, drainTimers, life,
                   tries, persisted, finished, shed, expired, deadLettered>>

(* It failed, or was not made, and the watcher is stopped.                   *)
AttemptAbandoned(k) ==
    /\ task[k].at = "attempt"
    /\ watcherStopped
    /\ GoesTo(k, IF task[k].kind = "poll" THEN "idle" ELSE AfterDelivery(k))
    /\ UNCHANGED <<queueVars, now, enqueued, drainTimers, life, outcomes>>

(* It failed and there is another attempt: deliverToUrl persists a new       *)
(* record, the poller nacks the one it has.                                  *)
MutAfterFailure(k) == IF task[k].kind = "first" THEN "size" ELSE "ack"
AfterFailure(k) == IF task[k].kind = "poll" THEN "nack" ELSE "size"

AttemptFails(k) ==
    /\ task[k].at = "attempt"
    /\ ~watcherStopped
    /\ \E r \in task[k].retry : CanRetry(r)
    /\ GoesTo(k, AfterFailure(k))
    /\ UNCHANGED <<queueVars, now, enqueued, drainTimers, life, outcomes>>

(* The failure is terminal or the last: emitFailure, at once or after the    *)
(* poller's ack.                                                             *)
AttemptFinal(k) ==
    /\ task[k].at = "attempt"
    /\ ~watcherStopped
    /\ \E r \in task[k].retry :
         /\ finished' = finished \cup {r.chain}
         /\ deadLettered' = IF task[k].kind = "poll" THEN deadLettered
                            ELSE deadLettered \cup {r.chain}
    /\ GoesTo(k, IF task[k].kind = "poll" THEN "ackThenFail" ELSE AfterDelivery(k))
    /\ UNCHANGED <<queueVars, now, enqueued, drainTimers, life,
                   tries, persisted, delivered, shed, expired>>

-----------------------------------------------------------------------------
(* persistRetry: size, evictNewest at the cap, enqueue, arm a drain timer.   *)
AtCap == Queue!Size >= RetryCap

ReadSize(k) ==
    /\ task[k].at = "size"
    /\ GoesTo(k, IF AtCap THEN "evict" ELSE "enqueue")
    /\ UNCHANGED <<queueVars, now, enqueued, drainTimers, life, outcomes>>

Evict(k) ==
    LET dropped == {x.data.chain : x \in Queue!Newest}
    IN  /\ task[k].at = "evict"
        /\ Queue!EvictNewestOp
        /\ shed' = shed \cup dropped
        /\ Goes(k, [task[k] EXCEPT !.at = "enqueue", !.drop = dropped])
        /\ UNCHANGED <<now, enqueued, drainTimers, life,
                       tries, persisted, delivered, finished, expired, deadLettered>>

(* emitDropped what was evicted, then enqueue the next attempt.              *)
EmitDropped(k) == deadLettered' = deadLettered \cup task[k].drop

EnqueueRetry(k, delay) ==
    /\ task[k].at = "enqueue"
    /\ enqueued < MaxRecords /\ seq < MaxSeq
    /\ enqueued' = enqueued + 1
    /\ EmitDropped(k)
    /\ \E r \in task[k].retry :
         /\ Queue!EnqueueOp(enqueued + 1, [r EXCEPT !.attempt = @ + 1], now + delay)
         /\ persisted' = persisted \cup {r.chain}
    /\ drainTimers' = drainTimers \cup {now + delay}
    /\ GoesTo(k, AfterDelivery(k))
    /\ UNCHANGED <<now, life, tries, delivered, finished, shed, expired>>

(* The drain loop's ack, after which it dequeues again; the poller's ack.    *)
AckRecord(k) ==
    /\ task[k].at = "ack"
    /\ Queue!AckOp(task[k].id)
    /\ Goes(k, IF task[k].kind = "drain"
               THEN [Idle EXCEPT !.kind = "drain", !.at = "dequeue", !.nowMs = task[k].nowMs]
               ELSE Idle)
    /\ UNCHANGED <<now, enqueued, drainTimers, life, outcomes>>

AckThenFail(k) ==
    /\ task[k].at = "ackThenFail"
    /\ Queue!AckOp(task[k].id)
    /\ deadLettered' = deadLettered \cup {r.chain : r \in task[k].retry}
    /\ Goes(k, Idle)
    /\ UNCHANGED <<now, enqueued, drainTimers, life,
                   tries, persisted, delivered, finished, shed, expired>>

NackRecord(k, delay) ==
    /\ task[k].at = "nack"
    /\ seq < MaxSeq
    /\ Queue!NackOp(task[k].id, now + delay)
    /\ Goes(k, Idle)
    /\ UNCHANGED <<now, enqueued, drainTimers, life, outcomes>>

-----------------------------------------------------------------------------
(* stop(), and the watcher's stop(), which calls it.                         *)
Stop ==
    /\ MayStop /\ ~stopped
    /\ stopped' = TRUE
    /\ drainTimers' = {}
    /\ UNCHANGED <<queueVars, now, enqueued, task, watcherStopped, crashes, everStopped, outcomes>>

WatcherStop ==
    /\ MayStop /\ ~watcherStopped
    /\ watcherStopped' = TRUE
    /\ everStopped' = TRUE
    /\ stopped' = TRUE
    /\ drainTimers' = IF stopped THEN drainTimers ELSE {}
    /\ UNCHANGED <<queueVars, now, enqueued, task, crashes, outcomes>>

(* The process dies and a new one starts with the same queue.                *)
Crash ==
    /\ crashes < MaxCrashes
    /\ crashes' = crashes + 1
    /\ task' = [k \in Tasks |-> Idle]
    /\ drainTimers' = {}
    /\ stopped' = FALSE /\ watcherStopped' = FALSE
    /\ UNCHANGED <<queueVars, now, enqueued, everStopped, outcomes>>

(* The abort timer ends every attempt within DeliveryTimeout.                *)
Tick ==
    /\ now < MaxTime
    /\ \A k \in Tasks :
         \/ task[k].at = "idle"
         \/ task[k].at = "attempt" /\ now < task[k].since + DeliveryTimeout
         \/ task[k].at \notin {"idle", "attempt"} /\ SlowQueue
    /\ now' = now + 1
    /\ UNCHANGED <<queueVars, enqueued, task, drainTimers, life, outcomes>>

TaskStep(k) ==
    \/ \E c \in Chains : FirstAttempt(k, c)
    \/ Poll(k) \/ DrainCalled(k) \/ DrainDequeues(k)
    \/ \E t \in drainTimers : DrainTimerFires(k, t)
    \/ AttemptSucceeds(k) \/ AttemptAbandoned(k) \/ AttemptFails(k) \/ AttemptFinal(k)
    \/ ReadSize(k) \/ Evict(k) \/ AckRecord(k) \/ AckThenFail(k)
    \/ \E delay \in Delays : EnqueueRetry(k, delay) \/ NackRecord(k, delay)

Next == Stop \/ WatcherStop \/ Crash \/ Tick \/ \E k \in Tasks : TaskStep(k)

Spec == Init /\ [][Next]_vars

-----------------------------------------------------------------------------
(* Type correctness of the state.                                            *)
TypeOK ==
    /\ queued \subseteq Queue!Queued /\ inFlight \subseteq Queue!Claims
    /\ seq \in Nat /\ now \in Nat /\ enqueued \in 0..MaxRecords
    /\ task \in [Tasks -> Task]
    /\ drainTimers \subseteq Nat
    /\ stopped \in BOOLEAN /\ watcherStopped \in BOOLEAN /\ everStopped \in BOOLEAN
    /\ crashes \in 0..MaxCrashes /\ expired \in BOOLEAN
    /\ tries \in [Chains -> Nat]
    /\ persisted \subseteq Chains /\ delivered \subseteq Chains /\ finished \subseteq Chains
    /\ shed \subseteq Chains /\ deadLettered \subseteq Chains

InQueue(c) == \E x \in queued \cup inFlight : x.data.chain = c

(* A retry that reached the queue survives: through crashes of the process   *)
(* and expired claims its chain keeps a record in the queue until it is      *)
(* delivered, fails for good, or is shed by the retry cap.                   *)
RetriesSurvive ==
    \A c \in persisted : InQueue(c) \/ c \in delivered \cup finished \cup shed

(* The same, as long as no watcher is stopped.                               *)
RetriesSurviveCrashes == everStopped \/ RetriesSurvive

(* Two attempts of one delivery never run at once, and none is made once it  *)
(* was delivered: nobody is handed a record that another task still works on.*)
OneAttemptAtATime ==
    /\ \A j, k \in Tasks : \A r \in task[j].retry : \A q \in task[k].retry :
          j # k /\ task[j].at = "attempt" /\ task[k].at = "attempt" => r.chain # q.chain
    /\ \A k \in Tasks : task[k].at = "attempt" => \A r \in task[k].retry : r.chain \notin delivered

(* The same for a process that outruns the visibility timeout and does not   *)
(* crash: the poller and any number of drains never work on one delivery.    *)
OneAttemptWithinTimeout == expired \/ crashes > 0 \/ OneAttemptAtATime

(* Whatever is given up is announced: when no task works on its chain any    *)
(* more, a delivery that failed for good or was shed is in the dead-letter   *)
(* store (in runs without a crash).                                          *)
WorksOn(k, c) == c \in task[k].drop \cup {r.chain : r \in task[k].retry}
GivenUpIsRecorded ==
    crashes = 0 => \A c \in finished \cup shed :
                      c \in deadLettered \/ \E k \in Tasks : WorksOn(k, c)

(* size(), evictNewest() and enqueue() are three awaits, and a nack or an    *)
(* expired claim brings a record back past the cap: still, the records       *)
(* queued, handed out and about to be enqueued exceed maxConcurrentRetries   *)
(* by less than twice the calls at work and what crashed processes left.     *)
Enqueuing == {k \in Tasks : task[k].at = "enqueue"}
QueueNearCap ==
    Cardinality(queued) + Cardinality(inFlight) + Cardinality(Enqueuing)
        < RetryCap + (crashes + 2) * Cardinality(Tasks)

(* A persisted retry is in the queue, settled, or on record as given up, and *)
(* the queue exceeds its cap by a few records for each of the calls at work. *)
RetriesAccounted == RetriesSurviveCrashes /\ GivenUpIsRecorded /\ QueueNearCap

(* What the README says of the attempt header and of webhook.failed: "up to  *)
(* `retries`", "After `retries` unsuccessful attempts".                      *)
AttemptsWithinRetries == \A c \in Chains : tries[c] <= IF Retries < 1 THEN 1 ELSE Retries

-----------------------------------------------------------------------------
(* For model checking: deliveries, and calls, are interchangeable.           *)
Symmetry == Permutations(Tasks) \cup Permutations(Chains)
=============================================================================
