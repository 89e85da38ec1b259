-------------------------- MODULE WebhookDelivery --------------------------
(***************************************************************************)
(* WebhookDelivery of pulse-webhooks (packages/pulse-webhooks/src/index.ts) *)
(* without a durable retry queue: a watcher's events are fanned out to      *)
(* every configured URL, first attempts pass through a concurrency cap with *)
(* an overflow queue, failed attempts wait on in-process timers under a     *)
(* retry cap, and what cannot be delivered goes to the dead-letter store.   *)
(*                                                                          *)
(* A CHAIN is one delivery of one event to one URL: all its attempts.  Run  *)
(* 0 is the delivery the watcher's event started; runs 1, 2, ... are        *)
(* replays from the dead-letter store, which start over at attempt 1.       *)
(***************************************************************************)
EXTENDS Integers, Sequences, FiniteSets, SequencesExt

CONSTANTS
    Events,                   \* the events the watcher may emit
    NumUrls,                  \* config.urls.length; a URL is its position
    Retries,                  \* config.retries
    MaxConcurrentRetries,     \* config.maxConcurrentRetries, as configured
    MaxConcurrentDeliveries,  \* config.maxConcurrentDeliveries, as configured
    MaxEntries,               \* MemoryDeadLetterStore's maxEntries
    MaxReplays                \* BOUND: replays per (event, url)

ASSUME ConfigAssumption ==
    /\ NumUrls \in Nat
    /\ Retries \in Nat
    /\ MaxConcurrentRetries \in Int
    /\ MaxConcurrentDeliveries \in Int
    /\ MaxEntries \in Nat
    /\ MaxReplays \in Nat

VARIABLES
    emitted,         \* events the watcher has emitted (every one is a new object)
    runs,            \* number of replays started, per event and URL
    stopped,         \* this.stopped
    watcherStopped,  \* this.watcher.stopped
    active,          \* this.activeDeliveries
    overflowQueue,   \* this.overflowQueue
    flights,         \* running deliverToUrl calls
    retryTimers,     \* this.retryTimers, in insertion order
    dlq,             \* the entries of the MemoryDeadLetterStore, oldest first
    delivered,       \* history: chains some attempt of which got a 2xx answer
    deadLettered     \* history: chains ever recorded in the dead-letter store

vars == <<emitted, runs, stopped, watcherStopped, active, overflowQueue,
          flights, retryTimers, dlq, delivered, deadLettered>>

(* The caps as the constructor normalises them: Math.max(1, ...).           *)
AtLeastOne(n) == IF n < 1 THEN 1 ELSE n
RetryCap      == AtLeastOne(MaxConcurrentRetries)
DeliveryCap   == AtLeastOne(MaxConcurrentDeliveries)

Least(m, n) == IF m < n THEN m ELSE n

Urls   == 1..NumUrls
Chains == [event : Events, url : Urls, run : 0..MaxReplays]
Chain(e, u, r) == [event |-> e, url |-> u, run |-> r]

(* A running deliverToUrl: its stage inside doAttempt ("validating" covers   *)
(* the awaits on the custom validator and on DNS), and who awaits it: the    *)
(* slot of dispatchDelivery, or the replay of dead-letter entry `entry`      *)
(* (entry = chain when it is not a replay).                                  *)
Stages  == {"validating", "fetching", "ok", "failed", "terminal"}
Flights == [chain : Chains, attempt : Nat, stage : Stages, slot : BOOLEAN, entry : Chains]
Timers  == [chain : Chains, attempt : Nat]
Causes  == {"exhausted", "terminal", "retry_cap_exceeded"}
Entries == [chain : Chains, cause : Causes, attempts : Nat, replayed : BOOLEAN]

(* Calling deliverToUrl runs doAttempt up to its first await; a stopped      *)
(* watcher ends the attempt right there.                                     *)
NewFlight(c, n, s, en) ==
    [chain |-> c, attempt |-> n, slot |-> s, entry |-> en,
     stage |-> IF watcherStopped THEN "terminal" ELSE "validating"]

-----------------------------------------------------------------------------
Init ==
    /\ emitted = {}
    /\ runs = [eu \in Events \X Urls |-> 0]
    /\ stopped = FALSE
    /\ watcherStopped = FALSE
    /\ active = 0
    /\ overflowQueue = <<>>
    /\ flights = {}
    /\ retryTimers = <<>>
    /\ dlq = <<>>
    /\ delivered = {}
    /\ deadLettered = {}

(* handleWatcherEvent: dispatchDelivery for every URL in order.  The first   *)
(* `room` of them get a slot, the others join the overflow queue.            *)
Room == IF active < DeliveryCap THEN DeliveryCap - active ELSE 0

MutOverflowed(e, k) == [i \in 1..(NumUrls - k) |-> Chain(e, k + i - 1, 0)]
Overflowed(e, k) == [i \in 1..(NumUrls - k) |-> Chain(e, k + i, 0)]

HandleWatcherEvent(e) ==
    LET k == Least(Room, NumUrls)
    IN  /\ ~stopped
        /\ e \notin emitted
        /\ emitted' = emitted \cup {e}
        /\ flights' = flights \cup
              {NewFlight(Chain(e, u, 0), 1, TRUE, Chain(e, u, 0)) : u \in 1..k}
        /\ overflowQueue' = overflowQueue \o Overflowed(e, k)
        /\ active' = active + k
        /\ UNCHANGED <<runs, stopped, watcherStopped, retryTimers, dlq, delivered, deadLettered>>

-----------------------------------------------------------------------------
(* doAttempt, from its start to the call of fetch.  The watcher's stopped    *)
(* flag is looked at again after every await; this.stopped never is.         *)
MutValidateOutcomes == {"terminal", "failed", "fetching"}
ValidateOutcomes ==
    IF watcherStopped THEN {"terminal"} ELSE {"terminal", "failed", "fetching"}

Validate(f) ==
    /\ f \in flights
    /\ f.stage = "validating"
    /\ \E s \in ValidateOutcomes : flights' = (flights \ {f}) \cup {[f EXCEPT !.stage = s]}
    /\ UNCHANGED <<emitted, runs, stopped, watcherStopped, active, overflowQueue,
                   retryTimers, dlq, delivered, deadLettered>>

(* The fetch settles: a 2xx answer, or anything else (another status, a      *)
(* network error, the abort timer).                                          *)
MutFetchSettles(f) ==
    /\ f \in flights
    /\ f.stage = "fetching"
    /\ UNCHANGED vars
FetchSettles(f) ==
    /\ f \in flights
    /\ f.stage = "fetching"
    /\ \/ /\ flights' = (flights \ {f}) \cup {[f EXCEPT !.stage = "ok"]}
          /\ delivered' = delivered \cup {f.chain}
       \/ /\ flights' = (flights \ {f}) \cup {[f EXCEPT !.stage = "failed"]}
          /\ UNCHANGED delivered
    /\ UNCHANGED <<emitted, runs, stopped, watcherStopped, active, overflowQueue,
                   retryTimers, dlq, deadLettered>>

-----------------------------------------------------------------------------
(* The dead-letter store after adding entry x: FIFO eviction past MaxEntries.*)
DlqAdd(d, x) ==
    LET a == Append(d, x)
    IN  IF Len(a) > MaxEntries THEN SubSeq(a, Len(a) - MaxEntries + 1, Len(a)) ELSE a

Entry(c, why, n) == [chain |-> c, cause |-> why, attempts |-> n, replayed |-> FALSE]

(* replay() stamps replayedAt when the handler's promise resolves; the       *)
(* handler is the first deliverToUrl of the new chain, whatever came of it.  *)
MarkReplayed(d, f) ==
    IF f.entry = f.chain THEN d
    ELSE [i \in DOMAIN d |-> IF d[i].chain = f.entry THEN [d[i] EXCEPT !.replayed = TRUE] ELSE d[i]]

(* .finally of dispatchDelivery: the slot is freed and drainOverflowQueue    *)
(* starts waiting deliveries while there is a free slot.                     *)
MutReleaseNoDrain(f) ==
    /\ active' = IF f.slot THEN active - 1 ELSE active
    /\ flights' = flights \ {f}
    /\ UNCHANGED overflowQueue
ReleaseSlot(f) ==
    IF f.slot
    THEN LET n == Least(Len(overflowQueue), DeliveryCap - (active - 1))
         IN  /\ active' = active - 1 + n
             /\ overflowQueue' = SubSeq(overflowQueue, n + 1, Len(overflowQueue))
             /\ flights' = (flights \ {f}) \cup
                   {NewFlight(overflowQueue[i], 1, TRUE, overflowQueue[i]) : i \in 1..n}
    ELSE /\ flights' = flights \ {f}
         /\ UNCHANGED <<active, overflowQueue>>

(* The attempt succeeded, or the watcher is stopped: deliverToUrl returns.   *)
AttemptReturns(f) ==
    /\ f \in flights
    /\ f.stage \in {"ok", "failed", "terminal"}
    /\ f.stage = "ok" \/ watcherStopped
    /\ ReleaseSlot(f)
    /\ dlq' = MarkReplayed(dlq, f)
    /\ UNCHANGED <<emitted, runs, stopped, watcherStopped, retryTimers, delivered, deadLettered>>

(* Whether a failed attempt is followed by another one.                      *)
MayRetry(f) == f.stage = "failed" /\ f.attempt < Retries

(* retryTimers.size >= maxConcurrentRetries *)
RetryFull    == Len(retryTimers) >= RetryCap

(* The next attempt goes on a timer.  At the retry cap the newest pending    *)
(* retry is shed first: emitDropped records it in the dead-letter store.     *)
ScheduleRetry(f) ==
    LET t    == [chain |-> f.chain, attempt |-> f.attempt + 1]
        shed == retryTimers[Len(retryTimers)]
    IN  /\ f \in flights
        /\ ~watcherStopped
        /\ MayRetry(f)
        /\ retryTimers' = Append(IF RetryFull THEN Front(retryTimers) ELSE retryTimers, t)
        /\ dlq' = MarkReplayed(IF RetryFull THEN DlqAdd(dlq, Entry(shed.chain, "retry_cap_exceeded", 0))
                                            ELSE dlq, f)
        /\ deadLettered' = IF RetryFull THEN deadLettered \cup {shed.chain} ELSE deadLettered
        /\ ReleaseSlot(f)
        /\ UNCHANGED <<emitted, runs, stopped, watcherStopped, delivered>>

(* No attempt is left, or the failure is terminal: emitFailure.              *)
EmitFailure(f) ==
    /\ f \in flights
    /\ ~watcherStopped
    /\ f.stage \in {"failed", "terminal"}
    /\ ~MayRetry(f)
    /\ dlq' = MarkReplayed(
                 DlqAdd(dlq, Entry(f.chain, IF f.stage = "failed" THEN "exhausted" ELSE "terminal",
                                   f.attempt)), f)
    /\ deadLettered' = deadLettered \cup {f.chain}
    /\ ReleaseSlot(f)
    /\ UNCHANGED <<emitted, runs, stopped, watcherStopped, retryTimers, delivered>>

(* A retry timer fires: jittered delays, so in any order.  Later attempts    *)
(* hold no slot.                                                             *)
MutRemoveTimer(i) == retryTimers
RemoveTimer(i) == RemoveAt(retryTimers, i)

RetryTimerFires(i) ==
    LET t == retryTimers[i]
    IN  /\ i \in DOMAIN retryTimers
        /\ retryTimers' = RemoveTimer(i)
        /\ flights' = flights \cup {NewFlight(t.chain, t.attempt, FALSE, t.chain)}
        /\ UNCHANGED <<emitted, runs, stopped, watcherStopped, active, overflowQueue,
                       dlq, delivered, deadLettered>>

-----------------------------------------------------------------------------
(* replayFailure: the replay handler calls deliverToUrl with attempt 1,      *)
(* outside the concurrency cap and whether or not stop() was called.         *)
ReplayFailure(i) ==
    /\ i \in DOMAIN dlq
    /\ LET c == dlq[i].chain
           r == runs[<<c.event, c.url>>] + 1
           n == Chain(c.event, c.url, r)
       IN  /\ r <= MaxReplays
           /\ runs' = [runs EXCEPT ![<<c.event, c.url>>] = r]
           /\ flights' = flights \cup {NewFlight(n, 1, FALSE, c)}
    /\ UNCHANGED <<emitted, stopped, watcherStopped, active, overflowQueue,
                   retryTimers, dlq, delivered, deadLettered>>

(* stop(): detaches the listener and clears the retry timers.                *)
Stop ==
    /\ ~stopped
    /\ stopped' = TRUE
    /\ retryTimers' = <<>>
    /\ UNCHANGED <<emitted, runs, watcherStopped, active, overflowQueue, flights,
                   dlq, delivered, deadLettered>>

(* The watcher's stop() runs the delivery's stop handler, which is stop().   *)
WatcherStop ==
    /\ ~watcherStopped
    /\ watcherStopped' = TRUE
    /\ stopped' = TRUE
    /\ retryTimers' = IF stopped THEN retryTimers ELSE <<>>
    /\ UNCHANGED <<emitted, runs, active, overflowQueue, flights, dlq, delivered, deadLettered>>

-----------------------------------------------------------------------------
FlightStep(f) ==
    \/ Validate(f)
    \/ FetchSettles(f)
    \/ AttemptReturns(f)
    \/ ScheduleRetry(f)
    \/ EmitFailure(f)

Next ==
    \/ \E e \in Events : HandleWatcherEvent(e)
    \/ \E f \in flights : FlightStep(f)
    \/ \E i \in DOMAIN retryTimers : RetryTimerFires(i)
    \/ \E i \in DOMAIN dlq : ReplayFailure(i)
    \/ Stop
    \/ WatcherStop

Spec == Init /\ [][Next]_vars

(* The fairness the runtime gives: awaits on DNS, on the validator and on    *)
(* fetch (which its abort timer bounds) settle, continuations run, and armed *)
(* timers fire.  Nothing makes the watcher emit, anyone stop or replay.      *)
Fairness ==
    /\ \A c \in Chains : WF_vars(\E f \in flights : f.chain = c /\ FlightStep(f))
    /\ \A c \in Chains : WF_vars(\E i \in DOMAIN retryTimers :
                                    retryTimers[i].chain = c /\ RetryTimerFires(i))

FairSpec == Spec /\ Fairness

-----------------------------------------------------------------------------
(* Type correctness of the state.                                            *)
TypeOK ==
    /\ emitted \subseteq Events
    /\ runs \in [Events \X Urls -> 0..MaxReplays]
    /\ stopped \in BOOLEAN
    /\ watcherStopped \in BOOLEAN
    /\ active \in Nat
    /\ overflowQueue \in Seq(Chains)
    /\ flights \subseteq Flights
    /\ retryTimers \in Seq(Timers)
    /\ dlq \in Seq(Entries)
    /\ delivered \subseteq Chains
    /\ deadLettered \subseteq Chains

Accepted == {c \in Chains : c.event \in emitted /\ c.run <= runs[<<c.event, c.url>>]}

(* A running attempt that has not been answered 2xx yet.                     *)
Undecided == {f \in flights : f.stage # "ok"}

Waiting(c)   == \E i \in DOMAIN overflowQueue : overflowQueue[i] = c
InFlight(c)  == \E f \in Undecided : f.chain = c
Backoff(c)   == \E i \in DOMAIN retryTimers : retryTimers[i].chain = c

(* Until someone stops it, an accepted delivery is never lost between the    *)
(* overflow queue, the running attempts and the retry timers: it is in one   *)
(* of them, or it was delivered, or it reached the dead-letter store.        *)
NothingLost ==
    ~stopped => \A c \in Accepted :
        Waiting(c) \/ InFlight(c) \/ Backoff(c) \/ c \in delivered \/ c \in deadLettered

(* A delivery is never duplicated: it is in at most one of those places, at  *)
(* most once, so one chain never has two attempts pending or running, never  *)
(* retries after success and never after it was dead-lettered.               *)
NothingDoubled ==
    /\ \A i, j \in DOMAIN overflowQueue : overflowQueue[i] = overflowQueue[j] => i = j
    /\ \A i, j \in DOMAIN retryTimers : retryTimers[i].chain = retryTimers[j].chain => i = j
    /\ \A f, g \in flights : f.chain = g.chain => f = g
    /\ \A c \in Chains :
          /\ ~(Waiting(c) /\ InFlight(c))
          /\ ~(Waiting(c) /\ Backoff(c))
          /\ ~(InFlight(c) /\ Backoff(c))
          /\ c \in delivered => ~Waiting(c) /\ ~InFlight(c) /\ ~Backoff(c)
          /\ c \in deadLettered => ~Waiting(c) /\ ~InFlight(c) /\ ~Backoff(c)
          /\ ~(c \in delivered /\ c \in deadLettered)

(* activeDeliveries counts exactly the running first attempts, stays within  *)
(* maxConcurrentDeliveries, and no slot is idle while a delivery waits, so   *)
(* the overflow queue cannot be stranded: only a finishing slot drains it.   *)
SlotsAccounted ==
    /\ active = Cardinality({f \in flights : f.slot})
    /\ active <= DeliveryCap
    /\ overflowQueue # <<>> => active = DeliveryCap

(* The pending retries never exceed maxConcurrentRetries.                    *)
RetriesBounded == Len(retryTimers) <= RetryCap

(* The attempt counter: no attempt beyond config.retries is made (one is     *)
(* always made), and a delivery is given up as exhausted only after that     *)
(* many attempts.                                                            *)
RetryDiscipline ==
    /\ \A f \in flights : f.attempt \in 1..AtLeastOne(Retries)
    /\ \A i \in DOMAIN retryTimers : retryTimers[i].attempt \in 2..Retries
    /\ \A i \in DOMAIN dlq : dlq[i].cause = "exhausted" => dlq[i].attempts >= Retries

(* The three caps hold together: maxConcurrentDeliveries on what is under    *)
(* way, without a delivery stranded beside a free slot, maxConcurrentRetries *)
(* on what waits for a retry, and config.retries on the attempts.            *)
CapsHold == SlotsAccounted /\ RetriesBounded /\ RetryDiscipline

(* Once the watcher is stopped, no attempt gets as far as a new request:     *)
(* doAttempt looks at the watcher again after every await.                   *)
Requests == {<<f.chain, f.attempt>> : f \in {g \in flights : g.stage = "fetching"}}
NoRequestAfterWatcherStop == [][watcherStopped => Requests' \subseteq Requests]_vars

(* Every accepted delivery is eventually settled, delivered or dead-lettered,*)
(* unless the delivery is stopped.                                           *)
EveryDeliverySettles ==
    \A c \in Chains : c \in Accepted ~> (c \in delivered \/ c \in deadLettered \/ stopped)

(* What the comment on stop() says: "so no further deliveries are attempted",*)
(* the watcher still running: no attempt of an event's delivery starts.      *)
Attempts == {<<f.chain, f.attempt>> : f \in {g \in flights : g.chain.run = 0}}
NoAttemptAfterStop == [][stopped => Attempts' \subseteq Attempts]_vars
=============================================================================
