----------------------------- MODULE EventEngine -----------------------------
(***************************************************************************)
(* EventEngine (packages/pulse-core/src/EventEngine.ts) for one network and *)
(* its Horizon stream: the connection and its reconnection, the cursor it   *)
(* persists and resumes from, the bounded queue between the stream and the  *)
(* watchers with its three overflow policies, and pausing.                  *)
(*                                                                          *)
(* The ledger is a growing sequence of records 1..head; a record's paging   *)
(* token is its position, and cursor 0 is "no cursor".  JavaScript runs one *)
(* step to its end: while the queue is being drained only what a watcher's  *)
(* handler calls can happen (feed a record, pause, resume, stop, start,     *)
(* subscribe), and nothing asynchronous.                                    *)
(***************************************************************************)
EXTENDS Integers, Sequences, FiniteSets

CONSTANTS
    Policies,          \* the config.queue.policy an engine may have
    Stores,            \* may a cursorStore be configured? a set of Booleans
    HighWaterMark,     \* config.queue.highWaterMark, as configured
    LowWaterMark,      \* config.queue.lowWaterMark, as configured
    MaxRetries,        \* config.reconnect.maxRetries
    FailureThreshold,  \* config.cursorFailureThreshold
    UserSources,       \* BOUND on the sources the user pauses and resumes
    MaxRecords,        \* BOUND on the records of the ledger
    MaxStarts,         \* BOUND on calls of start()
    MaxFaults          \* BOUND on errors of the stream and crashes of the process

ASSUME EngineAssumption ==
    /\ Policies \subseteq {"pause", "drop-oldest", "drop-newest"}
    /\ Stores \subseteq BOOLEAN
    /\ HighWaterMark \in Int
    /\ LowWaterMark \in Int
    /\ MaxRetries \in Nat
    /\ FailureThreshold \in Nat
    /\ UserSources \subseteq {"horizon", "soroban"}
    /\ MaxRecords \in Nat
    /\ MaxStarts \in Nat
    /\ MaxFaults \in Nat

VARIABLES
    policy, store,       \* this.queuePolicy; is there a this.cursorStore?
    head,                \* the last record of the ledger
    isRunning, reconnectTimer, reconnectAttempt,
    pendingSuccess,      \* this.pendingReconnectSuccessAttempt, 0 for null
    streamEpoch,
    resolving,           \* the epochs whose cursorStore.get() is under way
    conns,               \* the upstream connections that are open
    stopStream,          \* the epoch of the connection this.stopStream closes, 0 for null
    stored,              \* the cursor in the store
    writes,              \* the cursors whose cursorStore.set() is under way
    failures, unhealthy, \* consecutiveCursorFailures, isCursorStoreUnhealthy
    eventQueue,
    handling,            \* the record processQueue is routing, 0 when it is not running
    handlerRuns,         \* is a watcher's handler on the stack?
    paused, inBackpressure, wePaused,
    watching,            \* is there a watcher in this.registry?
    starts, faults,
    origin,              \* history: where the first stream was opened, -1 before
    received,            \* history: records handed to onmessage, by any process
    blind,               \* history: a later stream was opened at "now"
    userPaused,          \* history: sources the user paused and did not resume
    overrode,            \* history: the user resumed or stopped during backpressure
    congested,           \* history: a source was paused, or the high-water mark reached
    owed                 \* history: events received for the present watcher and not emitted to it

config  == <<policy, store>>
linkVars == <<isRunning, reconnectTimer, reconnectAttempt, pendingSuccess, streamEpoch,
              resolving, conns, stopStream>>
cursorVars == <<stored, writes, failures, unhealthy>>
queueVars == <<eventQueue, handling, handlerRuns, paused, inBackpressure, wePaused>>
counts  == <<starts, faults>>
gapVars == <<origin, received, blind>>
vars == <<config, head, linkVars, cursorVars, queueVars, watching, counts, gapVars,
          userPaused, overrode, congested, owed>>

Sources == {"horizon", "soroban"}
High == IF HighWaterMark < 1 THEN 1 ELSE HighWaterMark
Low  == IF LowWaterMark < 1 THEN 1 ELSE LowWaterMark
Conns == [epoch : Nat, at : 0..MaxRecords]

(* Who may run: asynchronous continuations only when the queue is idle,      *)
(* callers also from inside a handler.                                       *)
Settled == handling = 0
MayCall == handling = 0 \/ handlerRuns

-----------------------------------------------------------------------------
Init ==
    /\ policy \in Policies /\ store \in Stores
    /\ head = 0
    /\ isRunning = FALSE /\ reconnectTimer = FALSE /\ reconnectAttempt = 0
    /\ pendingSuccess = 0 /\ streamEpoch = 0 /\ resolving = {} /\ conns = {} /\ stopStream = 0
    /\ stored = 0 /\ writes = {} /\ failures = 0 /\ unhealthy = FALSE
    /\ eventQueue = <<>> /\ handling = 0 /\ handlerRuns = FALSE
    /\ paused = {} /\ inBackpressure = FALSE /\ wePaused = FALSE
    /\ watching = FALSE
    /\ starts = 0 /\ faults = 0
    /\ origin = -1 /\ received = {} /\ blind = FALSE
    /\ userPaused = {} /\ overrode = FALSE /\ congested = FALSE
    /\ owed = {}

LedgerCloses ==
    /\ head < MaxRecords
    /\ head' = head + 1
    /\ UNCHANGED <<config, linkVars, cursorVars, queueVars, watching, counts, gapVars,
                   userPaused, overrode, congested, owed>>

-----------------------------------------------------------------------------
(* The connection.  closeStream, as the set of connections that remain.      *)
Closed == {c \in conns : c.epoch # stopStream}

(* What opening a stream at "now", or at a cursor, adds to the history.      *)
OpenedAt(p, now) ==
    /\ origin' = IF origin = -1 THEN p ELSE origin
    /\ blind' = (blind \/ (now /\ origin # -1))
    /\ UNCHANGED received

MutAsked(e) == resolving \cup {e - 1}
Asked(e) == resolving \cup {e}

(* openStream: at "now" without a store, otherwise once the store answers.   *)
OpenStream(pending) ==
    LET e == streamEpoch + 1
    IN  /\ reconnectTimer' = FALSE
        /\ isRunning' = TRUE
        /\ pendingSuccess' = pending
        /\ streamEpoch' = e
        /\ IF store
           THEN /\ conns' = Closed
                /\ stopStream' = 0
                /\ resolving' = Asked(e)
                /\ UNCHANGED gapVars
           ELSE /\ conns' = Closed \cup {[epoch |-> e, at |-> head]}
                /\ stopStream' = e
                /\ OpenedAt(head, TRUE)
                /\ UNCHANGED resolving

Start ==
    /\ MayCall
    /\ starts < MaxStarts
    /\ ~isRunning /\ ~reconnectTimer
    /\ OpenStream(0)
    /\ starts' = starts + 1
    /\ UNCHANGED <<config, head, reconnectAttempt, cursorVars, queueVars, watching, faults,
                   userPaused, overrode, congested, owed>>

(* resolveStreamCursor settles.  The store is read when the answer arrives:  *)
(* a write that lands between the two is one that lands later.               *)
MayOpen(e) == e = streamEpoch /\ isRunning

MutResumeAt(ok) == IF ok /\ stored # 0 THEN stored + 1 ELSE head
ResumeAt(ok) == IF ok /\ stored # 0 THEN stored ELSE head

CursorRead(e, ok) ==
    /\ Settled
    /\ e \in resolving
    /\ resolving' = resolving \ {e}
    /\ \/ /\ ~MayOpen(e)
          /\ UNCHANGED <<conns, stopStream, gapVars>>
       \/ /\ MayOpen(e)
          /\ conns' = conns \cup {[epoch |-> e, at |-> ResumeAt(ok)]}
          /\ stopStream' = e
          /\ OpenedAt(ResumeAt(ok), ~ok \/ stored = 0)
    /\ UNCHANGED <<config, head, isRunning, reconnectTimer, reconnectAttempt, pendingSuccess,
                   streamEpoch, cursorVars, queueVars, watching, counts,
                   userPaused, overrode, congested, owed>>

(* handleStreamError, rate limits included: they only change the delay.      *)
Exhausted == reconnectAttempt >= MaxRetries

OnError(c) ==
    /\ Settled
    /\ c \in conns
    /\ ~reconnectTimer
    /\ faults < MaxFaults
    /\ faults' = faults + 1
    /\ conns' = Closed
    /\ stopStream' = 0
    /\ isRunning' = FALSE
    /\ pendingSuccess' = 0
    /\ reconnectAttempt' = IF Exhausted THEN reconnectAttempt ELSE reconnectAttempt + 1
    /\ reconnectTimer' = ~Exhausted
    /\ UNCHANGED <<config, head, streamEpoch, resolving, cursorVars, queueVars, watching, starts, gapVars,
                   userPaused, overrode, congested, owed>>

ReconnectTimerFires ==
    /\ Settled
    /\ reconnectTimer
    /\ OpenStream(reconnectAttempt)
    /\ UNCHANGED <<config, head, reconnectAttempt, cursorVars, queueVars, watching, counts,
                   userPaused, overrode, congested, owed>>

-----------------------------------------------------------------------------
(* The queue.  processQueue routes the head of q, or is done: the event is   *)
(* emitted if there is a watcher and the source is not paused.               *)
Routes(q, P, O) ==
    LET p   == IF q = <<>> THEN 0 ELSE Head(q)
        out == p # 0 /\ watching /\ "horizon" \notin P
    IN  /\ handling' = p
        /\ eventQueue' = IF q = <<>> THEN q ELSE Tail(q)
        /\ handlerRuns' = out
        /\ owed' = IF out THEN O \ {p} ELSE O

Ingests == "horizon" \notin paused

AtMark == Len(eventQueue) >= High

MutPushedIdle(q, p) == IF handling = 0 THEN Append(q, p) ELSE q
Pushed(q, p) == Append(q, p)

(* The queue with record p offered to it, by policy.                         *)
Offered(p) ==
    IF ~AtMark \/ policy = "pause" THEN Pushed(eventQueue, p)
    ELSE IF policy = "drop-oldest" THEN Pushed(Tail(eventQueue), p) ELSE eventQueue

(* enqueueEvent.  It starts processQueue unless that is already running.     *)
EnqueueEvent(p) ==
    LET pauses == AtMark /\ policy = "pause" /\ ~inBackpressure
        O      == IF watching THEN owed \cup {p} ELSE owed
    IN  IF ~Ingests
        THEN /\ owed' = O
             /\ UNCHANGED <<queueVars, congested>>
        ELSE /\ inBackpressure' = (inBackpressure \/ AtMark)
             /\ paused' = IF pauses THEN Sources ELSE paused
             /\ wePaused' = (wePaused \/ pauses)
             /\ congested' = (congested \/ AtMark)
             /\ IF handling = 0
                THEN Routes(Offered(p), paused', O)
                ELSE /\ eventQueue' = Offered(p)
                     /\ owed' = O
                     /\ UNCHANGED <<handling, handlerRuns>>

(* A handler has returned: relieve backpressure at the low-water mark, then  *)
(* route the next event.                                                     *)
MutResumes == {"soroban"}
Resumes == {}

HandlerReturns ==
    LET relieved == inBackpressure /\ Len(eventQueue) <= Low
        P        == IF relieved /\ wePaused THEN Resumes ELSE paused
    IN  /\ handling # 0
        /\ inBackpressure' = (inBackpressure /\ ~relieved)
        /\ wePaused' = (wePaused /\ ~relieved)
        /\ paused' = P
        /\ Routes(eventQueue, P, owed)
        /\ UNCHANGED <<config, head, linkVars, cursorVars, watching, counts, gapVars,
                       userPaused, overrode, congested>>

(* onmessage: the reconnect is over, the cursor is saved, and the event is   *)
(* enqueued unless the record does not normalize to one.                     *)
OnMessage(c, isEvent) ==
    LET p == c.at + 1
    IN  /\ MayCall
        /\ c \in conns
        /\ c.at < head
        /\ conns' = (conns \ {c}) \cup {[c EXCEPT !.at = p]}
        /\ received' = received \cup {p}
        /\ pendingSuccess' = 0
        /\ reconnectAttempt' = IF pendingSuccess # 0 THEN 0 ELSE reconnectAttempt
        /\ writes' = IF store /\ ~unhealthy THEN writes \cup {p} ELSE writes
        /\ \/ /\ isEvent
              /\ EnqueueEvent(p)
           \/ /\ ~isEvent
              /\ UNCHANGED <<queueVars, congested, owed>>
        /\ UNCHANGED <<config, head, isRunning, reconnectTimer, streamEpoch, resolving, stopStream,
                       stored, failures, unhealthy, watching, counts, origin, blind,
                       userPaused, overrode>>

-----------------------------------------------------------------------------
(* persistHorizonCursor: writes are not ordered among themselves.            *)
WriteLands(p) ==
    /\ Settled
    /\ p \in writes
    /\ writes' = writes \ {p}
    /\ stored' = p
    /\ failures' = 0
    /\ unhealthy' = FALSE
    /\ UNCHANGED <<config, head, linkVars, queueVars, watching, counts, gapVars,
                   userPaused, overrode, congested, owed>>

(* handleCursorFailure *)
WriteFails(p) ==
    /\ Settled
    /\ p \in writes
    /\ writes' = writes \ {p}
    /\ failures' = failures + 1
    /\ unhealthy' = (unhealthy \/ failures + 1 >= FailureThreshold)
    /\ UNCHANGED <<config, head, linkVars, stored, queueVars, watching, counts, gapVars,
                   userPaused, overrode, congested, owed>>

-----------------------------------------------------------------------------
PauseSource(s) ==
    /\ MayCall
    /\ s \notin paused
    /\ paused' = paused \cup {s}
    /\ userPaused' = userPaused \cup {s}
    /\ congested' = (congested \/ s = "horizon")
    /\ UNCHANGED <<config, head, linkVars, cursorVars, eventQueue, handling, handlerRuns,
                   inBackpressure, wePaused, watching, counts, gapVars, overrode, owed>>

ResumeSource(s) ==
    /\ MayCall
    /\ s \in paused
    /\ paused' = paused \ {s}
    /\ userPaused' = userPaused \ {s}
    /\ overrode' = (overrode \/ inBackpressure)
    /\ UNCHANGED <<config, head, linkVars, cursorVars, eventQueue, handling, handlerRuns,
                   inBackpressure, wePaused, watching, counts, gapVars, congested, owed>>

(* subscribe and the last holder's unsubscribe.                              *)
Subscribe ==
    /\ MayCall
    /\ ~watching
    /\ watching' = TRUE
    /\ UNCHANGED <<config, head, linkVars, cursorVars, queueVars, counts, gapVars,
                   userPaused, overrode, congested, owed>>

Unsubscribe ==
    /\ MayCall
    /\ watching
    /\ watching' = FALSE
    /\ owed' = {}
    /\ UNCHANGED <<config, head, linkVars, cursorVars, queueVars, counts, gapVars,
                   userPaused, overrode, congested>>

(* stop(): the queue and the backpressure flags are left as they are.        *)
Stop ==
    /\ MayCall
    /\ reconnectTimer' = FALSE
    /\ pendingSuccess' = 0
    /\ reconnectAttempt' = 0
    /\ conns' = Closed
    /\ stopStream' = 0
    /\ isRunning' = FALSE
    /\ paused' = {} /\ userPaused' = {}
    /\ overrode' = (overrode \/ inBackpressure)
    /\ watching' = FALSE
    /\ owed' = {}
    /\ UNCHANGED <<config, head, streamEpoch, resolving, cursorVars, eventQueue, handling,
                   handlerRuns, inBackpressure, wePaused, counts, gapVars, congested>>

(* The process dies and a new one takes its place; of the writes under way   *)
(* any one may be the last that reached the store, or none.                  *)
Crash ==
    /\ faults < MaxFaults
    /\ faults' = faults + 1
    /\ isRunning' = FALSE /\ reconnectTimer' = FALSE /\ reconnectAttempt' = 0
    /\ pendingSuccess' = 0 /\ streamEpoch' = 0 /\ resolving' = {} /\ conns' = {} /\ stopStream' = 0
    /\ stored' \in writes \cup {stored}
    /\ writes' = {}
    /\ failures' = 0 /\ unhealthy' = FALSE
    /\ eventQueue' = <<>> /\ handling' = 0 /\ handlerRuns' = FALSE
    /\ paused' = {} /\ inBackpressure' = FALSE /\ wePaused' = FALSE
    /\ watching' = FALSE
    /\ userPaused' = {} /\ overrode' = FALSE /\ congested' = FALSE
    /\ owed' = {}
    /\ UNCHANGED <<config, head, starts, gapVars>>

Next ==
    \/ LedgerCloses
    \/ Start \/ Stop \/ Subscribe \/ Unsubscribe
    \/ \E s \in UserSources : PauseSource(s) \/ ResumeSource(s)
    \/ \E e \in resolving, ok \in BOOLEAN : CursorRead(e, ok)
    \/ \E c \in conns : OnError(c) \/ \E isEvent \in BOOLEAN : OnMessage(c, isEvent)
    \/ ReconnectTimerFires
    \/ HandlerReturns
    \/ \E p \in writes : WriteLands(p) \/ WriteFails(p)
    \/ Crash

Spec == Init /\ [][Next]_vars

(* The store answers, the timer fires and a handler returns.                 *)
Fairness ==
    /\ WF_vars(\E e \in resolving, ok \in BOOLEAN : CursorRead(e, ok))
    /\ WF_vars(ReconnectTimerFires)
    /\ WF_vars(HandlerReturns)

FairSpec == Spec /\ Fairness

-----------------------------------------------------------------------------
(* Type correctness of the state; reconnectAttempt stays within maxRetries,  *)
(* also over a start() that leaves it as it is (handleStreamError).          *)
TypeOK ==
    /\ policy \in Policies /\ store \in Stores
    /\ head \in 0..MaxRecords
    /\ isRunning \in BOOLEAN /\ reconnectTimer \in BOOLEAN
    /\ reconnectAttempt \in 0..MaxRetries /\ pendingSuccess \in 0..MaxRetries
    /\ streamEpoch \in Nat /\ resolving \subseteq 0..streamEpoch
    /\ conns \subseteq Conns /\ stopStream \in 0..streamEpoch
    /\ stored \in 0..MaxRecords /\ writes \subseteq 1..MaxRecords
    /\ failures \in Nat /\ unhealthy \in BOOLEAN
    /\ eventQueue \in Seq(1..MaxRecords) /\ handling \in 0..MaxRecords
    /\ handlerRuns \in BOOLEAN
    /\ paused \subseteq Sources /\ inBackpressure \in BOOLEAN /\ wePaused \in BOOLEAN
    /\ watching \in BOOLEAN
    /\ starts \in 0..MaxStarts /\ faults \in 0..MaxFaults
    /\ origin \in -1..MaxRecords /\ received \subseteq 1..MaxRecords /\ blind \in BOOLEAN
    /\ userPaused \subseteq Sources /\ overrode \in BOOLEAN /\ congested \in BOOLEAN
    /\ owed \subseteq 1..MaxRecords

(* However start(), stop(), stream errors, reconnect timers and late cursor  *)
(* reads interleave, at most one upstream connection is open, it is the one  *)
(* this.stopStream closes, and none is open while the engine is stopped or   *)
(* waiting to reconnect (openStream's epoch check, closeStream).             *)
OneConnection ==
    /\ Cardinality(conns) <= 1
    /\ \A c \in conns : c.epoch = stopStream
    /\ conns # {} => isRunning /\ ~reconnectTimer

(* Unless a later stream had to be opened at "now" (no store, an empty one   *)
(* or a failed read), every record from where the first stream was opened up *)
(* to the present position has been handed to onmessage: reconnects,         *)
(* restarts, failed writes and writes landing out of order skip none         *)
(* (resolveStreamCursor, persistHorizonCursor).                              *)
NoGap == ~blind => \A c \in conns : (origin + 1)..c.at \subseteq received

(* The engine has one stream at a time, and however often it is replaced,    *)
(* no record between the first stream's start and now was skipped.           *)
ConnectionSound == OneConnection /\ NoGap

(* When the queue has been drained, nothing of a backpressure episode is     *)
(* left: the flags are down and a source that is still paused is one the     *)
(* user paused (the relief branch of processQueue).                          *)
BackpressureReleased ==
    handling = 0 => /\ eventQueue = <<>>
                    /\ ~inBackpressure /\ ~wePaused
                    /\ paused \subseteq userPaused

(* A burst cannot grow the queue past the high-water mark, plus the one      *)
(* event the "pause" policy still accepts, unless the user lifts the pause   *)
(* during backpressure (enqueueEvent).                                       *)
QueueBounded ==
    overrode \/ Len(eventQueue) <= High + (IF policy = "pause" THEN 1 ELSE 0)

(* Back-pressure neither fails to hold nor sticks: the queue is bounded, and *)
(* nothing of an episode is left once it is drained.                         *)
BackpressureSound == BackpressureReleased /\ QueueBounded

(* Without the high-water mark reached or the source paused, an event for a  *)
(* watcher that is still there is delivered or still queued.                 *)
NothingMissedUncongested ==
    ~congested => owed \subseteq {eventQueue[i] : i \in DOMAIN eventQueue}

(* A started engine connects, or gives up or is stopped: it is never left    *)
(* running, or waiting to reconnect, with no connection for good.            *)
EngineReconnects ==
    (isRunning \/ reconnectTimer) ~> (conns # {} \/ ~(isRunning \/ reconnectTimer))

(* "Cursors persist via CursorStore so resume continues from the last point" *)
(* (pauseSource) and "Continues from the last delivered cursor position"     *)
(* (resumeSource): an event is not delivered while an earlier one of the     *)
(* same watcher was passed over.                                             *)
ContinuesFromLastDelivered ==
    handlerRuns => \A q \in owed : q > handling
=============================================================================
