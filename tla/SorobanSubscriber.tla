-------------------------- MODULE SorobanSubscriber --------------------------
(***************************************************************************)
(* SorobanSubscriber of pulse-core (packages/pulse-core/src/                *)
(* SorobanSubscriber.ts) in live mode, over a CoalescingStore               *)
(* (coalesceCursorStore.ts).  A timer polls a Soroban RPC; a poll reads the *)
(* cursor, fetches a page per group of filters, hands every event that is   *)
(* not in the window of recent ids to the handler, and saves the cursor.    *)
(* The store buffers the cursor and writes it out from time to time.  The   *)
(* process may die and start again with what the inner store holds.         *)
(*                                                                          *)
(* Polls follow one another by promise chaining: a tick puts a LINK behind  *)
(* the promise this.inflightPoll names.  Link k has two promises: OUTER,    *)
(* the .then() of the tick, and INNER, the _doPoll it starts, which         *)
(* pollOnce puts into this.inflightPoll in its place.                       *)
(*                                                                          *)
(* Event n is the n-th the contracts emit, in a ledger of its own; its id,  *)
(* its pagingToken and its ledger are n.  Cursor n is "after event n".      *)
(***************************************************************************)
EXTENDS Integers, Sequences, FiniteSets, SequencesExt

CONSTANTS
    MaxLinks,         \* BOUND: ticks whose promise is not settled, at once
    NumEvents,        \* BOUND: events emitted
    GroupOf,          \* the filter group of each event: rpcCalls has one call per group
    PageLimit,        \* pageLimit
    DedupCacheSize,   \* dedupCacheSize
    Lookback,         \* startLedgerLookback
    MaxTroubles       \* BOUND on failing calls (of the RPC, the handler and the
                      \* store), calls of stop() and deaths of the process

ASSUME SorobanAssumption ==
    /\ MaxLinks \in Nat /\ NumEvents \in Nat /\ PageLimit \in Nat \ {0} /\ DedupCacheSize \in Nat
    /\ Lookback \in Nat /\ MaxTroubles \in Nat
    /\ GroupOf \in Seq(Nat) /\ Len(GroupOf) = NumEvents

VARIABLES
    emitted,       \* events on the chain
    link,          \* what each link is doing
    inflightPoll,  \* this.inflightPoll
    inflightAbort, \* this.inflightAbort: the link whose request stop() aborts
    isStopped,     \* this.isStopped
    isRunning,     \* this._isRunning: the interval is set
    retryTimers,   \* timers of scheduleRetry, pending
    lastTimer,     \* this.retryTimer names one of them
    startLedger,   \* this.startLedger
    seenIds,       \* this.seen, least recently used first
    buffer,        \* CoalescingStore #buffer: the cursor, if any
    writing,       \* the snapshot #doFlush is writing
    flushBroken,   \* #flushInProgress is a rejected promise
    inner,         \* the cursor in the inner store
    troubles,      \* failures, stops and deaths so far
    handled,       \* history: events a handler call of which completed
    skipped,       \* history: events never asked for: before the first ledger, or expired
    handed,        \* history: events handed out by this process and not refused
    repeated,      \* history: handed out again by the same process
    overlapped,    \* history: two polls ran at once in this process
    evicted        \* history: the window dropped an id in this process

chainVars  == <<link, inflightPoll, inflightAbort>>
timerVars  == <<isStopped, isRunning, retryTimers, lastTimer>>
storeVars  == <<buffer, writing, flushBroken, inner>>
storyVars  == <<handled, skipped, handed, repeated, overlapped, evicted>>
sorobanVars == <<emitted, chainVars, timerVars, startLedger, seenIds, storeVars, troubles, storyVars>>

Links  == 1..MaxLinks
Events == 1..NumEvents
None   == 0 - 1                 \* undefined, for a cursor or a ledger
Cursors == {None} \cup 0..NumEvents

(* A promise: settled (or null), rejected, or one of a link's two.           *)
Settled  == [of |-> "settled"]
Rejected == [of |-> "rejected"]
Outer(k) == [of |-> "outer", link |-> k]
Inner(k) == [of |-> "inner", link |-> k]
Promises == {Settled, Rejected} \cup {Outer(k) : k \in Links} \cup {Inner(k) : k \in Links}

(* A link waits for a promise, or is in one of the awaits of its poll: the   *)
(* cursor, the latest ledger, the pages, the handler; "loop" is between two  *)
(* events.  It holds what it asked from, the events still to hand out and    *)
(* the cursor to save then.                                                  *)
Awaits == {"free", "waiting", "cursor", "ledger", "pages", "loop", "handler"}
Link == [at : Awaits, after : Promises, aborted : BOOLEAN, from : Cursors,
         events : SUBSET Events, next : Cursors]
Free == [at |-> "free", after |-> Settled, aborted |-> FALSE, from |-> None,
         events |-> {}, next |-> None]
Waiting(p) == [Free EXCEPT !.at = "waiting", !.after = p]

Polling == {k \in Links : link[k].at \notin {"free", "waiting"}}

(* Timers and answers are served when no continuation is ready to run.       *)
Idle == \A k \in Links : link[k].at # "loop" /\ (link[k].at = "waiting" => link[k].after # Settled)

Trouble == troubles < MaxTroubles /\ troubles' = troubles + 1

-----------------------------------------------------------------------------
SorobanInit ==
    /\ emitted = 0
    /\ link = [k \in Links |-> Free]
    /\ inflightPoll = Settled /\ inflightAbort = {}
    /\ isStopped = FALSE /\ isRunning = FALSE /\ retryTimers = 0 /\ lastTimer = FALSE
    /\ startLedger = None
    /\ seenIds = <<>>
    /\ buffer = None /\ writing = None /\ flushBroken = FALSE /\ inner = None
    /\ troubles = 0
    /\ handled = {} /\ skipped = {} /\ handed = {} /\ repeated = {}
    /\ overlapped = FALSE /\ evicted = FALSE

Emit ==
    /\ Idle
    /\ emitted < NumEvents
    /\ emitted' = emitted + 1
    /\ UNCHANGED <<chainVars, timerVars, startLedger, seenIds, storeVars, troubles, storyVars>>

(* (this.inflightPoll ?? Promise.resolve()).then(() => this.pollOnce())      *)
(* Behind a rejected promise nothing ever runs.                              *)
Chain(k) ==
    /\ link[k] = Free /\ \A j \in 1..(k - 1) : link[j] # Free
    /\ IF inflightPoll = Rejected
       THEN UNCHANGED <<link, inflightPoll>>
       ELSE /\ link' = [link EXCEPT ![k] = Waiting(inflightPoll)]
            /\ inflightPoll' = Outer(k)
    /\ UNCHANGED inflightAbort

(* start() ticks at once; then the interval does.                            *)
MutStart(k) ==
    /\ Idle /\ ~isRunning
    /\ isRunning' = TRUE
    /\ Chain(k)
    /\ UNCHANGED <<emitted, isStopped, retryTimers, lastTimer, startLedger, seenIds, storeVars, troubles,
                   storyVars>>
Start(k) ==
    /\ Idle /\ ~isRunning
    /\ isStopped' = FALSE /\ isRunning' = TRUE
    /\ Chain(k)
    /\ UNCHANGED <<emitted, retryTimers, lastTimer, startLedger, seenIds, storeVars, troubles, storyVars>>

Interval(k) ==
    /\ Idle /\ isRunning
    /\ Chain(k)
    /\ UNCHANGED <<emitted, timerVars, startLedger, seenIds, storeVars, troubles, storyVars>>

(* A retry timer fires.  this.retryTimer names the last one set, and is      *)
(* nulled by any of them.                                                    *)
RetryTimer(k) ==
    /\ Idle /\ retryTimers > 0
    /\ retryTimers' = retryTimers - 1
    /\ lastTimer' = FALSE
    /\ IF isStopped THEN UNCHANGED chainVars ELSE Chain(k)
    /\ UNCHANGED <<emitted, isStopped, isRunning, startLedger, seenIds, storeVars, troubles, storyVars>>

(* stop(), up to its await of the poll.  It runs from any handler too.       *)
Stop ==
    /\ Idle /\ isRunning
    /\ Trouble
    /\ isStopped' = TRUE /\ isRunning' = FALSE
    /\ retryTimers' = IF lastTimer THEN retryTimers - 1 ELSE retryTimers
    /\ lastTimer' = FALSE
    /\ link' = [k \in Links |-> IF k \in inflightAbort THEN [link[k] EXCEPT !.aborted = TRUE] ELSE link[k]]
    /\ UNCHANGED <<emitted, inflightPoll, inflightAbort, startLedger, seenIds, storeVars,
                   storyVars>>

-----------------------------------------------------------------------------
(* The promises of link k are settled: what waits for them is ready to run.  *)
(* When they are rejected, so is, in turn, everything that waits for them.   *)
Of(k) == {Outer(k), Inner(k)}

Fulfilled(L, k) ==
    [j \in Links |-> IF j = k THEN Free
                     ELSE IF L[j].at = "waiting" /\ L[j].after \in Of(k)
                     THEN [L[j] EXCEPT !.after = Settled] ELSE L[j]]

Behind(k) ==   \* the links that wait for k, directly or through one another
    LET reach[n \in 0..Cardinality(Links)] ==
          IF n = 0 THEN {k}
          ELSE reach[n-1] \cup {j \in Links : /\ link[j].at = "waiting"
                                              /\ \E i \in reach[n-1] : link[j].after \in Of(i)}
    IN  reach[Cardinality(Links)]

(* The finally of pollOnce.                                                  *)
ClearedPoll(k)  == IF inflightPoll \in Of(k) THEN Settled ELSE inflightPoll

PollEnds(k) ==
    /\ link' = Fulfilled(link, k)
    /\ inflightPoll' = ClearedPoll(k)
    /\ inflightAbort' = inflightAbort \ {k}

PollThrows(k) ==
    /\ Trouble
    /\ link' = [j \in Links |-> IF j \in Behind(k) THEN Free ELSE link[j]]
    /\ inflightPoll' = IF inflightPoll = Inner(k) THEN Settled
                       ELSE IF inflightPoll \in UNION {Of(j) : j \in Behind(k)} THEN Rejected
                       ELSE inflightPoll
    /\ inflightAbort' = inflightAbort \ {k}
    /\ UNCHANGED <<emitted, timerVars, startLedger, storeVars>>

GoesOn(k, x) == link' = [link EXCEPT ![k] = x] /\ UNCHANGED <<inflightPoll, inflightAbort>>

(* pollOnce, up to the read of the cursor.                                   *)
PollOnce(k) ==
    /\ link[k].at = "waiting" /\ link[k].after = Settled
    /\ IF isStopped
       THEN /\ PollEnds(k)
            /\ UNCHANGED overlapped
       ELSE /\ link' = [link EXCEPT ![k].at = "cursor"]
            /\ inflightPoll' = Inner(k)
            /\ inflightAbort' = {k}
            /\ overlapped' = (overlapped \/ Polling # {})
    /\ UNCHANGED <<emitted, timerVars, startLedger, seenIds, storeVars, troubles,
                   handled, skipped, handed, repeated, evicted>>

(* CoalescingStore.get                                                       *)
StoredCursor == IF buffer # None THEN buffer ELSE inner

(* Events from a start ledger on are those after the event before it.        *)
Before(ledger) == IF ledger > 0 THEN ledger - 1 ELSE 0

ReadCursor(k) ==
    /\ Idle /\ link[k].at = "cursor"
    /\ GoesOn(k, IF StoredCursor # None THEN [link[k] EXCEPT !.at = "pages", !.from = StoredCursor]
                 ELSE IF startLedger # None THEN [link[k] EXCEPT !.at = "pages", !.from = Before(startLedger)]
                 ELSE [link[k] EXCEPT !.at = "ledger"])
    /\ UNCHANGED <<emitted, timerVars, startLedger, seenIds, storeVars, troubles, storyVars>>

LedgerAnswers(k) ==
    LET first == IF emitted < Lookback THEN 0 ELSE emitted - Lookback
    IN  /\ Idle /\ link[k].at = "ledger" /\ ~link[k].aborted
        /\ startLedger' = first
        /\ skipped' = skipped \cup 1..Before(first)
        /\ GoesOn(k, [link[k] EXCEPT !.at = "pages", !.from = Before(first)])
        /\ UNCHANGED <<emitted, timerVars, seenIds, storeVars, troubles,
                       handled, handed, repeated, overlapped, evicted>>

-----------------------------------------------------------------------------
(* What getEvents answers for filter group g, asked from after event c: the  *)
(* first PageLimit events of the group, and a cursor that covers what was    *)
(* looked at.                                                                *)
Matching(g, c) == {n \in 1..emitted : n > c /\ GroupOf[n] = g}
Page(g, c) == {n \in Matching(g, c) : Cardinality({m \in Matching(g, c) : m <= n}) <= PageLimit}
PageCursor(g, c) == IF Cardinality(Matching(g, c)) > PageLimit THEN Max(Page(g, c)) ELSE emitted

Groups == {GroupOf[n] : n \in Events}
AllEvents(c) == UNION {Page(g, c) : g \in Groups}

(* Promise.all answers: the pages merged by id; the cursor to save is the    *)
(* first answer's.                                                           *)
NextCursor(c) == PageCursor(1, c)

PagesAnswer(k) ==
    /\ Idle /\ link[k].at = "pages" /\ ~link[k].aborted
    /\ GoesOn(k, [link[k] EXCEPT !.at = "loop", !.events = AllEvents(link[k].from),
                                 !.next = NextCursor(link[k].from)])
    /\ UNCHANGED <<emitted, timerVars, startLedger, seenIds, storeVars, troubles, storyVars>>

(* The request was aborted: the poll ends without a word.                    *)
AbortedPoll(k) ==
    /\ Idle /\ link[k].at \in {"ledger", "pages"} /\ link[k].aborted
    /\ PollEnds(k)
    /\ UNCHANGED <<emitted, timerVars, startLedger, seenIds, storeVars, troubles, storyVars>>

(* scheduleRetry, which the interval does not wait for.                      *)
ScheduleRetry ==
    IF isStopped THEN UNCHANGED timerVars
    ELSE retryTimers' = retryTimers + 1 /\ lastTimer' = TRUE /\ UNCHANGED <<isStopped, isRunning>>

RpcFails(k) ==
    /\ Idle /\ link[k].at \in {"ledger", "pages"} /\ ~link[k].aborted
    /\ Trouble

(* A retryable error: another poll is scheduled, unless maxRetries is passed.*)
Retryable(k) ==
    /\ RpcFails(k)
    /\ PollEnds(k)
    /\ ScheduleRetry \/ UNCHANGED timerVars
    /\ UNCHANGED <<emitted, startLedger, seenIds, storeVars, storyVars>>

(* The cursor is older than the RPC remembers: it is moved to the latest     *)
(* ledger, and what is in between is lost.                                   *)
CursorExpired(k) ==
    /\ RpcFails(k)
    /\ link[k].at = "pages"
    /\ PollEnds(k)
    /\ buffer' = emitted
    /\ skipped' = skipped \cup {n \in Events : n > link[k].from /\ n <= emitted}
    /\ ScheduleRetry
    /\ UNCHANGED <<emitted, startLedger, seenIds, writing, flushBroken, inner,
                   handled, handed, repeated, overlapped, evicted>>

(* A terminal error nobody handles, or a cursor that cannot be read.         *)
PollRejected(k) ==
    /\ Idle /\ link[k].at \in {"cursor", "ledger", "pages"}
    /\ PollThrows(k)
    /\ UNCHANGED <<seenIds, storyVars>>

-----------------------------------------------------------------------------
(* The loop over the page, one event at a time, in paging order.             *)
Current(k) == Min(link[k].events)

StopsShort(k) ==
    /\ link[k].at = "loop" /\ link[k].events # {}
    /\ isStopped
    /\ PollEnds(k)
    /\ UNCHANGED <<emitted, timerVars, startLedger, seenIds, storeVars, troubles, storyVars>>

(* touchSeen: the id is the most recently used again.                        *)
SkipSeen(k) ==
    /\ link[k].at = "loop" /\ link[k].events # {}
    /\ ~isStopped
    /\ Contains(seenIds, Current(k))
    /\ seenIds' = Append(RemoveFirst(seenIds, Current(k)), Current(k))
    /\ GoesOn(k, [link[k] EXCEPT !.events = @ \ {Current(k)}])
    /\ UNCHANGED <<emitted, timerVars, startLedger, storeVars, troubles, storyVars>>

(* The handler is called.                                                    *)
Dispatch(k) ==
    /\ link[k].at = "loop" /\ link[k].events # {}
    /\ ~isStopped
    /\ ~Contains(seenIds, Current(k))
    /\ handed' = handed \cup {Current(k)}
    /\ repeated' = repeated \cup (handed \cap {Current(k)})
    /\ GoesOn(k, [link[k] EXCEPT !.at = "handler"])
    /\ UNCHANGED <<emitted, timerVars, startLedger, seenIds, storeVars, troubles,
                   handled, skipped, overlapped, evicted>>

(* recordSeen: the id enters the window, which drops its oldest.             *)
Recorded(e) ==
    LET w == Append(RemoveFirst(seenIds, e), e)
    IN  SubSeq(w, IF Len(w) > DedupCacheSize THEN Len(w) - DedupCacheSize + 1 ELSE 1, Len(w))

HandlerReturns(k) ==
    /\ Idle /\ link[k].at = "handler"
    /\ seenIds' = Recorded(Current(k))
    /\ evicted' = (evicted \/ Len(Append(RemoveFirst(seenIds, Current(k)), Current(k))) > DedupCacheSize)
    /\ handled' = handled \cup {Current(k)}
    /\ GoesOn(k, [link[k] EXCEPT !.at = "loop", !.events = @ \ {Current(k)}])
    /\ UNCHANGED <<emitted, timerVars, startLedger, storeVars, troubles,
                   skipped, handed, repeated, overlapped>>

(* It throws: the id is not recorded, and the cursor stays where it is.      *)
HandlerThrows(k) ==
    /\ Idle /\ link[k].at = "handler"
    /\ PollThrows(k)
    /\ handed' = handed \ {Current(k)}
    /\ UNCHANGED <<seenIds, handled, skipped, repeated, overlapped, evicted>>

(* Past the last event: saveCursor, CoalescingStore.set.                     *)
MutPageDone(k) == link[k].events = {} \/ isStopped
PageDone(k) == link[k].events = {}

SaveCursor(k) ==
    /\ link[k].at = "loop" /\ PageDone(k)
    /\ buffer' = link[k].next
    /\ PollEnds(k)
    /\ UNCHANGED <<emitted, timerVars, startLedger, seenIds, writing, flushBroken, inner,
                   troubles, storyVars>>

-----------------------------------------------------------------------------
(* #doFlush, when the interval or flush() gets its turn: the buffer is       *)
(* emptied before the write, and a write that fails rejects the chain every  *)
(* later flush is put behind.                                                *)
DoFlush ==
    /\ Idle /\ ~flushBroken /\ writing = None /\ buffer # None
    /\ writing' = buffer
    /\ buffer' = None
    /\ UNCHANGED <<emitted, chainVars, timerVars, startLedger, seenIds, flushBroken, inner,
                   troubles, storyVars>>

FlushWritten ==
    /\ Idle /\ writing # None
    /\ inner' = writing
    /\ writing' = None
    /\ UNCHANGED <<emitted, chainVars, timerVars, startLedger, seenIds, buffer, flushBroken,
                   troubles, storyVars>>

FlushFails ==
    /\ Idle /\ writing # None
    /\ Trouble
    /\ writing' = None
    /\ flushBroken' = TRUE
    /\ UNCHANGED <<emitted, chainVars, timerVars, startLedger, seenIds, buffer, inner,
                   storyVars>>

(* The process dies (a rejected promise nobody handles ends it, too) and     *)
(* another one starts with the cursor of the inner store.  A write under way *)
(* has reached the store or not.                                             *)
Exit ==
    /\ Trouble
    /\ link' = [k \in Links |-> Free]
    /\ inflightPoll' = Settled /\ inflightAbort' = {}
    /\ isStopped' = FALSE /\ isRunning' = FALSE /\ retryTimers' = 0 /\ lastTimer' = FALSE
    /\ startLedger' = None /\ seenIds' = <<>>
    /\ buffer' = None /\ writing' = None /\ flushBroken' = FALSE
    /\ inner' \in {inner} \cup ({writing} \ {None})
    /\ handed' = {} /\ repeated' = {} /\ overlapped' = FALSE /\ evicted' = FALSE
    /\ UNCHANGED <<emitted, handled, skipped>>

-----------------------------------------------------------------------------
PollStep(k) ==
    \/ PollOnce(k) \/ ReadCursor(k) \/ LedgerAnswers(k) \/ PagesAnswer(k) \/ AbortedPoll(k)
    \/ StopsShort(k) \/ SkipSeen(k) \/ Dispatch(k) \/ HandlerReturns(k) \/ SaveCursor(k)

PollFailure(k) == Retryable(k) \/ CursorExpired(k) \/ PollRejected(k) \/ HandlerThrows(k)

SorobanNext ==
    \/ Emit \/ Stop \/ Exit
    \/ DoFlush \/ FlushWritten \/ FlushFails
    \/ \E k \in Links :
         \/ Start(k) \/ Interval(k) \/ RetryTimer(k)
         \/ PollStep(k) \/ PollFailure(k)

SorobanSpec == SorobanInit /\ [][SorobanNext]_sorobanVars

(* The interval keeps firing, calls settle and continuations run.  Nothing   *)
(* makes anyone start or stop, and calls need not fail.                      *)
SorobanFairness ==
    /\ WF_sorobanVars(\E k \in Links : Interval(k))
    /\ \A k \in Links : WF_sorobanVars(PollStep(k))
    /\ WF_sorobanVars(FlushWritten)

-----------------------------------------------------------------------------
(* Type correctness of the state; the window keeps its bound.                *)
SorobanTypeOK ==
    /\ emitted \in 0..NumEvents
    /\ link \in [Links -> Link] /\ inflightPoll \in Promises /\ inflightAbort \subseteq Links
    /\ isStopped \in BOOLEAN /\ isRunning \in BOOLEAN
    /\ retryTimers \in Nat /\ lastTimer \in BOOLEAN
    /\ startLedger \in Cursors
    /\ seenIds \in Seq(Events) /\ Len(seenIds) <= DedupCacheSize
    /\ {buffer, writing, inner} \subseteq Cursors /\ flushBroken \in BOOLEAN
    /\ handled \cup skipped \cup handed \cup repeated \subseteq Events
    /\ overlapped \in BOOLEAN /\ evicted \in BOOLEAN

(* At least once: whatever order polls, flushes, stops and deaths of the     *)
(* process come in, no cursor, buffered, being written or stored, covers an  *)
(* event whose handler has not completed, but for the events skipped by the  *)
(* choice of the start ledger or by an expired cursor.                       *)
CursorCoversHandled ==
    \A e \in Events : (\E c \in {buffer, writing, inner} : e <= c) => e \in handled \cup skipped

(* At most once per process: a handler is given an event a second time only  *)
(* after two polls ran at once or the window dropped an id, although a read  *)
(* during a flush sees an older cursor and fetches handled events again.     *)
RepeatedOnlyByOverlap == repeated # {} => overlapped \/ evicted

(* The saved cursor is never ahead of what was handled, and an event is      *)
(* handled again in one process only after polls overlapped or the window of *)
(* seen ids was full.                                                        *)
SorobanSafe == CursorCoversHandled /\ RepeatedOnlyByOverlap

(* While the subscriber runs and no rejected poll has broken its chain, each *)
(* event is handled in the end: failed requests, stale cursors and lost      *)
(* flushes only delay it.                                                    *)
EveryEventHandled ==
    \A e \in Events : e <= emitted ~> (e \in handled \cup skipped \/ ~isRunning \/ inflightPoll = Rejected)

(* What the comment on the window says: "an event ID is delivered downstream *)
(* at most once while it remains in this window".                            *)
AtMostOnceInWindow == repeated = {} \/ evicted
=============================================================================
