---------------------------- MODULE DualTransport ----------------------------
(***************************************************************************)
(* The two transports of EventEngine that report payments and trustline     *)
(* authorisations: the Horizon stream and the CAP-67 unified poller         *)
(* (packages/pulse-core/src/EventEngine.ts, SorobanRpcClient.ts), and the   *)
(* DedupeWindow (dedupe.ts) that keeps a movement reported by both from     *)
(* being delivered twice around a change of the effective ingestion mode.   *)
(*                                                                          *)
(* Operation n is Horizon's n-th record; each movement it makes is an event *)
(* of its own on the unified stream.  Both streams are in ledger order,      *)
(* neither waits for the other.  Where Horizon's stream resumes is the       *)
(* matter of EventEngine.tla: a start resumes it anywhere.  The unified      *)
(* poller resumes at its stored cursor; reads and writes of that cursor may  *)
(* fail, and a start may cross a stop that is under way.  A page of the      *)
(* poller holds one event, and one stop() is under way at a time.            *)
(***************************************************************************)
EXTENDS Integers, Sequences, FiniteSets, SequencesExt

CONSTANTS
    NumOps,     \* operations there are
    Unified,    \* the unified stream: the operation of each movement
    Capacity,   \* DEDUPE_WINDOW_CAPACITY
    MaxRuns     \* BOUND on starts of the engine

Ops        == 1..NumOps
Transports == {"horizon", "unified"}

(* Every operation makes a movement; the stream is in ledger order.          *)
ASSUME DualAssumption ==
    /\ NumOps \in Nat /\ Unified \in Seq(Ops) /\ Capacity \in Nat \ {0} /\ MaxRuns \in Nat
    /\ \A n \in Ops : \E u \in DOMAIN Unified : Unified[u] = n
    /\ \A u, v \in DOMAIN Unified : u < v => Unified[u] <= Unified[v]

VARIABLES
    effective,      \* this.effectiveIngestion
    runs,           \* starts of the engine so far
    engine,         \* the Horizon stream: "on", "off", or "gaveUp" after its last reconnect
    verifying,      \* a start waits for the network to be verified
    polls,          \* the poller each start made, with its signal and its cursor
    unifiedRunning, \* this.unifiedRunning
    controller,     \* this.unifiedController: the poller it aborts, 0 for none
    pollPromise,    \* this.unifiedPollPromise: the poller it stands for, 0 for none
    stopCall,       \* stop(): what it awaits, the poller, the cursor writes left to settle
    hzAt,           \* the record Horizon's stream is at
    hzQueue,        \* the engine's queue: operations waiting to be routed
    unWrites,       \* this.unifiedCursorWrites: cursors waiting to be written
    unStored,       \* the cursor in the store, 0 for none
    window,         \* DedupeWindow.seen: keys with their transports, oldest first
    deliveries,     \* history: events delivered per operation
    forgotten,      \* history: operations whose key was evicted
    hzHeard,        \* history: operations Horizon reported while it had the family
    unHeard,        \* history: movements the poller reported while it had the family
    hzTwice,        \* history: operations Horizon reported again
    unTwice,        \* history: operations the poller reported a movement of again
    lapses          \* history: what a poller may have started wrongly for

pollVars == <<polls, unifiedRunning, controller, pollPromise>>
seenVars == <<window, deliveries, forgotten, hzHeard, unHeard, hzTwice, unTwice>>
dualVars == <<effective, runs, engine, verifying, pollVars, stopCall, hzAt, hzQueue, unWrites,
              unStored, seenVars, lapses>>

DualInit ==
    /\ effective = "horizon"
    /\ runs = 0 /\ engine = "off" /\ verifying = FALSE
    /\ polls = [r \in 1..MaxRuns |-> [at |-> "none", aborted |-> FALSE, cursor |-> 0]]
    /\ unifiedRunning = FALSE /\ controller = 0 /\ pollPromise = 0
    /\ stopCall = [at |-> "no", of |-> 0, left |-> 0]
    /\ hzAt = 0 /\ hzQueue = <<>>
    /\ unWrites = <<>> /\ unStored = 0
    /\ window = <<>>
    /\ deliveries = [n \in Ops |-> 0]
    /\ forgotten = {} /\ hzHeard = {} /\ unHeard = {} /\ hzTwice = {} /\ unTwice = {}
    /\ lapses = {}

-----------------------------------------------------------------------------
(* seenFrom(key, transport): the answer, and the window after it.            *)
Slot(n) == {i \in DOMAIN window : window[i].key = n}

MutSeenFrom(n, t) == Slot(n) # {}
SeenFrom(n, t) == \E i \in Slot(n) : t \notin window[i].by

(* A new key evicts the oldest one once there are too many.                  *)
Observed(n, t) ==
    IF Slot(n) # {}
    THEN [i \in DOMAIN window |-> IF i \in Slot(n) THEN [window[i] EXCEPT !.by = @ \cup {t}] ELSE window[i]]
    ELSE LET w == Append(window, [key |-> n, by |-> {t}])
         IN  IF Len(w) > Capacity THEN Tail(w) ELSE w

(* route(): delivered unless the other transport reported it first.          *)
Route(n, t) ==
    /\ deliveries' = [deliveries EXCEPT ![n] = IF SeenFrom(n, t) THEN @ ELSE @ + 1]
    /\ window' = Observed(n, t)
    /\ forgotten' = forgotten \cup ({window[i].key : i \in DOMAIN window}
                                     \ {window'[i].key : i \in DOMAIN window'})

(* onmessage: the record is queued, unless the unified transport has the     *)
(* family.                                                                   *)
HorizonRecord ==
    LET n == hzAt + 1
    IN  /\ engine = "on" /\ n \in Ops
        /\ hzAt' = n
        /\ \/ /\ effective = "horizon"
              /\ hzQueue' = Append(hzQueue, n)
              /\ hzHeard' = hzHeard \cup {n}
              /\ hzTwice' = hzTwice \cup (hzHeard \cap {n})
           \/ effective = "unified" /\ UNCHANGED <<hzQueue, hzHeard, hzTwice>>
        /\ UNCHANGED <<effective, runs, engine, verifying, pollVars, stopCall, unWrites, unStored,
                       window, deliveries, forgotten, unHeard, unTwice, lapses>>

RouteQueued ==
    /\ hzQueue # <<>>
    /\ hzQueue' = Tail(hzQueue)
    /\ Route(Head(hzQueue), "horizon")
    /\ UNCHANGED <<effective, runs, engine, verifying, pollVars, stopCall, hzAt, unWrites, unStored,
                   hzHeard, unHeard, hzTwice, unTwice, lapses>>

-----------------------------------------------------------------------------
(* A poller that is over clears unifiedRunning, whoever set it.              *)
Ended(r) ==
    /\ polls' = [polls EXCEPT ![r].at = "ended"]
    /\ unifiedRunning' = FALSE

(* resolveUnifiedCursor is over.  With no cursor stored, or none that could  *)
(* be read, the server decides where the poller begins.                      *)
CursorRead(r) ==
    /\ polls[r].at = "reading"
    /\ \/ polls[r].aborted /\ Ended(r) /\ UNCHANGED lapses
       \/ /\ ~polls[r].aborted
          /\ \E c \in 0..Len(Unified) :
                /\ polls' = [polls EXCEPT ![r].at = "polling", ![r].cursor = c]
                /\ \/ c = unStored /\ UNCHANGED lapses
                   \/ unStored = 0 /\ UNCHANGED lapses
                   \/ lapses' = lapses \cup {"read"}
          /\ UNCHANGED unifiedRunning
    /\ UNCHANGED <<effective, runs, engine, verifying, controller, pollPromise, stopCall, hzAt,
                   hzQueue, unWrites, unStored, seenVars>>

(* The poller gets the next event; the cursor is written behind the writes   *)
(* under way.  Outside unified mode it does no more.  The request under way  *)
(* when the signal is aborted is still handled.                              *)
UnifiedEvent(r) ==
    LET u == polls[r].cursor + 1
    IN  /\ polls[r].at = "polling" /\ u \in DOMAIN Unified
        /\ polls' = [polls EXCEPT ![r].cursor = u,
                                  ![r].at = IF polls[r].aborted THEN "ended" ELSE @]
        /\ unifiedRunning' = (unifiedRunning /\ ~polls[r].aborted)
        /\ unWrites' = Append(unWrites, u)
        /\ \/ /\ effective = "unified"
              /\ Route(Unified[u], "unified")
              /\ unHeard' = unHeard \cup {u}
              /\ unTwice' = unTwice \cup {Unified[v] : v \in unHeard \cap {u}}
           \/ effective = "horizon" /\ UNCHANGED <<window, deliveries, forgotten, unHeard, unTwice>>
        /\ UNCHANGED <<effective, runs, engine, verifying, controller, pollPromise, stopCall, hzAt,
                       hzQueue, unStored, hzHeard, hzTwice, lapses>>

(* The signal ends the poller, or an error that is not to be retried does.   *)
PollerEnds(r) ==
    /\ polls[r].at = "polling"
    /\ Ended(r)
    /\ UNCHANGED <<effective, runs, engine, verifying, controller, pollPromise, stopCall, hzAt,
                   hzQueue, unWrites, unStored, seenVars, lapses>>

MutWrite(i) == i \in DOMAIN unWrites
Write(i) == i = 1 /\ unWrites # <<>>

(* persistUnifiedCursor: the store fails, or is not asked since it is held   *)
(* to be unhealthy; the next write takes its turn all the same.              *)
CursorWritten(i) ==
    /\ Write(i)
    /\ \/ unStored' = unWrites[i] /\ UNCHANGED lapses
       \/ lapses' = lapses \cup {"write"} /\ UNCHANGED unStored
    /\ unWrites' = RemoveAt(unWrites, i)
    /\ stopCall' = [stopCall EXCEPT !.left = IF @ > 0 THEN @ - 1 ELSE 0]
    /\ UNCHANGED <<effective, runs, engine, verifying, pollVars, hzAt, hzQueue, seenVars>>

-----------------------------------------------------------------------------
(* start() opens the Horizon stream at once.  It goes by that stream alone:  *)
(* stop() may be under way, or a poller may outlive a stream that gave up.   *)
StartEngine ==
    /\ engine # "on" /\ runs < MaxRuns
    /\ engine' = "on" /\ runs' = runs + 1 /\ verifying' = TRUE
    /\ hzAt' \in 0..NumOps
    /\ lapses' = lapses \cup (IF engine = "off" /\ stopCall.at = "no" THEN {} ELSE {"unstopped"})
    /\ UNCHANGED <<effective, pollVars, stopCall, hzQueue, unWrites, unStored, seenVars>>

(* The last reconnect failed.                                                *)
HorizonGivesUp ==
    /\ engine = "on"
    /\ engine' = "gaveUp"
    /\ UNCHANGED <<effective, runs, verifying, pollVars, stopCall, hzAt, hzQueue, unWrites, unStored,
                   seenVars, lapses>>

(* The network is verified: the mode is resolved and the poller started,     *)
(* unless one is held to be running.                                         *)
NetworkVerified ==
    /\ verifying
    /\ verifying' = FALSE
    /\ effective' \in Transports
    /\ \/ unifiedRunning /\ UNCHANGED pollVars
       \/ /\ ~unifiedRunning
          /\ polls' = [polls EXCEPT ![runs].at = "reading"]
          /\ unifiedRunning' = TRUE
          /\ controller' = runs /\ pollPromise' = runs
    /\ UNCHANGED <<runs, engine, stopCall, hzAt, hzQueue, unWrites, unStored, seenVars, lapses>>

(* stop() closes the stream, then awaits the Soroban subscriber, ...         *)
BeginStop ==
    /\ engine # "off" /\ stopCall.at = "no"
    /\ engine' = "off" /\ verifying' = FALSE
    /\ stopCall' = [at |-> "subscriber", of |-> 0, left |-> 0]
    /\ UNCHANGED <<effective, runs, pollVars, hzAt, hzQueue, unWrites, unStored, seenVars, lapses>>

(* ... aborts the poller and awaits it, ...                                  *)
StopAborts ==
    /\ stopCall.at = "subscriber"
    /\ stopCall' = [at |-> "poller", of |-> pollPromise, left |-> 0]
    /\ polls' = [r \in DOMAIN polls |->
                   IF r = controller THEN [polls[r] EXCEPT !.aborted = TRUE] ELSE polls[r]]
    /\ controller' = 0
    /\ UNCHANGED <<effective, runs, engine, verifying, unifiedRunning, pollPromise, hzAt, hzQueue,
                   unWrites, unStored, seenVars, lapses>>

(* ... awaits the cursor writes there are by then, ...                       *)
StopFlushes ==
    /\ stopCall.at = "poller"
    /\ stopCall.of # 0 => polls[stopCall.of].at = "ended"
    /\ stopCall' = [at |-> "writes", of |-> 0, left |-> Len(unWrites)]
    /\ pollPromise' = IF stopCall.of # 0 THEN 0 ELSE pollPromise
    /\ UNCHANGED <<effective, runs, engine, verifying, polls, unifiedRunning, controller, hzAt,
                   hzQueue, unWrites, unStored, seenVars, lapses>>

(* ... and is over.                                                          *)
StopEnds ==
    /\ stopCall.at = "writes" /\ stopCall.left = 0
    /\ stopCall' = [stopCall EXCEPT !.at = "no"]
    /\ unifiedRunning' = FALSE
    /\ UNCHANGED <<effective, runs, engine, verifying, polls, controller, pollPromise, hzAt, hzQueue,
                   unWrites, unStored, seenVars, lapses>>

DualNext ==
    \/ HorizonRecord \/ RouteQueued
    \/ \E r \in 1..MaxRuns : CursorRead(r) \/ UnifiedEvent(r) \/ PollerEnds(r)
    \/ \E i \in DOMAIN unWrites : CursorWritten(i)
    \/ StartEngine \/ HorizonGivesUp \/ NetworkVerified
    \/ BeginStop \/ StopAborts \/ StopFlushes \/ StopEnds

DualSpec == DualInit /\ [][DualNext]_dualVars

-----------------------------------------------------------------------------
(* Horizon has an operation still to report or to route.                     *)
Queued(n)  == \E i \in DOMAIN hzQueue : hzQueue[i] = n
Awaited(n) == n \notin hzHeard \/ Queued(n)

(* The movements of an operation that the poller reported.                   *)
Passed(n) == Cardinality({u \in unHeard : Unified[u] = n})

(* Neither evicted from the window nor reported twice by one transport,      *)
(* which seenFrom takes for another movement.                                *)
Plain == Ops \ (forgotten \cup hzTwice \cup unTwice)

(* "The watcher sees N events either way": an operation has been delivered   *)
(* once for every movement the unified transport reported of it, or once for *)
(* Horizon alone, whichever was first and wherever the mode changed in       *)
(* between.                                                                  *)
CountedOnce ==
    \A n \in Plain :
        deliveries[n] = IF Passed(n) > 0 THEN Passed(n) ELSE IF Awaited(n) THEN 0 ELSE 1

(* The unified transport reports a movement again only after a read or a     *)
(* write of its cursor failed, or after a start that no finished stop()      *)
(* precedes.                                                                 *)
ReplayedForAReason == unTwice # {} => lapses # {}

SameCountEitherWay == CountedOnce /\ ReplayedForAReason

(* The stored unified cursor never moves back, whatever writes fail: a write *)
(* that is overtaken by a later one would make the next start deliver events *)
(* again.  It does move back when a poller begins without the stored cursor, *)
(* or beside the writes of another.                                          *)
StoredCursorAdvances ==
    [][unStored' >= unStored \/ lapses \cap {"read", "unstopped"} # {}]_dualVars

(* What EventEngine.ts:1431 says awaiting the writes is for, not kept: the   *)
(* next start replays nothing that was delivered.                            *)
NothingReplayed == unTwice = {}
=============================================================================
