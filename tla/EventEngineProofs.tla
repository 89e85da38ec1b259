-------------------------- MODULE EventEngineProofs --------------------------
(***************************************************************************)
(* The safety invariants of EventEngine, for every water mark, retry limit, *)
(* failure threshold and bound.                                             *)
(***************************************************************************)
EXTENDS EventEngine, FiniteSetTheorems, SequenceTheorems, TLAPS

(* There is at most one connection, this.stopStream closes it, and a cursor  *)
(* read that could still open one is under way only while there is none.     *)
Link ==
    /\ \A c, d \in conns : c = d
    /\ \A c \in conns : c.epoch = stopStream
    /\ conns # {} => isRunning
    /\ isRunning => ~reconnectTimer
    /\ streamEpoch \in resolving => conns = {}

(* Whatever a stream may be resumed from lies in the received prefix: its    *)
(* position, the stored cursor and every write under way.                    *)
Prefix ==
    /\ origin = -1 => conns = {} /\ writes = {} /\ stored = 0
    /\ ~blind => /\ \A c \in conns : (origin + 1)..c.at \subseteq received
                 /\ stored # 0 => (origin + 1)..stored \subseteq received
                 /\ \A p \in writes : (origin + 1)..p \subseteq received

(* The flags of a backpressure episode, also while the queue is drained.     *)
Flags ==
    /\ wePaused => inBackpressure
    /\ ~wePaused => paused \subseteq userPaused
    /\ handling = 0 => eventQueue = <<>> /\ ~inBackpressure

(* Under "pause", backpressure keeps the source paused until relieved, and   *)
(* the one event above the mark is there only during backpressure.           *)
Held ==
    \/ overrode
    \/ policy # "pause" /\ Len(eventQueue) <= High
    \/ /\ policy = "pause"
       /\ inBackpressure => "horizon" \in paused
       /\ Len(eventQueue) <= IF inBackpressure THEN High + 1 ELSE High

(* Without congestion the source is not paused, and what is owed is queued.  *)
Owed ==
    /\ ~watching => owed = {}
    /\ ~congested => "horizon" \notin paused
    /\ NothingMissedUncongested

IInv == TypeOK /\ Link /\ Prefix /\ Flags /\ Held /\ Owed

-----------------------------------------------------------------------------
(* The water marks are at least one, whatever was configured.                *)
LEMMA Marks == High \in Nat /\ High >= 1 /\ Low \in Nat /\ Low >= 1
BY EngineAssumption DEF High, Low

(* Offering a record to the queue leaves a queue of records.                 *)
LEMMA OfferedType ==
    ASSUME TypeOK, NEW p \in 1..MaxRecords
    PROVE  Offered(p) \in Seq(1..MaxRecords)
<1>1. eventQueue \in Seq(1..MaxRecords)
  BY DEF TypeOK
<1>2. Append(eventQueue, p) \in Seq(1..MaxRecords)
  BY <1>1, AppendProperties
<1>3. CASE AtMark
  <2>1. Len(eventQueue) >= 1
    BY <1>3, <1>1, Marks, LenProperties DEF AtMark
  <2>2. eventQueue # <<>>
    BY <2>1, <1>1, EmptySeq
  <2>3. Tail(eventQueue) \in Seq(1..MaxRecords)
    BY <1>1, <2>2, HeadTailProperties
  <2>4. Append(Tail(eventQueue), p) \in Seq(1..MaxRecords)
    BY <2>3, AppendProperties
  <2> QED BY <1>1, <1>2, <2>4 DEF Offered, Pushed
<1> QED BY <1>2, <1>3 DEF Offered, Pushed

(* What is left after routing the head of a queue.                           *)
LEMMA RoutesType ==
    ASSUME NEW q \in Seq(1..MaxRecords), NEW P, NEW O \in SUBSET (1..MaxRecords),
           Routes(q, P, O), watching \in BOOLEAN
    PROVE  /\ handling' \in 0..MaxRecords
           /\ eventQueue' \in Seq(1..MaxRecords)
           /\ handlerRuns' \in BOOLEAN
           /\ owed' \subseteq 1..MaxRecords
           /\ handling' = 0 <=> q = <<>>
           /\ handling' = 0 => eventQueue' = <<>>
<1> DEFINE p == IF q = <<>> THEN 0 ELSE Head(q)
           out == p # 0 /\ watching /\ "horizon" \notin P
<1>1. /\ handling' = p
      /\ eventQueue' = IF q = <<>> THEN q ELSE Tail(q)
      /\ handlerRuns' = out
      /\ owed' = IF out THEN O \ {p} ELSE O
  BY Zenon DEF Routes
<1>2. handlerRuns' \in BOOLEAN
  BY <1>1, Zenon
<1>3. owed' \subseteq 1..MaxRecords
  BY <1>1, Zenon
<1>4. CASE q = <<>>
  BY <1>1, <1>2, <1>3, <1>4, EngineAssumption
<1>5. CASE q # <<>>
  <2>1. Head(q) \in 1..MaxRecords /\ Tail(q) \in Seq(1..MaxRecords)
    BY <1>5, HeadTailProperties
  <2>2. p \in 1..MaxRecords
    BY <1>5, <2>1
  <2> HIDE DEF out
  <2> QED BY <1>1, <1>2, <1>3, <1>5, <2>1, <2>2, EngineAssumption
<1> QED BY <1>4, <1>5

(* What enqueueEvent does to the queue.                                      *)
LEMMA EnqueueType ==
    ASSUME TypeOK, NEW p \in 1..MaxRecords, EnqueueEvent(p)
    PROVE  /\ eventQueue' \in Seq(1..MaxRecords)
           /\ handling' \in 0..MaxRecords
           /\ handlerRuns' \in BOOLEAN
           /\ paused' \subseteq Sources
           /\ inBackpressure' \in BOOLEAN /\ wePaused' \in BOOLEAN /\ congested' \in BOOLEAN
           /\ owed' \subseteq 1..MaxRecords
<1> DEFINE O == IF watching THEN owed \cup {p} ELSE owed
<1>1. O \in SUBSET (1..MaxRecords)
  BY Zenon DEF TypeOK
<1>2. watching \in BOOLEAN
  BY DEF TypeOK
<1> HIDE DEF O
<1>3. CASE ~Ingests
  <2>1. owed' = O /\ UNCHANGED <<queueVars, congested>>
    BY <1>3, Zenon DEF EnqueueEvent, O
  <2> QED BY <1>1, <2>1 DEF TypeOK, queueVars
<1>4. CASE Ingests
  <2>1. /\ inBackpressure' = (inBackpressure \/ AtMark)
        /\ paused' = IF AtMark /\ policy = "pause" /\ ~inBackpressure THEN Sources ELSE paused
        /\ wePaused' = (wePaused \/ (AtMark /\ policy = "pause" /\ ~inBackpressure))
        /\ congested' = (congested \/ AtMark)
        /\ IF handling = 0
           THEN Routes(Offered(p), paused', O)
           ELSE /\ eventQueue' = Offered(p)
                /\ owed' = O
                /\ UNCHANGED <<handling, handlerRuns>>
    BY <1>4, Zenon DEF EnqueueEvent, O
  <2>2. paused' \subseteq Sources
    BY <2>1, Zenon DEF TypeOK
  <2>3. inBackpressure' \in BOOLEAN /\ wePaused' \in BOOLEAN /\ congested' \in BOOLEAN
    BY <2>1, Zenon
  <2>4. Offered(p) \in Seq(1..MaxRecords)
    BY OfferedType
  <2>5. CASE handling = 0
    BY <1>1, <1>2, <2>1, <2>2, <2>3, <2>4, <2>5, RoutesType, Zenon
  <2>6. CASE handling # 0
    BY <1>1, <2>1, <2>2, <2>3, <2>4, <2>6 DEF TypeOK
  <2> QED BY <2>5, <2>6
<1> QED BY <1>3, <1>4

(* Opening a stream keeps the types of the connection and of its history.    *)
LEMMA OpenStreamType ==
    ASSUME TypeOK, NEW pending \in 0..MaxRetries, OpenStream(pending)
    PROVE  /\ isRunning' \in BOOLEAN /\ reconnectTimer' \in BOOLEAN
           /\ pendingSuccess' \in 0..MaxRetries
           /\ streamEpoch' \in Nat /\ resolving' \subseteq 0..streamEpoch'
           /\ conns' \subseteq Conns /\ stopStream' \in 0..streamEpoch'
           /\ origin' \in -1..MaxRecords /\ received' \subseteq 1..MaxRecords
           /\ blind' \in BOOLEAN
<1>1. streamEpoch' = streamEpoch + 1 /\ streamEpoch \in Nat /\ head \in 0..MaxRecords
  BY DEF OpenStream, TypeOK
<1>2. isRunning' = TRUE /\ reconnectTimer' = FALSE /\ pendingSuccess' = pending
  BY Zenon DEF OpenStream
<1>3. streamEpoch' \in Nat
  BY <1>1
<1>4. CASE store
  <2>1. conns' = Closed /\ stopStream' = 0 /\ resolving' = resolving \cup {streamEpoch + 1}
    BY <1>4, Zenon DEF OpenStream, Asked
  <2>2. conns' \subseteq Conns
    BY <2>1, Zenon DEF TypeOK, Closed
  <2>3. resolving' \subseteq 0..streamEpoch' /\ stopStream' \in 0..streamEpoch'
    BY <1>1, <2>1 DEF TypeOK
  <2>4. origin' = origin /\ received' = received /\ blind' = blind
    BY <1>4 DEF OpenStream, gapVars
  <2> QED BY <1>2, <1>3, <2>2, <2>3, <2>4, Zenon DEF TypeOK
<1>5. CASE ~store
  <2>1. [epoch |-> streamEpoch + 1, at |-> head] \in Conns
    BY <1>1 DEF Conns
  <2>2. conns' = Closed \cup {[epoch |-> streamEpoch + 1, at |-> head]} /\ stopStream' = streamEpoch + 1
        /\ UNCHANGED resolving /\ OpenedAt(head, TRUE)
    BY <1>5, Zenon DEF OpenStream
  <2>3. conns' \subseteq Conns
    BY <2>1, <2>2, Zenon DEF TypeOK, Closed
  <2>4. blind' \in BOOLEAN
    BY <2>2, Zenon DEF OpenedAt
  <2>5. resolving' \subseteq 0..streamEpoch' /\ stopStream' \in 0..streamEpoch'
    BY <1>1, <2>2 DEF TypeOK
  <2>6. origin' \in -1..MaxRecords
    BY <1>1, <2>2 DEF TypeOK, OpenedAt
  <2>7. received' \subseteq 1..MaxRecords
    BY <2>2, Zenon DEF TypeOK, OpenedAt
  <2> QED BY <1>2, <1>3, <2>3, <2>4, <2>5, <2>6, <2>7, Zenon
<1> QED BY <1>4, <1>5

-----------------------------------------------------------------------------
(* TypeOK is inductive. *)
LEMMA TypeStep ==
    ASSUME TypeOK, [Next]_vars
    PROVE  TypeOK'
<1> USE EngineAssumption
<1>1. CASE LedgerCloses
  BY <1>1 DEF LedgerCloses, TypeOK, config, linkVars, cursorVars, queueVars, counts, gapVars
<1>2. CASE Start
  <2>1. OpenStream(0) /\ 0 \in 0..MaxRetries
    BY <1>2 DEF Start
  <2>2. starts' \in 0..MaxStarts
    BY <1>2 DEF Start, TypeOK
  <2> QED BY <1>2, <2>1, <2>2, OpenStreamType
          DEF Start, TypeOK, config, cursorVars, queueVars
<1>3. CASE Stop
  <2>1. /\ conns' \subseteq Conns /\ stopStream' \in 0..streamEpoch'
        /\ pendingSuccess' \in 0..MaxRetries /\ reconnectAttempt' \in 0..MaxRetries
    BY <1>3 DEF Stop, Closed, TypeOK
  <2>2. /\ isRunning' \in BOOLEAN /\ reconnectTimer' \in BOOLEAN
        /\ watching' \in BOOLEAN /\ overrode' \in BOOLEAN
    BY <1>3, Zenon DEF Stop
  <2>3. paused' = {} /\ userPaused' = {} /\ owed' = {}
    BY <1>3, Zenon DEF Stop
  <2> QED BY <1>3, <2>1, <2>2, <2>3 DEF Stop, TypeOK, config, cursorVars, counts, gapVars
<1>4. CASE Subscribe
  BY <1>4 DEF Subscribe, TypeOK, config, linkVars, cursorVars, queueVars, counts, gapVars
<1>5. CASE Unsubscribe
  BY <1>5 DEF Unsubscribe, TypeOK, config, linkVars, cursorVars, queueVars, counts, gapVars
<1>6. ASSUME NEW s \in UserSources, PauseSource(s) PROVE TypeOK'
  <2>1. s \in Sources
    BY DEF Sources
  <2> QED BY <1>6, <2>1 DEF PauseSource, TypeOK, config, linkVars, cursorVars, counts, gapVars
<1>7. ASSUME NEW s \in UserSources, ResumeSource(s) PROVE TypeOK'
  BY <1>7 DEF ResumeSource, TypeOK, config, linkVars, cursorVars, counts, gapVars
<1>8. ASSUME NEW e \in resolving, NEW ok \in BOOLEAN, CursorRead(e, ok) PROVE TypeOK'
  <2>1. ResumeAt(ok) \in 0..MaxRecords /\ e \in Nat /\ e \in 0..streamEpoch
    BY DEF TypeOK, ResumeAt
  <2>2. [epoch |-> e, at |-> ResumeAt(ok)] \in Conns
    BY <2>1 DEF Conns
  <2>3. conns' \subseteq Conns
    BY <1>8, <2>2 DEF CursorRead, TypeOK
  <2>4. origin' \in -1..MaxRecords /\ stopStream' \in 0..streamEpoch'
    BY <1>8, <2>1 DEF CursorRead, OpenedAt, TypeOK, gapVars
  <2>5. received' \subseteq 1..MaxRecords
    BY <1>8 DEF CursorRead, OpenedAt, TypeOK, gapVars
  <2>6. blind' \in BOOLEAN
    BY <1>8, Zenon DEF CursorRead, OpenedAt, TypeOK, gapVars
  <2> QED BY <1>8, <2>3, <2>4, <2>5, <2>6
          DEF CursorRead, TypeOK, config, cursorVars, queueVars, counts
<1>9. ASSUME NEW c \in conns, OnError(c) PROVE TypeOK'
  <2>1. reconnectAttempt' \in 0..MaxRetries
    BY <1>9 DEF OnError, Exhausted, TypeOK
  <2>2. reconnectTimer' \in BOOLEAN
    BY <1>9 DEF OnError, Exhausted, TypeOK
  <2>3. /\ conns' \subseteq Conns /\ stopStream' \in 0..streamEpoch'
        /\ pendingSuccess' \in 0..MaxRetries /\ faults' \in 0..MaxFaults
    BY <1>9 DEF OnError, Closed, TypeOK
  <2>4. isRunning' \in BOOLEAN
    BY <1>9, Zenon DEF OnError
  <2> QED BY <1>9, <2>1, <2>2, <2>3, <2>4
          DEF OnError, TypeOK, config, cursorVars, queueVars, gapVars
<1>10. ASSUME NEW c \in conns, NEW isEvent \in BOOLEAN, OnMessage(c, isEvent) PROVE TypeOK'
  <2>1. c.at \in 0..MaxRecords /\ c.epoch \in Nat /\ c.at < head /\ head \in 0..MaxRecords
    BY <1>10 DEF OnMessage, TypeOK, Conns
  <2>2. c.at + 1 \in 1..MaxRecords
    BY <2>1
  <2>3. [c EXCEPT !.at = c.at + 1] \in Conns
    <3>1. c \in Conns /\ c.at + 1 \in 0..MaxRecords
      BY <2>2 DEF TypeOK
    <3> QED BY <3>1 DEF Conns
  <2>4. conns' \subseteq Conns
    BY <1>10, <2>3 DEF OnMessage, TypeOK
  <2>5. received' \subseteq 1..MaxRecords /\ writes' \subseteq 1..MaxRecords
    BY <1>10, <2>2 DEF OnMessage, TypeOK
  <2>6. pendingSuccess' \in 0..MaxRetries /\ reconnectAttempt' \in 0..MaxRetries
    BY <1>10 DEF OnMessage, TypeOK
  <2>7. /\ eventQueue' \in Seq(1..MaxRecords) /\ handling' \in 0..MaxRecords
        /\ handlerRuns' \in BOOLEAN /\ paused' \subseteq Sources
        /\ inBackpressure' \in BOOLEAN /\ wePaused' \in BOOLEAN /\ congested' \in BOOLEAN
        /\ owed' \subseteq 1..MaxRecords
    <3>1. CASE isEvent /\ EnqueueEvent(c.at + 1)
      BY <2>2, <3>1, EnqueueType
    <3>2. CASE UNCHANGED <<queueVars, congested, owed>>
      BY <3>2 DEF queueVars, TypeOK
    <3> QED BY <1>10, <3>1, <3>2 DEF OnMessage
  <2> QED BY <1>10, <2>4, <2>5, <2>6, <2>7 DEF OnMessage, TypeOK, config, counts
<1>11. CASE ReconnectTimerFires
  <2>1. OpenStream(reconnectAttempt) /\ reconnectAttempt \in 0..MaxRetries
    BY <1>11 DEF ReconnectTimerFires, TypeOK
  <2> QED BY <1>11, <2>1, OpenStreamType
          DEF ReconnectTimerFires, TypeOK, config, cursorVars, queueVars, counts
<1>12. CASE HandlerReturns
  <2> DEFINE relieved == inBackpressure /\ Len(eventQueue) <= Low
             P == IF relieved /\ wePaused THEN Resumes ELSE paused
  <2>1. /\ inBackpressure' = (inBackpressure /\ ~relieved)
        /\ wePaused' = (wePaused /\ ~relieved)
        /\ paused' = P
        /\ Routes(eventQueue, P, owed)
    BY <1>12, Zenon DEF HandlerReturns
  <2>2. inBackpressure' \in BOOLEAN /\ wePaused' \in BOOLEAN /\ paused' \subseteq Sources
    BY <2>1, Zenon DEF TypeOK, Resumes
  <2>3. /\ handling' \in 0..MaxRecords
        /\ eventQueue' \in Seq(1..MaxRecords)
        /\ handlerRuns' \in BOOLEAN
        /\ owed' \subseteq 1..MaxRecords
    BY <2>1, RoutesType, Zenon DEF TypeOK
  <2> QED BY <1>12, <2>2, <2>3
          DEF HandlerReturns, TypeOK, config, linkVars, cursorVars, counts, gapVars
<1>13. ASSUME NEW p \in writes, WriteLands(p) PROVE TypeOK'
  <2>1. stored' \in 0..MaxRecords /\ writes' \subseteq 1..MaxRecords /\ failures' \in Nat
    BY <1>13 DEF WriteLands, TypeOK
  <2>2. unhealthy' \in BOOLEAN
    BY <1>13, Zenon DEF WriteLands
  <2> QED BY <1>13, <2>1, <2>2
          DEF WriteLands, TypeOK, config, linkVars, queueVars, counts, gapVars
<1>14. ASSUME NEW p \in writes, WriteFails(p) PROVE TypeOK'
  <2>1. unhealthy' \in BOOLEAN /\ failures' \in Nat
    BY <1>14 DEF WriteFails, TypeOK
  <2> QED BY <1>14, <2>1 DEF WriteFails, TypeOK, config, linkVars, queueVars, counts, gapVars
<1>15. CASE Crash
  <2>1. stored' \in 0..MaxRecords /\ faults' \in 0..MaxFaults
    BY <1>15 DEF Crash, TypeOK
  <2>2. <<>> \in Seq(1..MaxRecords) /\ 0 \in 0..MaxRecords /\ 0 \in 0..MaxRetries /\ 0 \in 0..0
    OBVIOUS
  <2>3. /\ eventQueue' \in Seq(1..MaxRecords) /\ handling' \in 0..MaxRecords
        /\ reconnectAttempt' \in 0..MaxRetries /\ pendingSuccess' \in 0..MaxRetries
        /\ stopStream' \in 0..streamEpoch' /\ streamEpoch' \in Nat /\ failures' \in Nat
    BY <1>15, <2>2 DEF Crash
  <2>4. /\ resolving' = {} /\ conns' = {} /\ writes' = {} /\ paused' = {}
        /\ userPaused' = {} /\ owed' = {}
    BY <1>15, Zenon DEF Crash
  <2>5. /\ isRunning' \in BOOLEAN /\ reconnectTimer' \in BOOLEAN /\ unhealthy' \in BOOLEAN
        /\ handlerRuns' \in BOOLEAN /\ inBackpressure' \in BOOLEAN /\ wePaused' \in BOOLEAN
        /\ watching' \in BOOLEAN /\ overrode' \in BOOLEAN /\ congested' \in BOOLEAN
    BY <1>15, Zenon DEF Crash
  <2>6. UNCHANGED <<policy, store, head, starts, origin, received, blind>>
    BY <1>15 DEF Crash, config, gapVars
  <2> QED BY <2>1, <2>3, <2>4, <2>5, <2>6 DEF TypeOK
<1>16. CASE UNCHANGED vars
  BY <1>16 DEF vars, TypeOK, config, linkVars, cursorVars, queueVars, counts, gapVars
<1> QED BY <1>1, <1>2, <1>3, <1>4, <1>5, <1>6, <1>7, <1>8, <1>9, <1>10, <1>11, <1>12,
          <1>13, <1>14, <1>15, <1>16 DEF Next

-----------------------------------------------------------------------------
(* closeStream leaves no connection, because there was only the one.         *)
LEMMA ClosedEmpty ==
    ASSUME Link
    PROVE  Closed = {}
BY DEF Link, Closed

(* Opening a stream keeps Link.                                              *)
LEMMA OpenStreamLink ==
    ASSUME TypeOK, Link, NEW pending, OpenStream(pending)
    PROVE  Link'
<1>1. Closed = {}
  BY ClosedEmpty
<1>2. streamEpoch \in Nat /\ resolving \subseteq 0..streamEpoch
  BY DEF TypeOK
<1>3. isRunning' /\ ~reconnectTimer' /\ streamEpoch' = streamEpoch + 1
  BY DEF OpenStream
<1>4. CASE store
  <2>1. conns' = {}
    BY <1>1, <1>4 DEF OpenStream
  <2> QED BY <1>3, <2>1 DEF Link
<1>5. CASE ~store
  <2>1. /\ conns' = {[epoch |-> streamEpoch + 1, at |-> head]}
        /\ stopStream' = streamEpoch + 1 /\ resolving' = resolving
    BY <1>1, <1>5 DEF OpenStream
  <2>2. streamEpoch' \notin resolving'
    BY <1>2, <1>3, <2>1
  <2> QED BY <1>3, <2>1, <2>2 DEF Link
<1> QED BY <1>4, <1>5

(* Link is preserved: a connection is opened only where there is none, and   *)
(* a cursor read of an earlier epoch opens nothing.                          *)
LEMMA LinkStep ==
    ASSUME TypeOK, Link, [Next]_vars
    PROVE  Link'
<1>1. CASE UNCHANGED linkVars
  BY <1>1 DEF Link, linkVars
<1>2. CASE Start \/ ReconnectTimerFires
  BY <1>2, OpenStreamLink DEF Start, ReconnectTimerFires
<1>3. CASE Stop
  BY <1>3, ClosedEmpty DEF Stop, Link
<1>4. ASSUME NEW e \in resolving, NEW ok \in BOOLEAN, CursorRead(e, ok) PROVE Link'
  <2>1. /\ isRunning' = isRunning /\ reconnectTimer' = reconnectTimer
        /\ streamEpoch' = streamEpoch /\ resolving' = resolving \ {e}
    BY <1>4 DEF CursorRead
  <2>2. CASE UNCHANGED <<conns, stopStream>>
    BY <2>1, <2>2 DEF Link
  <2>3. CASE /\ MayOpen(e)
             /\ conns' = conns \cup {[epoch |-> e, at |-> ResumeAt(ok)]}
             /\ stopStream' = e
    <3>1. e = streamEpoch /\ isRunning /\ conns = {}
      BY <2>3 DEF MayOpen, Link
    <3>2. conns' = {[epoch |-> e, at |-> ResumeAt(ok)]}
      BY <2>3, <3>1
    <3>3. streamEpoch' \notin resolving'
      BY <2>1, <3>1
    <3> QED BY <2>1, <2>3, <3>1, <3>2, <3>3 DEF Link
  <2> QED BY <1>4, <2>2, <2>3 DEF CursorRead
<1>5. ASSUME NEW c \in conns, OnError(c) PROVE Link'
  BY <1>5, ClosedEmpty DEF OnError, Link
<1>6. ASSUME NEW c \in conns, NEW isEvent \in BOOLEAN, OnMessage(c, isEvent) PROVE Link'
  <2>1. conns = {c}
    BY DEF Link
  <2>2. conns' = {[c EXCEPT !.at = c.at + 1]}
    BY <1>6, <2>1 DEF OnMessage
  <2>3. [c EXCEPT !.at = c.at + 1].epoch = c.epoch
    <3>1. c \in Conns
      BY DEF TypeOK
    <3> QED BY <3>1 DEF Conns
  <2>4. UNCHANGED <<isRunning, reconnectTimer, streamEpoch, resolving, stopStream>>
    BY <1>6 DEF OnMessage
  <2> QED BY <2>1, <2>2, <2>3, <2>4 DEF Link
<1>7. CASE Crash
  BY <1>7 DEF Crash, Link
<1>8. CASE \/ LedgerCloses \/ Subscribe \/ Unsubscribe \/ HandlerReturns
           \/ \E s \in UserSources : PauseSource(s) \/ ResumeSource(s)
           \/ \E p \in writes : WriteLands(p) \/ WriteFails(p)
           \/ UNCHANGED vars
  BY <1>1, <1>8, Zenon DEF LedgerCloses, Subscribe, Unsubscribe, HandlerReturns, PauseSource,
                    ResumeSource, WriteLands, WriteFails, vars
<1> QED BY <1>2, <1>3, <1>4, <1>5, <1>6, <1>7, <1>8 DEF Next

-----------------------------------------------------------------------------
(* Opening a stream keeps Prefix: the first one starts the prefix, a later   *)
(* one at "now" ends the claim.                                              *)
LEMMA OpenStreamPrefix ==
    ASSUME TypeOK, Link, Prefix, NEW pending, OpenStream(pending), UNCHANGED cursorVars
    PROVE  Prefix'
<1>1. Closed = {}
  BY ClosedEmpty
<1>2. writes' = writes /\ stored' = stored
  BY DEF cursorVars
<1>3. CASE store
  <2>1. conns' = {} /\ origin' = origin /\ received' = received /\ blind' = blind
    BY <1>1, <1>3 DEF OpenStream, gapVars
  <2> QED BY <1>2, <2>1 DEF Prefix
<1>4. CASE ~store
  <2>1. /\ origin' = IF origin = -1 THEN head ELSE origin
        /\ blind' = (blind \/ origin # -1)
        /\ received' = received
    BY <1>4 DEF OpenStream, OpenedAt
  <2>2. conns' = {[epoch |-> streamEpoch + 1, at |-> head]}
    BY <1>1, <1>4 DEF OpenStream
  <2>3. head \in 0..MaxRecords /\ origin' # -1
    BY <2>1 DEF TypeOK
  <2>4. CASE origin = -1
    <3>1. writes' = {} /\ stored' = 0
      BY <1>2, <2>4 DEF Prefix
    <3>2. (origin' + 1)..head \subseteq received'
      BY <2>1, <2>3, <2>4
    <3> QED BY <2>2, <2>3, <3>1, <3>2 DEF Prefix
  <2>5. CASE origin # -1
    BY <2>1, <2>3, <2>5 DEF Prefix
  <2> QED BY <2>4, <2>5
<1> QED BY <1>3, <1>4

(* Prefix is preserved: a cursor is written only after its record was        *)
(* received, and a stream reopened at any of them skips nothing.             *)
LEMMA PrefixStep ==
    ASSUME TypeOK, Link, Prefix, [Next]_vars
    PROVE  Prefix'
<1>1. CASE UNCHANGED <<conns, stored, writes, gapVars>>
  BY <1>1 DEF Prefix, gapVars
<1>2. CASE Start \/ ReconnectTimerFires
  BY <1>2, OpenStreamPrefix DEF Start, ReconnectTimerFires
<1>3. CASE Stop
  BY <1>3, ClosedEmpty DEF Stop, Prefix, cursorVars, gapVars
<1>4. ASSUME NEW e \in resolving, NEW ok \in BOOLEAN, CursorRead(e, ok) PROVE Prefix'
  <2>1. writes' = writes /\ stored' = stored
    BY <1>4 DEF CursorRead, cursorVars
  <2>2. CASE UNCHANGED <<conns, gapVars>>
    BY <1>1, <2>1, <2>2
  <2>3. CASE /\ MayOpen(e)
             /\ conns' = conns \cup {[epoch |-> e, at |-> ResumeAt(ok)]}
             /\ OpenedAt(ResumeAt(ok), ~ok \/ stored = 0)
    <3>1. conns' = {[epoch |-> e, at |-> ResumeAt(ok)]}
      BY <2>3 DEF MayOpen, Link
    <3>2. ResumeAt(ok) \in 0..MaxRecords
      BY DEF TypeOK, ResumeAt
    <3>3. /\ origin' = IF origin = -1 THEN ResumeAt(ok) ELSE origin
          /\ received' = received
      BY <2>3 DEF OpenedAt
    <3>4. ~blind' => ~blind /\ (origin = -1 \/ (ok /\ stored # 0))
      BY <2>3, Zenon DEF OpenedAt
    <3>5. CASE origin = -1
      <4>1. writes' = {} /\ stored' = 0
        BY <2>1, <3>5 DEF Prefix
      <4>2. (origin' + 1)..ResumeAt(ok) = {} /\ origin' # -1
        BY <3>2, <3>3, <3>5
      <4> QED BY <3>1, <4>1, <4>2 DEF Prefix
    <3>6. CASE origin # -1
      <4>1. origin' = origin
        BY <3>3, <3>6
      <4>2. ~blind' => ResumeAt(ok) = stored /\ (origin + 1)..stored \subseteq received
        BY <3>4, <3>6 DEF ResumeAt, Prefix
      <4> QED BY <2>1, <3>1, <3>3, <3>4, <3>6, <4>1, <4>2 DEF Prefix
    <3> QED BY <3>5, <3>6
  <2> QED BY <1>4, <2>2, <2>3 DEF CursorRead
<1>5. ASSUME NEW c \in conns, OnError(c) PROVE Prefix'
  BY <1>5, ClosedEmpty DEF OnError, Prefix, cursorVars, gapVars
<1>6. ASSUME NEW c \in conns, NEW isEvent \in BOOLEAN, OnMessage(c, isEvent) PROVE Prefix'
  <2> DEFINE p == c.at + 1
  <2>1. c.at \in 0..MaxRecords /\ conns = {c} /\ origin # -1 /\ origin \in -1..MaxRecords
    BY DEF TypeOK, Conns, Link, Prefix
  <2>2. /\ conns' = {[c EXCEPT !.at = p]} /\ received' = received \cup {p}
        /\ writes' \subseteq writes \cup {p}
        /\ stored' = stored /\ origin' = origin /\ blind' = blind
    BY <1>6, <2>1 DEF OnMessage
  <2>3. [c EXCEPT !.at = p].at = p
    <3>1. c \in Conns
      BY DEF TypeOK
    <3> QED BY <3>1 DEF Conns
  <2>4. ~blind => (origin + 1)..p \subseteq received'
    <3>1. (origin + 1)..p \subseteq ((origin + 1)..c.at) \cup {p}
      BY <2>1
    <3> QED BY <2>2, <3>1 DEF Prefix
  <2> HIDE DEF p
  <2> QED BY <2>1, <2>2, <2>3, <2>4 DEF Prefix
<1>7. CASE Crash
  <2>1. /\ conns' = {} /\ writes' = {} /\ stored' \in writes \cup {stored}
        /\ origin' = origin /\ received' = received /\ blind' = blind
    BY <1>7 DEF Crash, gapVars
  <2> QED BY <2>1 DEF Prefix
<1>8. ASSUME NEW p \in writes, WriteLands(p) PROVE Prefix'
  BY <1>8 DEF WriteLands, Prefix, linkVars, gapVars
<1>9. ASSUME NEW p \in writes, WriteFails(p) PROVE Prefix'
  BY <1>9 DEF WriteFails, Prefix, linkVars, gapVars
<1>10. CASE \/ LedgerCloses \/ Subscribe \/ Unsubscribe \/ HandlerReturns
            \/ \E s \in UserSources : PauseSource(s) \/ ResumeSource(s)
            \/ UNCHANGED vars
  <2>1. UNCHANGED <<linkVars, cursorVars, gapVars>>
    BY <1>10 DEF LedgerCloses, Subscribe, Unsubscribe, HandlerReturns, PauseSource,
                 ResumeSource, vars
  <2> QED BY <1>1, <2>1 DEF linkVars, cursorVars
<1> QED BY <1>2, <1>3, <1>4, <1>5, <1>6, <1>7, <1>8, <1>9, <1>10 DEF Next

-----------------------------------------------------------------------------
(* A queue drained from idle: the record offered is routed at once.          *)
LEMMA IdleOffer ==
    ASSUME TypeOK, Flags, handling = 0, NEW p \in 1..MaxRecords
    PROVE  /\ ~AtMark
           /\ Offered(p) = <<p>> /\ Offered(p) # <<>>
           /\ Head(Offered(p)) = p /\ Tail(Offered(p)) = <<>>
<1>1. eventQueue = <<>> /\ Len(eventQueue) = 0
  BY DEF Flags
<1>2. ~AtMark
  BY <1>1, Marks DEF AtMark
<1> QED BY <1>1, <1>2 DEF Offered, Pushed

(* Flags is preserved: relief always comes before the queue is empty.        *)
LEMMA FlagsStep ==
    ASSUME TypeOK, Flags, [Next]_vars
    PROVE  Flags'
<1>1. CASE UNCHANGED <<queueVars, userPaused>>
  BY <1>1 DEF Flags, queueVars
<1>2. ASSUME NEW c \in conns, NEW isEvent \in BOOLEAN, OnMessage(c, isEvent) PROVE Flags'
  <2>1. c.at + 1 \in 1..MaxRecords /\ userPaused' = userPaused
    <3>1. c.at \in 0..MaxRecords /\ head \in 0..MaxRecords /\ c.at < head
      BY <1>2 DEF OnMessage, TypeOK, Conns
    <3>2. userPaused' = userPaused
      BY <1>2 DEF OnMessage
    <3> QED BY <3>1, <3>2, EngineAssumption
  <2>2. CASE UNCHANGED queueVars
    BY <1>1, <2>1, <2>2
  <2>3. CASE EnqueueEvent(c.at + 1) /\ Ingests
    <3>1. CASE handling = 0
      <4>1. Routes(Offered(c.at + 1), paused', IF watching THEN owed \cup {c.at + 1} ELSE owed)
        BY <2>3, <3>1 DEF EnqueueEvent
      <4>2. handling' = c.at + 1
        BY <2>1, <3>1, <4>1, IdleOffer DEF Routes
      <4>3. handling' # 0
        BY <2>1, <4>2
      <4>4. UNCHANGED <<inBackpressure, wePaused, paused>>
        BY <2>1, <2>3, <3>1, IdleOffer DEF EnqueueEvent, TypeOK
      <4> QED BY <2>1, <4>3, <4>4 DEF Flags
    <3>2. CASE handling # 0
      <4>1. handling' = handling
        BY <2>3, <3>2 DEF EnqueueEvent
      <4>2. wePaused' => inBackpressure'
        BY <2>3, Zenon DEF EnqueueEvent, Flags
      <4>3. ~wePaused' => ~wePaused /\ paused' = paused
        BY <2>3, Zenon DEF EnqueueEvent
      <4> QED BY <2>1, <3>2, <4>1, <4>2, <4>3 DEF Flags
    <3> QED BY <3>1, <3>2
  <2> QED BY <1>2, <2>2, <2>3 DEF OnMessage, EnqueueEvent
<1>3. CASE HandlerReturns
  <2> DEFINE relieved == inBackpressure /\ Len(eventQueue) <= Low
             P == IF relieved /\ wePaused THEN Resumes ELSE paused
  <2>1. /\ inBackpressure' = (inBackpressure /\ ~relieved)
        /\ wePaused' = (wePaused /\ ~relieved)
        /\ paused' = P
        /\ Routes(eventQueue, P, owed)
        /\ userPaused' = userPaused
    BY <1>3, Zenon DEF HandlerReturns
  <2>2. wePaused' => inBackpressure'
    BY <2>1, Zenon DEF Flags
  <2>3. ~wePaused' => paused' \subseteq userPaused'
    BY <2>1, Zenon DEF Flags, Resumes
  <2>4. handling' = 0 => eventQueue = <<>> /\ eventQueue' = <<>>
    BY <2>1, RoutesType DEF TypeOK
  <2>5. eventQueue = <<>> => Len(eventQueue) <= Low
    BY Marks
  <2>6. handling' = 0 => ~inBackpressure'
    BY <2>1, <2>4, <2>5, Zenon
  <2> QED BY <2>2, <2>3, <2>4, <2>6, Zenon DEF Flags
<1>4. ASSUME NEW s \in UserSources, PauseSource(s) \/ ResumeSource(s) PROVE Flags'
  <2>1. UNCHANGED <<wePaused, inBackpressure, handling, eventQueue>>
    BY <1>4 DEF PauseSource, ResumeSource
  <2>2. paused \subseteq userPaused => paused' \subseteq userPaused'
    BY <1>4 DEF PauseSource, ResumeSource
  <2> QED BY <2>1, <2>2 DEF Flags
<1>5. CASE Stop
  BY <1>5 DEF Stop, Flags
<1>6. CASE Crash
  BY <1>6 DEF Crash, Flags
<1>7. CASE \/ LedgerCloses \/ Start \/ Subscribe \/ Unsubscribe \/ ReconnectTimerFires
           \/ \E e \in resolving, ok \in BOOLEAN : CursorRead(e, ok)
           \/ \E c \in conns : OnError(c)
           \/ \E p \in writes : WriteLands(p) \/ WriteFails(p)
           \/ UNCHANGED vars
  <2>1. UNCHANGED <<queueVars, userPaused>>
    BY <1>7 DEF LedgerCloses, Start, Subscribe, Unsubscribe, ReconnectTimerFires, CursorRead,
                OnError, WriteLands, WriteFails, vars
  <2> QED BY <1>1, <2>1
<1> QED BY <1>2, <1>3, <1>4, <1>5, <1>6, <1>7 DEF Next

-----------------------------------------------------------------------------
(* The elements of a queue.                                                  *)
Elems(q) == {q[i] : i \in DOMAIN q}

(* Appending keeps every element of a queue and adds the new one.            *)
LEMMA AppendKeeps ==
    ASSUME NEW S, NEW q \in Seq(S), NEW p \in S,
           NEW O, O \subseteq Elems(q)
    PROVE  O \cup {p} \subseteq Elems(Append(q, p))
<1>1. /\ Append(q, p) \in Seq(S) /\ Len(Append(q, p)) = Len(q) + 1
      /\ \A i \in 1..Len(q) : Append(q, p)[i] = q[i]
      /\ Append(q, p)[Len(q) + 1] = p
  BY AppendProperties
<1>2. DOMAIN q = 1..Len(q) /\ DOMAIN Append(q, p) = 1..(Len(q) + 1) /\ Len(q) \in Nat
  BY <1>1, LenProperties
<1>3. DOMAIN q \subseteq DOMAIN Append(q, p) /\ Len(q) + 1 \in DOMAIN Append(q, p)
  BY <1>2
<1>4. \A i \in DOMAIN q : Append(q, p)[i] = q[i]
  BY <1>1, <1>2, Zenon
<1>5. Elems(q) \subseteq Elems(Append(q, p))
  BY <1>3, <1>4, Zenon DEF Elems
<1>6. p \in Elems(Append(q, p))
  BY <1>1, <1>3, Zenon DEF Elems
<1> QED BY <1>5, <1>6, Zenon

(* Taking the head of a queue keeps every other element.                     *)
LEMMA TailKeeps ==
    ASSUME NEW S, NEW q \in Seq(S), q # <<>>
    PROVE  /\ Tail(q) \in Seq(S) /\ Len(Tail(q)) = Len(q) - 1
           /\ {q[i] : i \in DOMAIN q} \ {Head(q)} \subseteq {Tail(q)[i] : i \in DOMAIN Tail(q)}
<1>1. /\ Tail(q) \in Seq(S) /\ Len(Tail(q)) = Len(q) - 1 /\ Head(q) = q[1]
      /\ \A i \in 1..Len(Tail(q)) : Tail(q)[i] = q[i + 1]
  BY HeadTailProperties
<1>2. DOMAIN q = 1..Len(q) /\ DOMAIN Tail(q) = 1..(Len(q) - 1) /\ Len(q) \in Nat
  BY <1>1, LenProperties
<1>3. ASSUME NEW i \in DOMAIN q, q[i] # Head(q)
      PROVE  \E j \in DOMAIN Tail(q) : Tail(q)[j] = q[i]
  <2>1. i - 1 \in DOMAIN Tail(q) /\ (i - 1) + 1 = i
    BY <1>1, <1>2, <1>3
  <2> QED BY <1>1, <1>2, <2>1
<1> QED BY <1>1, <1>3

(* enqueueEvent on an idle queue routes the record at once.                  *)
LEMMA EnqueueIdle ==
    ASSUME TypeOK, Flags, NEW p \in 1..MaxRecords, EnqueueEvent(p), Ingests, handling = 0
    PROVE  /\ eventQueue' = <<>>
           /\ UNCHANGED <<inBackpressure, wePaused, paused, congested>>
           /\ owed' = IF watching THEN (owed \cup {p}) \ {p} ELSE owed
<1> DEFINE O == IF watching THEN owed \cup {p} ELSE owed
<1>1. Routes(Offered(p), paused', O)
  BY DEF EnqueueEvent
<1>2. UNCHANGED <<inBackpressure, wePaused, paused, congested>>
  BY IdleOffer DEF EnqueueEvent, TypeOK
<1>3. p # 0 /\ "horizon" \notin paused'
  BY <1>2 DEF Ingests
<1>4. eventQueue' = <<>>
  BY <1>1, IdleOffer DEF Routes
<1>5. owed' = IF watching THEN O \ {p} ELSE O
  BY <1>1, <1>3, IdleOffer, Zenon DEF Routes
<1> QED BY <1>2, <1>4, <1>5, Zenon

(* enqueueEvent while the queue is being drained only offers the record.     *)
LEMMA EnqueueBusy ==
    ASSUME NEW p, EnqueueEvent(p), Ingests, handling # 0
    PROVE  /\ inBackpressure' = (inBackpressure \/ AtMark)
           /\ paused' = IF AtMark /\ policy = "pause" /\ ~inBackpressure THEN Sources ELSE paused
           /\ congested' = (congested \/ AtMark)
           /\ eventQueue' = Offered(p)
           /\ owed' = IF watching THEN owed \cup {p} ELSE owed
BY Zenon DEF EnqueueEvent

(* What routing the next event does.                                         *)
LEMMA RoutesNext ==
    ASSUME TypeOK, HandlerReturns
    PROVE  /\ paused' \in {{}, paused}
           /\ ~(inBackpressure /\ Len(eventQueue) <= Low)
                => paused' = paused /\ (inBackpressure' <=> inBackpressure)
           /\ inBackpressure /\ Len(eventQueue) <= Low => ~inBackpressure'
           /\ Len(eventQueue') \in Nat
           /\ Len(eventQueue') = IF eventQueue = <<>> THEN 0 ELSE Len(eventQueue) - 1
           /\ eventQueue = <<>> => owed' = owed
           /\ eventQueue # <<>> /\ watching /\ "horizon" \notin paused' =>
                 owed' = owed \ {Head(eventQueue)}
           /\ owed' \subseteq owed
           /\ eventQueue' = IF eventQueue = <<>> THEN <<>> ELSE Tail(eventQueue)
<1> DEFINE relieved == inBackpressure /\ Len(eventQueue) <= Low
           P == IF relieved /\ wePaused THEN Resumes ELSE paused
<1>1. /\ inBackpressure' = (inBackpressure /\ ~relieved)
      /\ paused' = P
      /\ Routes(eventQueue, P, owed)
  BY Zenon DEF HandlerReturns
<1>2. eventQueue' = IF eventQueue = <<>> THEN <<>> ELSE Tail(eventQueue)
  BY <1>1, Zenon DEF Routes
<1>3. eventQueue \in Seq(1..MaxRecords)
  BY DEF TypeOK
<1>4. Len(eventQueue') \in Nat
      /\ Len(eventQueue') = IF eventQueue = <<>> THEN 0 ELSE Len(eventQueue) - 1
  BY <1>2, <1>3, HeadTailProperties, LenProperties, EmptySeq
<1>5. eventQueue # <<>> => Head(eventQueue) # 0
  <2>1. eventQueue # <<>> => Head(eventQueue) \in 1..MaxRecords
    BY <1>3, HeadTailProperties
  <2> QED BY <2>1
<1>6. eventQueue = <<>> => owed' = owed
  BY <1>1, Zenon DEF Routes
<1>7. eventQueue # <<>> /\ watching /\ "horizon" \notin P => owed' = owed \ {Head(eventQueue)}
  BY <1>1, <1>5, Zenon DEF Routes
<1>8. owed' \subseteq owed
  BY <1>1, Zenon DEF Routes
<1>9. paused' \in {{}, paused}
  BY <1>1, Zenon DEF Resumes
<1>10. ~relieved => paused' = paused /\ (inBackpressure' <=> inBackpressure)
  BY <1>1, Zenon
<1>11. relieved => ~inBackpressure'
  BY <1>1, Zenon
<1>12. paused' = P
  BY <1>1
<1> HIDE DEF P
<1> QED BY <1>2, <1>4, <1>6, <1>7, <1>8, <1>9, <1>10, <1>11, <1>12, Zenon

(* Held is preserved: the queue is offered a record above the mark once per  *)
(* episode, and a record leaves the queue before the next handler runs.      *)
LEMMA HeldStep ==
    ASSUME TypeOK, Flags, Held, [Next]_vars
    PROVE  Held'
<1> USE Marks
<1>1. policy' = policy /\ eventQueue \in Seq(1..MaxRecords) /\ Len(eventQueue) \in Nat
  <2>1. policy' = policy
    BY DEF Next, LedgerCloses, Start, Stop, Subscribe, Unsubscribe, PauseSource, ResumeSource,
           CursorRead, OnError, OnMessage, ReconnectTimerFires, HandlerReturns, WriteLands,
           WriteFails, Crash, vars, config
  <2>2. eventQueue \in Seq(1..MaxRecords)
    BY DEF TypeOK
  <2> QED BY <2>1, <2>2, LenProperties
<1>2. CASE UNCHANGED <<queueVars, overrode>>
  BY <1>1, <1>2 DEF Held, queueVars
<1>3. ASSUME NEW c \in conns, NEW isEvent \in BOOLEAN, OnMessage(c, isEvent) PROVE Held'
  <2>1. c.at + 1 \in 1..MaxRecords /\ overrode' = overrode
    <3>1. c.at \in 0..MaxRecords /\ head \in 0..MaxRecords /\ c.at < head
      BY <1>3 DEF OnMessage, TypeOK, Conns
    <3>2. overrode' = overrode
      BY <1>3 DEF OnMessage
    <3> QED BY <3>1, <3>2, EngineAssumption
  <2>2. CASE UNCHANGED queueVars
    BY <1>2, <2>1, <2>2
  <2>3. CASE EnqueueEvent(c.at + 1) /\ Ingests /\ handling = 0
    <3>1. eventQueue' = <<>> /\ Len(eventQueue') = 0 /\ inBackpressure' = inBackpressure
      BY <2>1, <2>3, EnqueueIdle
    <3>2. ~inBackpressure'
      BY <2>3, <3>1 DEF Flags
    <3> QED BY <1>1, <3>1, <3>2 DEF Held
  <2>4. CASE EnqueueEvent(c.at + 1) /\ Ingests /\ handling # 0
    <3> DEFINE p == c.at + 1
    <3>1. /\ inBackpressure' = (inBackpressure \/ AtMark)
          /\ paused' = IF AtMark /\ policy = "pause" /\ ~inBackpressure THEN Sources ELSE paused
          /\ eventQueue' = Offered(p)
      BY <2>4, EnqueueBusy, Zenon
    <3>2. Append(eventQueue, p) \in Seq(1..MaxRecords) /\ Len(Append(eventQueue, p)) = Len(eventQueue) + 1
      BY <1>1, <2>1, AppendProperties
    <3>3. CASE overrode
      BY <2>1, <3>3 DEF Held
    <3>4. CASE ~overrode /\ policy = "pause"
      <4>1. ~inBackpressure /\ Len(eventQueue) <= High
        BY <2>4, <3>4 DEF Held, Ingests
      <4>2. Len(eventQueue') = Len(eventQueue) + 1
        BY <3>1, <3>2, <3>4 DEF Offered, Pushed
      <4>3. CASE AtMark
        <5>1. inBackpressure' /\ "horizon" \in paused'
          BY <3>1, <3>4, <4>1, <4>3, Zenon DEF Sources
        <5> QED BY <1>1, <3>4, <4>1, <4>2, <5>1 DEF Held
      <4>4. CASE ~AtMark
        <5>1. ~inBackpressure'
          BY <3>1, <4>1, <4>4, Zenon
        <5>2. Len(eventQueue') <= High
          BY <1>1, <4>2, <4>4 DEF AtMark
        <5> QED BY <1>1, <3>4, <5>1, <5>2 DEF Held
      <4> QED BY <4>3, <4>4
    <3>5. CASE ~overrode /\ policy # "pause"
      <4>1. Len(eventQueue) <= High
        BY <3>5 DEF Held
      <4>2. Len(eventQueue') <= High
        <5>1. CASE ~AtMark
          BY <1>1, <3>1, <3>2, <5>1 DEF AtMark, Offered, Pushed
        <5>2. CASE AtMark /\ policy = "drop-oldest"
          <6>1. eventQueue # <<>>
            BY <1>1, <5>2, EmptySeq DEF AtMark
          <6>2. Tail(eventQueue) \in Seq(1..MaxRecords) /\ Len(Tail(eventQueue)) = Len(eventQueue) - 1
            BY <1>1, <6>1, HeadTailProperties
          <6>3. Len(Append(Tail(eventQueue), p)) = Len(eventQueue)
            BY <1>1, <2>1, <6>2, AppendProperties
          <6> QED BY <3>1, <4>1, <5>2, <6>3 DEF Offered, Pushed
        <5>3. CASE AtMark /\ policy # "drop-oldest"
          BY <3>1, <3>5, <4>1, <5>3 DEF Offered
        <5> QED BY <5>1, <5>2, <5>3
      <4> QED BY <1>1, <3>5, <4>2 DEF Held
    <3> QED BY <3>3, <3>4, <3>5
  <2> QED BY <1>3, <2>2, <2>3, <2>4 DEF OnMessage, EnqueueEvent
<1>4. CASE HandlerReturns
  <2>1. overrode' = overrode
    BY <1>4 DEF HandlerReturns
  <2>2. Len(eventQueue') \in Nat /\ (Len(eventQueue') < Len(eventQueue) \/ Len(eventQueue') = 0)
    BY <1>1, <1>4, RoutesNext
  <2>3. \/ paused' = paused /\ (inBackpressure' <=> inBackpressure)
        \/ ~inBackpressure'
    BY <1>4, RoutesNext, Zenon
  <2>4. CASE overrode
    BY <2>1, <2>4 DEF Held
  <2>5. CASE ~overrode /\ policy = "pause"
    <3>1. /\ inBackpressure => "horizon" \in paused
          /\ Len(eventQueue) <= High + 1 /\ (~inBackpressure => Len(eventQueue) <= High)
      BY <2>5 DEF Held
    <3>2. Len(eventQueue') <= High
      BY <1>1, <2>2, <3>1
    <3>3. inBackpressure' => "horizon" \in paused'
      BY <2>3, <3>1, Zenon
    <3> QED BY <1>1, <2>2, <2>5, <3>2, <3>3 DEF Held
  <2>6. CASE ~overrode /\ policy # "pause"
    BY <1>1, <2>2, <2>6 DEF Held
  <2> QED BY <2>4, <2>5, <2>6
<1>5. ASSUME NEW s \in UserSources, PauseSource(s) PROVE Held'
  BY <1>1, <1>5 DEF PauseSource, Held
<1>6. ASSUME NEW s \in UserSources, ResumeSource(s) PROVE Held'
  <2>1. UNCHANGED <<eventQueue, inBackpressure>> /\ overrode' = (overrode \/ inBackpressure)
    BY <1>6 DEF ResumeSource
  <2>2. CASE overrode \/ inBackpressure
    BY <2>1, <2>2, Zenon DEF Held
  <2>3. CASE ~overrode /\ ~inBackpressure
    BY <1>1, <2>1, <2>3 DEF Held
  <2> QED BY <2>2, <2>3
<1>7. CASE Stop
  <2>1. UNCHANGED <<eventQueue, inBackpressure>> /\ overrode' = (overrode \/ inBackpressure)
    BY <1>7 DEF Stop
  <2>2. CASE overrode \/ inBackpressure
    BY <2>1, <2>2, Zenon DEF Held
  <2>3. CASE ~overrode /\ ~inBackpressure
    BY <1>1, <2>1, <2>3 DEF Held
  <2> QED BY <2>2, <2>3
<1>8. CASE Crash
  <2>1. Len(eventQueue') = 0 /\ ~inBackpressure'
    BY <1>8 DEF Crash
  <2> QED BY <2>1 DEF Held
<1>9. CASE \/ LedgerCloses \/ Start \/ Subscribe \/ Unsubscribe \/ ReconnectTimerFires
           \/ \E e \in resolving, ok \in BOOLEAN : CursorRead(e, ok)
           \/ \E c \in conns : OnError(c)
           \/ \E p \in writes : WriteLands(p) \/ WriteFails(p)
           \/ UNCHANGED vars
  <2>1. UNCHANGED <<queueVars, overrode>>
    BY <1>9 DEF LedgerCloses, Start, Subscribe, Unsubscribe, ReconnectTimerFires, CursorRead,
                OnError, WriteLands, WriteFails, vars
  <2> QED BY <1>2, <2>1
<1> QED BY <1>3, <1>4, <1>5, <1>6, <1>7, <1>8, <1>9 DEF Next

(* Owed is preserved.                                                        *)
LEMMA OwedStep ==
    ASSUME TypeOK, Flags, Owed, [Next]_vars
    PROVE  Owed'
<1>1. eventQueue \in Seq(1..MaxRecords)
  BY DEF TypeOK
<1>2. CASE UNCHANGED <<queueVars, watching, congested, owed>>
  BY <1>2 DEF Owed, NothingMissedUncongested, queueVars
<1>3. ASSUME NEW c \in conns, NEW isEvent \in BOOLEAN, OnMessage(c, isEvent) PROVE Owed'
  <2> DEFINE p == c.at + 1
  <2>1. p \in 1..MaxRecords /\ watching' = watching
    <3>1. c.at \in 0..MaxRecords /\ head \in 0..MaxRecords /\ c.at < head
      BY <1>3 DEF OnMessage, TypeOK, Conns
    <3>2. watching' = watching
      BY <1>3 DEF OnMessage
    <3> QED BY <3>1, <3>2, EngineAssumption
  <2>2. CASE UNCHANGED <<queueVars, congested, owed>>
    BY <1>2, <2>1, <2>2
  <2>3. CASE EnqueueEvent(p) /\ ~Ingests
    <3>1. /\ owed' = IF watching THEN owed \cup {p} ELSE owed
          /\ UNCHANGED <<queueVars, congested>>
      BY <2>3, Zenon DEF EnqueueEvent
    <3>2. congested'
      BY <2>3, <3>1 DEF Ingests, Owed
    <3> QED BY <2>1, <3>1, <3>2 DEF Owed, NothingMissedUncongested
  <2>4. CASE EnqueueEvent(p) /\ Ingests /\ handling = 0
    <3>1. /\ eventQueue' = <<>> /\ eventQueue = <<>>
          /\ UNCHANGED <<inBackpressure, wePaused, paused, congested>>
          /\ owed' = IF watching THEN (owed \cup {p}) \ {p} ELSE owed
      BY <2>1, <2>4, EnqueueIdle DEF Flags
    <3>2. owed' \subseteq owed
      BY <3>1, Zenon
    <3> QED BY <2>1, <3>1, <3>2 DEF Owed, NothingMissedUncongested
  <2>5. CASE EnqueueEvent(p) /\ Ingests /\ handling # 0
    <3>1. /\ paused' = IF AtMark /\ policy = "pause" /\ ~inBackpressure THEN Sources ELSE paused
          /\ congested' = (congested \/ AtMark)
          /\ eventQueue' = Offered(p)
          /\ owed' = IF watching THEN owed \cup {p} ELSE owed
      BY <2>5, EnqueueBusy, Zenon
    <3>2. ~watching' => owed' = {}
      BY <2>1, <3>1, Zenon DEF Owed
    <3>3. CASE congested \/ AtMark
      <4>1. congested'
        BY <3>1, <3>3, Zenon
      <4> QED BY <3>2, <4>1 DEF Owed, NothingMissedUncongested
    <3>4. CASE ~congested /\ ~AtMark
      <4>1. paused' = paused /\ eventQueue' = Append(eventQueue, p)
        BY <3>1, <3>4, Zenon DEF Offered, Pushed
      <4>2. owed \cup {p} \subseteq {eventQueue'[i] : i \in DOMAIN eventQueue'}
        <5>1. p \in 1..MaxRecords
          BY <2>1
        <5>2. owed \subseteq Elems(eventQueue)
          BY <3>4, Zenon DEF Owed, NothingMissedUncongested, Elems
        <5> HIDE DEF p
        <5>3. owed \cup {p} \subseteq Elems(Append(eventQueue, p))
          BY <1>1, <5>1, <5>2, AppendKeeps, Zenon
        <5> QED BY <4>1, <5>3, Zenon DEF Elems
      <4>3. owed' \subseteq owed \cup {p}
        BY <3>1, Zenon
      <4>4. owed' \subseteq {eventQueue'[i] : i \in DOMAIN eventQueue'}
        BY <4>2, <4>3, Zenon
      <4> QED BY <3>2, <3>4, <4>1, <4>4, Zenon DEF Owed, NothingMissedUncongested
    <3> QED BY <3>3, <3>4
  <2> HIDE DEF p
  <2> QED BY <1>3, <2>2, <2>3, <2>4, <2>5 DEF OnMessage, p
<1>4. CASE HandlerReturns
  <2>1. watching' = watching /\ congested' = congested
    BY <1>4 DEF HandlerReturns
  <2>2. /\ owed' \subseteq owed
        /\ paused' \in {{}, paused}
        /\ eventQueue' = IF eventQueue = <<>> THEN <<>> ELSE Tail(eventQueue)
        /\ eventQueue = <<>> => owed' = owed
        /\ eventQueue # <<>> /\ watching /\ "horizon" \notin paused' =>
               owed' = owed \ {Head(eventQueue)}
    BY <1>4, RoutesNext, Zenon
  <2>3. ~watching' => owed' = {}
    BY <2>1, <2>2 DEF Owed
  <2>4. ~congested' => "horizon" \notin paused'
    BY <2>1, <2>2 DEF Owed
  <2>5. ASSUME ~congested' PROVE owed' \subseteq {eventQueue'[i] : i \in DOMAIN eventQueue'}
    <3>1. owed \subseteq {eventQueue[i] : i \in DOMAIN eventQueue} /\ "horizon" \notin paused'
      BY <2>1, <2>4, <2>5 DEF Owed, NothingMissedUncongested
    <3>2. CASE eventQueue = <<>>
      BY <2>2, <3>1, <3>2, Zenon
    <3>3. CASE eventQueue # <<>> /\ watching
      <4>1. owed' = owed \ {Head(eventQueue)} /\ eventQueue' = Tail(eventQueue)
        BY <2>2, <3>1, <3>3, Zenon
      <4>2. {eventQueue[i] : i \in DOMAIN eventQueue} \ {Head(eventQueue)}
              \subseteq {Tail(eventQueue)[i] : i \in DOMAIN Tail(eventQueue)}
        BY <1>1, <3>3, TailKeeps, Zenon
      <4> QED BY <3>1, <4>1, <4>2, Zenon
    <3>4. CASE ~watching
      BY <2>1, <2>3, <3>4, Zenon
    <3> QED BY <3>2, <3>3, <3>4
  <2> QED BY <2>3, <2>4, <2>5, Zenon DEF Owed, NothingMissedUncongested
<1>5. ASSUME NEW s \in UserSources, PauseSource(s) PROVE Owed'
  <2>1. /\ paused' = paused \cup {s} /\ congested' = (congested \/ s = "horizon")
        /\ UNCHANGED <<eventQueue, watching, owed>>
    BY <1>5 DEF PauseSource
  <2>2. ~congested' => ~congested /\ "horizon" \notin paused'
    BY <2>1, Zenon DEF Owed
  <2> QED BY <2>1, <2>2 DEF Owed, NothingMissedUncongested
<1>6. ASSUME NEW s \in UserSources, ResumeSource(s) PROVE Owed'
  BY <1>6 DEF ResumeSource, Owed, NothingMissedUncongested
<1>7. CASE Stop \/ Unsubscribe \/ Crash
  <2>1. owed' = {} /\ (~congested' => "horizon" \notin paused')
    BY <1>7 DEF Stop, Unsubscribe, Crash, Owed, queueVars
  <2> QED BY <2>1 DEF Owed, NothingMissedUncongested
<1>8. CASE Subscribe
  BY <1>8 DEF Subscribe, Owed, NothingMissedUncongested, queueVars
<1>9. CASE \/ LedgerCloses \/ Start \/ ReconnectTimerFires
           \/ \E e \in resolving, ok \in BOOLEAN : CursorRead(e, ok)
           \/ \E c \in conns : OnError(c)
           \/ \E p \in writes : WriteLands(p) \/ WriteFails(p)
           \/ UNCHANGED vars
  <2>1. UNCHANGED <<queueVars, watching, congested, owed>>
    BY <1>9 DEF LedgerCloses, Start, ReconnectTimerFires, CursorRead,
                OnError, WriteLands, WriteFails, vars
  <2> QED BY <1>2, <2>1
<1> QED BY <1>3, <1>4, <1>5, <1>6, <1>7, <1>8, <1>9 DEF Next

-----------------------------------------------------------------------------
(* The inductive invariant.                                                  *)
LEMMA Induction == Spec => []IInv
<1>1. Init => IInv
  <2> SUFFICES ASSUME Init PROVE IInv
    OBVIOUS
  <2>1. TypeOK
    <3>1. <<>> \in Seq(1..MaxRecords) /\ 0 \in 0..MaxRecords /\ 0 \in 0..MaxRetries
          /\ -1 \in -1..MaxRecords /\ 0 \in 0..MaxStarts /\ 0 \in 0..MaxFaults
      BY EngineAssumption
    <3>2. /\ isRunning \in BOOLEAN /\ reconnectTimer \in BOOLEAN /\ unhealthy \in BOOLEAN
          /\ handlerRuns \in BOOLEAN /\ inBackpressure \in BOOLEAN /\ wePaused \in BOOLEAN
          /\ watching \in BOOLEAN /\ blind \in BOOLEAN /\ overrode \in BOOLEAN
          /\ congested \in BOOLEAN
      BY Zenon DEF Init
    <3>3. /\ streamEpoch \in Nat /\ stopStream \in 0..streamEpoch /\ failures \in Nat
          /\ resolving \subseteq 0..streamEpoch /\ conns \subseteq Conns
      BY DEF Init
    <3> QED BY <3>1, <3>2, <3>3, Zenon DEF Init, TypeOK
  <2>2. Link /\ Prefix /\ Flags
    BY DEF Init, Link, Prefix, Flags
  <2>3. Held
    <3>1. Len(eventQueue) = 0 /\ ~inBackpressure
      BY DEF Init
    <3> QED BY <3>1, Marks DEF Held
  <2>4. Owed
    BY DEF Init, Owed, NothingMissedUncongested
  <2> QED BY <2>1, <2>2, <2>3, <2>4 DEF IInv
<1>2. IInv /\ [Next]_vars => IInv'
  BY TypeStep, LinkStep, PrefixStep, FlagsStep, HeldStep, OwedStep, Zenon DEF IInv
<1> QED BY <1>1, <1>2, PTL DEF Spec

(* The state of the engine keeps its types; reconnectAttempt never exceeds   *)
(* maxRetries (handleStreamError).                                           *)
THEOREM TypeCorrect == Spec => []TypeOK
<1>1. IInv => TypeOK
  BY DEF IInv
<1> QED BY <1>1, Induction, PTL

(* At most one upstream connection is ever open, and it is the one that      *)
(* this.stopStream closes (openStream, closeStream).                         *)
THEOREM SingleConnection == Spec => []OneConnection
<1>1. IInv => OneConnection
  <2> SUFFICES ASSUME IInv PROVE OneConnection
    OBVIOUS
  <2>1. Cardinality(conns) <= 1
    <3>1. CASE conns = {}
      BY <3>1, FS_EmptySet
    <3>2. CASE conns # {}
      <4>1. PICK c \in conns : TRUE
        BY <3>2
      <4>2. conns = {c}
        BY <4>1 DEF IInv, Link
      <4> QED BY <4>2, FS_Singleton
    <3> QED BY <3>1, <3>2
  <2> QED BY <2>1 DEF IInv, Link, OneConnection
<1> QED BY <1>1, Induction, PTL

(* A stream resumed from a stored cursor skips no record, through            *)
(* reconnects, restarts, failed and reordered cursor writes                  *)
(* (resolveStreamCursor, persistHorizonCursor).                              *)
THEOREM ResumptionSkipsNothing == Spec => []NoGap
<1>1. IInv => NoGap
  BY DEF IInv, Prefix, NoGap
<1> QED BY <1>1, Induction, PTL

(* One stream at a time and no gap between them (start, stop, openStream,    *)
(* handleStreamError).                                                       *)
THEOREM StreamIsSound == Spec => []ConnectionSound
<1>1. OneConnection /\ NoGap => ConnectionSound
  BY DEF ConnectionSound
<1> QED BY <1>1, SingleConnection, ResumptionSkipsNothing, PTL

(* A drained queue leaves no backpressure and no pause of the engine's own   *)
(* behind (processQueue).                                                    *)
THEOREM BackpressureEnds == Spec => []BackpressureReleased
<1>1. IInv => BackpressureReleased
  BY Zenon DEF IInv, Flags, BackpressureReleased
<1> QED BY <1>1, Induction, PTL

(* The queue stays within the high-water mark, and one event more under      *)
(* "pause", unless the user lifts the pause (enqueueEvent).                  *)
THEOREM QueueStaysBounded == Spec => []QueueBounded
<1>1. IInv => QueueBounded
  <2> SUFFICES ASSUME IInv PROVE QueueBounded
    OBVIOUS
  <2>1. Len(eventQueue) \in Nat
    BY LenProperties DEF IInv, TypeOK
  <2> QED BY <2>1, Marks DEF IInv, Held, QueueBounded
<1> QED BY <1>1, Induction, PTL

(* Backpressure holds the queue and lets go of the sources.                  *)
THEOREM BackpressureIsSound == Spec => []BackpressureSound
<1>1. BackpressureReleased /\ QueueBounded => BackpressureSound
  BY DEF BackpressureSound
<1> QED BY <1>1, BackpressureEnds, QueueStaysBounded, PTL

(* Without congestion every event received for a watcher is delivered to it  *)
(* or still queued (enqueueEvent, processQueue, route).                      *)
THEOREM UncongestedDelivery == Spec => []NothingMissedUncongested
<1>1. IInv => NothingMissedUncongested
  BY DEF IInv, Owed
<1> QED BY <1>1, Induction, PTL
=============================================================================
