---------------------------- MODULE SqsRetryQueue ----------------------------
(***************************************************************************)
(* SqsRetryQueue (packages/pulse-webhooks/src/SqsRetryQueue.ts) over Amazon *)
(* SQS, which is modelled from what this adapter asks of it: SendMessage    *)
(* with a delay or, on a FIFO queue, a deduplication id; ReceiveMessage     *)
(* with a visibility timeout; DeleteMessage by receipt handle.              *)
(*                                                                          *)
(* nack is a send followed by a delete, and the maps of the messages in     *)
(* flight are keyed by record id and shared by the consumers of a process,  *)
(* the poller and the drains.  The process may crash between any two calls. *)
(***************************************************************************)
EXTENDS QueueSetting, Sequences

CONSTANTS
    Pollers,      \* the consumers: the async calls that dequeue and settle
    Fifo,         \* does the queue's URL end in ".fifo"?
    MaxDelay,     \* SQS_MAX_DELAY_SECONDS
    Second,       \* ticks of the clock in an SQS second
    MaxReceive,   \* maxReceiveCount, within its bounds
    MaxStored,    \* BOUND on the records enqueued
    SqsMaxTime,   \* BOUND on the clock
    MaxMessages   \* BOUND on the messages sent

ASSUME SqsAssumption ==
    /\ Fifo \in BOOLEAN
    /\ MaxDelay \in Nat
    /\ Second \in Nat \ {0}
    /\ MaxReceive \in Nat \ {0}
    /\ MaxStored \in 0..MaxRecords
    /\ SqsMaxTime \in Nat
    /\ MaxMessages \in Nat

VARIABLES
    messages,   \* the messages in SQS
    sent,       \* the number of messages sent so far
    accepted,   \* FIFO: the record ids of the deduplication window
    stored,     \* the number of records enqueued so far; their ids are 1..stored
    sqsGone,    \* history: ids acked by a consumer or deleted by evictNewest
    tracked,    \* this.inFlight and inFlightRecords: one receipt per record id
    poller      \* per consumer: the call it is in, and where in it

sqs == <<messages, sent, accepted>>
sqsVars == <<sqs, tracked, poller, now, stored, sqsGone>>

(* visibilityTimeoutS: at least one second, rounded up.                      *)
CeilSeconds(t) == Second * ((t + Second - 1) \div Second)
SqsTimeout == IF VisibilityTimeout < 1 THEN Second ELSE CeilSeconds(VisibilityTimeout)

Lowest2(x, y)  == IF x < y THEN x ELSE y
NonNegative(x) == IF x < 0 THEN 0 ELSE x

(* A message: its number, the record id and nextRetryAt of its body, and     *)
(* when it becomes visible.  A receipt handle is valid as long as the        *)
(* message was not received again: until is the visibility it was given.     *)
Messages == [mid : 1..MaxMessages, id : Ids, due : Nat, visibleAt : Nat]
Receipts == [mid : 1..MaxMessages, until : Nat, id : Ids, due : Nat]
Calls    == {"idle", "examine", "resend", "hold", "delete", "forget", "evict"}

NotPolling == [at |-> "idle", t |-> 0, todo |-> <<>>, on |-> {}]

-----------------------------------------------------------------------------
(* SendMessage.  A standard queue delays the message; a FIFO queue accepts   *)
(* the call and drops the message when the deduplication id is in its        *)
(* window, which outlasts the clock of this model.                           *)
DelayOf(t) == Lowest2(MaxDelay * Second, CeilSeconds(NonNegative(t - now)))

MutSendMessage(i, t) ==
    /\ sent < MaxMessages
    /\ sent' = sent + 1
    /\ accepted' = accepted \cup {i}
    /\ messages' = messages \cup
          IF i \in accepted THEN {}
          ELSE {[mid |-> sent + 1, id |-> i, due |-> t, visibleAt |-> now + DelayOf(t)]}
SendMessage(i, t) ==
    /\ sent < MaxMessages
    /\ IF Fifo /\ i \in accepted
       THEN UNCHANGED <<messages, sent, accepted>>
       ELSE /\ sent' = sent + 1
            /\ accepted' = accepted \cup {i}
            /\ messages' = messages \cup
                  {[mid |-> sent + 1, id |-> i, due |-> t,
                    visibleAt |-> IF Fifo THEN now ELSE now + DelayOf(t)]}

(* DeleteMessage.  With the receipt of an earlier receive SQS may or may not *)
(* delete the message.                                                       *)
DeleteMessage(r) ==
    \/ messages' = {m \in messages : m.mid # r.mid}
    \/ /\ \E m \in messages : m.mid = r.mid /\ m.visibleAt # r.until
       /\ UNCHANGED messages

(* ReceiveMessage: at most n visible messages, in any order, all hidden      *)
(* until u.                                                                  *)
Visible == {m \in messages : m.visibleAt <= now}
Batches(n) == {b \in UNION {[1..k -> Visible] : k \in 0..n} :
                 \A i, j \in DOMAIN b : b[i] = b[j] => i = j}
Hide(b, u) == {m \in messages : m \notin {b[i] : i \in DOMAIN b}}
                 \cup {[b[i] EXCEPT !.visibleAt = u] : i \in DOMAIN b}
Receipt(m, u) == [mid |-> m.mid, until |-> u, id |-> m.id, due |-> m.due]

-----------------------------------------------------------------------------
SqsInit ==
    /\ messages = {} /\ sent = 0 /\ accepted = {} /\ tracked = {}
    /\ poller = [p \in Pollers |-> NotPolling]
    /\ now = 0 /\ stored = 0 /\ sqsGone = {}

PollerGoes(p, x) == poller' = [poller EXCEPT ![p] = x]

SqsEnqueue(delay) ==
    /\ stored < MaxStored
    /\ stored' = stored + 1
    /\ SendMessage(stored + 1, now + delay)
    /\ UNCHANGED <<tracked, poller, now, sqsGone>>

(* dequeue(nowMs): receive, then look at the messages in turn.               *)
SqsReceive(p) ==
    /\ poller[p].at = "idle"
    /\ \E b \in Batches(MaxReceive) :
         /\ b # <<>>
         /\ messages' = Hide(b, now + SqsTimeout)
         /\ PollerGoes(p, [NotPolling EXCEPT
              !.at = "examine", !.t = now,
              !.todo = [i \in DOMAIN b |-> Receipt(b[i], now + SqsTimeout)]])
    /\ UNCHANGED <<sent, accepted, tracked, now, stored, sqsGone>>

(* Both maps get an entry for the message, in place of an earlier one.  The  *)
(* first message of the batch that is due is the result of dequeue, the rest *)
(* of the batch being left to its visibility timeout; one that is not due is *)
(* nacked with the remaining delay.                                          *)
MutDueAt(p, r) == TRUE
DueAt(p, r) == r.due <= poller[p].t

Examine(p) ==
    /\ poller[p].at = "examine"
    /\ LET r == Head(poller[p].todo)
       IN  /\ tracked' = {q \in tracked : q.id # r.id} \cup {r}
           /\ PollerGoes(p, [poller[p] EXCEPT
                !.on = {r},
                !.at = IF DueAt(p, r) THEN "hold" ELSE "resend",
                !.t = IF DueAt(p, r) THEN 0 ELSE @,
                !.todo = IF DueAt(p, r) THEN <<>> ELSE Tail(@)])
    /\ UNCHANGED <<sqs, now, stored, sqsGone>>

(* The receipt ack and nack find for the record p works on; none, no effect. *)
Found(p) == {q \in tracked : \E r \in poller[p].on : q.id = r.id}

Forgotten(p) ==
    /\ Found(p) = {}
    /\ PollerGoes(p, NotPolling)
    /\ UNCHANGED <<sqs, tracked>>

(* nack sends the record again, then deletes the message: called by dequeue, *)
(* with nothing awaited since the maps were set, or by the consumer.         *)
Resend(p) ==
    /\ poller[p].at = "resend"
    /\ \E r \in poller[p].on : SendMessage(r.id, now + (r.due - poller[p].t))
    /\ PollerGoes(p, [poller[p] EXCEPT !.at = "delete"])
    /\ UNCHANGED <<tracked, now, stored, sqsGone>>

SqsNack(p, delay) ==
    /\ poller[p].at = "hold"
    /\ \/ Forgotten(p)
       \/ \E r \in Found(p) :
            /\ SendMessage(r.id, now + delay)
            /\ PollerGoes(p, [poller[p] EXCEPT !.at = "delete", !.on = {r}])
            /\ UNCHANGED tracked
    /\ UNCHANGED <<now, stored, sqsGone>>

SqsAck(p) ==
    /\ poller[p].at = "hold"
    /\ sqsGone' = sqsGone \cup IdsOf(poller[p].on)
    /\ \/ Forgotten(p)
       \/ \E r \in Found(p) :
            /\ PollerGoes(p, [poller[p] EXCEPT !.at = "delete", !.on = {r}])
            /\ UNCHANGED <<sqs, tracked>>
    /\ UNCHANGED <<now, stored>>

(* The delete that ends both, and what follows it: the maps' entries of the  *)
(* record go, whoever set them, and a dequeue goes on with its batch.        *)
SettleDelete(p) ==
    /\ poller[p].at = "delete"
    /\ \E r \in poller[p].on : DeleteMessage(r)
    /\ PollerGoes(p, [poller[p] EXCEPT !.at = "forget"])
    /\ UNCHANGED <<sent, accepted, tracked, now, stored, sqsGone>>

SettleForget(p) ==
    /\ poller[p].at = "forget"
    /\ tracked' = tracked \ Found(p)
    /\ PollerGoes(p, IF poller[p].todo = <<>> THEN NotPolling
                     ELSE [poller[p] EXCEPT !.at = "examine", !.on = {}])
    /\ UNCHANGED <<sqs, now, stored, sqsGone>>

(* evictNewest: any visible message, received with no visibility timeout,    *)
(* is deleted by the next call.                                              *)
EvictReceive(p) ==
    /\ poller[p].at = "idle"
    /\ \E m \in Visible :
         /\ messages' = (messages \ {m}) \cup {[m EXCEPT !.visibleAt = now]}
         /\ PollerGoes(p, [NotPolling EXCEPT !.at = "evict", !.on = {Receipt(m, now)}])
    /\ UNCHANGED <<sent, accepted, tracked, now, stored, sqsGone>>

EvictDelete(p) ==
    /\ poller[p].at = "evict"
    /\ \E r \in poller[p].on : DeleteMessage(r) /\ sqsGone' = sqsGone \cup {r.id}
    /\ PollerGoes(p, NotPolling)
    /\ UNCHANGED <<sent, accepted, tracked, now, stored>>

(* The process dies and another starts: the maps and the calls are gone.     *)
SqsCrash ==
    /\ \E p \in Pollers : poller[p] # NotPolling
    /\ poller' = [p \in Pollers |-> NotPolling]
    /\ tracked' = {}
    /\ UNCHANGED <<sqs, now, stored, sqsGone>>

SqsTick == now < SqsMaxTime /\ ClockTicks /\ UNCHANGED <<sqs, tracked, poller, stored, sqsGone>>

SqsNext ==
    \/ \E delay \in Delays : SqsEnqueue(delay) \/ \E p \in Pollers : SqsNack(p, delay)
    \/ \E p \in Pollers :
         \/ SqsReceive(p) \/ Examine(p) \/ Resend(p)
         \/ SqsAck(p) \/ SettleDelete(p) \/ SettleForget(p)
         \/ EvictReceive(p) \/ EvictDelete(p)
    \/ SqsCrash
    \/ SqsTick

SqsSpec == SqsInit /\ [][SqsNext]_sqsVars

-----------------------------------------------------------------------------
(* A record that reached SQS stays there, in some message, until a consumer  *)
(* acked it or the load shedder took it: nack sends before it deletes, and a *)
(* process that dies in between leaves a duplicate, never a gap.             *)
SqsNothingLost == \A i \in (1..stored) \ sqsGone : \E m \in messages : m.id = i

(* "don't deliver before this timestamp": although SQS caps the delay of a   *)
(* message, no consumer is handed a record before its nextRetryAt.           *)
SqsNotBeforeDue ==
    \A p \in Pollers : poller[p].at = "hold" => \A r \in poller[p].on : r.due <= now

(* A standard queue neither loses a retry nor hands one out early,           *)
(* whichever of the calls' round trips fails, is late or is repeated.        *)
SqsKeeps == SqsNothingLost /\ SqsNotBeforeDue
=============================================================================
