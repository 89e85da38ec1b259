-------------------------- MODULE MemoryRetryQueue --------------------------
(***************************************************************************)
(* MemoryRetryQueue (packages/pulse-webhooks/src/MemoryRetryQueue.ts), the  *)
(* reference implementation of RetryQueue: two maps keyed by record id,     *)
(* records ordered by nextRetryAt with ties by insertion, and a visibility  *)
(* timeout after which a claimed record is handed out again.                *)
(*                                                                          *)
(* The operations act on <<queued, inFlight, seq>> and take the time and    *)
(* the record as arguments, so that DurableDelivery can call them.  The     *)
(* specification of this module puts an arbitrary set of consumers around   *)
(* them: each dequeues, then acks, nacks or forgets the record it holds,    *)
(* even when its claim has expired in the meantime.                         *)
(***************************************************************************)
EXTENDS QueueSetting

CONSTANTS
    Records,            \* what a record carries apart from its id and schedule
    Consumers,          \* the callers of dequeue
    MaxSeq              \* BOUND on seq

ASSUME MemoryAssumption == MaxSeq \in Nat

VARIABLES
    queued,    \* this.queued: the entries waiting, as a set of records
    inFlight,  \* this.inFlight: the entries handed out
    seq,       \* this.seq
    enqueued,  \* the number of records enqueued so far; their ids are 1..enqueued
    gone,      \* history: ids acked by a consumer or returned by evictNewest
    held       \* per consumer, the claim it is working on, or NoClaim

queueVars == <<queued, inFlight, seq>>
memoryVars == <<queueVars, now, enqueued, gone, held>>

(* The constructor's Math.max(1, ...).                                       *)
MemoryTimeout == IF VisibilityTimeout < 1 THEN 1 ELSE VisibilityTimeout

Queued  == [id : Ids, data : Records, due : Nat, seq : Nat]
Claims  == [id : Ids, data : Records, due : Nat, expiresAt : Nat]
NoClaim == [id |-> 0]

(* The order of dequeue: nextRetryAt, ties in insertion order.               *)
Earlier(x, y) == x.due < y.due \/ (x.due = y.due /\ x.seq < y.seq)

-----------------------------------------------------------------------------
(* this.queued.set(id, ...): a later record under the same id replaces it.   *)
PutQueued(Q, x) == {y \in Q : y.id # x.id} \cup {x}

EnqueueOp(i, d, t) ==
    /\ queued' = PutQueued(queued, [id |-> i, data |-> d, due |-> t, seq |-> seq])
    /\ seq' = seq + 1
    /\ UNCHANGED inFlight

(* reclaimExpiredInFlight: every expired claim is queued again, due at once. *)
(* The iteration gives them consecutive seq numbers, in some order.          *)
Expired(t) == {x \in inFlight : x.expiresAt <= t}

Ranks(S) == {r \in [S -> 0..(Cardinality(S) - 1)] : \A i, j \in S : r[i] = r[j] => i = j}

Requeued(x, t, n) == [id |-> x.id, data |-> x.data, due |-> t, seq |-> n]

MutAfterReclaim(t) == {queued}
AfterReclaim(t) ==
    {{y \in queued : y.id \notin IdsOf(Expired(t))}
        \cup {Requeued(x, t, seq + rank[x.id]) : x \in Expired(t)} :
     rank \in Ranks(IdsOf(Expired(t)))}

(* The choice of a dequeue at time t from queue Q: the earliest due record.  *)
DueFirst(Q, t) ==
    {x \in Q : x.due <= t /\ \A y \in Q : y.due <= t => y = x \/ Earlier(x, y)}

ClaimOf(x, t) == [id |-> x.id, data |-> x.data, due |-> x.due, expiresAt |-> t + MemoryTimeout]

(* dequeue(t), the queue being Q once expired claims are reclaimed: what it  *)
(* hands out (a set of at most one claim), and what it does to the maps.     *)
HandsOut(Q, t) == {ClaimOf(x, t) : x \in DueFirst(Q, t)}

DequeueOp(Q, t) ==
    /\ queued' = Q \ DueFirst(Q, t)
    /\ inFlight' = {y \in inFlight \ Expired(t) : y.id \notin IdsOf(DueFirst(Q, t))}
                      \cup HandsOut(Q, t)
    /\ seq' = seq + Cardinality(IdsOf(Expired(t)))

AckOp(i) ==
    /\ inFlight' = {x \in inFlight : x.id # i}
    /\ UNCHANGED <<queued, seq>>

(* nack: nothing happens when the record is no longer in flight.             *)
NackOp(i, t) ==
    IF i \in IdsOf(inFlight)
    THEN \E x \in inFlight :
           /\ x.id = i
           /\ queued' = PutQueued(queued, [id |-> i, data |-> x.data, due |-> t, seq |-> seq])
           /\ inFlight' = {y \in inFlight : y.id # i}
           /\ seq' = seq + 1
    ELSE UNCHANGED queueVars

(* evictNewest takes X: the furthest-future record, ties by last insertion.  *)
Newest == {x \in queued : \A y \in queued : y = x \/ Earlier(y, x)}

EvictNewestOp ==
    /\ queued' = queued \ Newest
    /\ UNCHANGED <<inFlight, seq>>

Size == Cardinality(queued)

-----------------------------------------------------------------------------
MemoryInit ==
    /\ queued = {} /\ inFlight = {} /\ seq = 0
    /\ now = 0
    /\ enqueued = 0
    /\ gone = {}
    /\ held = [c \in Consumers |-> NoClaim]

(* A record is enqueued under a fresh id, as persistRetry does.              *)
Enqueue(d, delay) ==
    LET i == enqueued + 1
    IN  /\ i \in Ids
        /\ seq < MaxSeq
        /\ EnqueueOp(i, d, now + delay)
        /\ enqueued' = i
        /\ UNCHANGED <<now, gone, held>>

Dequeue(c) ==
    /\ held[c] = NoClaim
    /\ seq < MaxSeq
    /\ \E Q \in AfterReclaim(now) :
         /\ DequeueOp(Q, now)
         /\ \/ HandsOut(Q, now) = {} /\ UNCHANGED held
            \/ \E x \in HandsOut(Q, now) : held' = [held EXCEPT ![c] = x]
    /\ UNCHANGED <<now, enqueued, gone>>

Settles(c) ==
    /\ held[c] # NoClaim
    /\ held' = [held EXCEPT ![c] = NoClaim]
    /\ UNCHANGED <<now, enqueued>>

Ack(c) ==
    /\ Settles(c)
    /\ AckOp(held[c].id)
    /\ gone' = gone \cup {held[c].id}

Nack(c, delay) ==
    /\ seq < MaxSeq
    /\ Settles(c)
    /\ NackOp(held[c].id, now + delay)
    /\ UNCHANGED gone

(* The consumer dies: it settles nothing.                                    *)
ConsumerDies(c) ==
    /\ held[c] # NoClaim
    /\ held' = [held EXCEPT ![c] = NoClaim]
    /\ UNCHANGED <<queueVars, now, enqueued, gone>>

EvictNewest ==
    /\ EvictNewestOp
    /\ gone' = gone \cup IdsOf(Newest)
    /\ UNCHANGED <<now, enqueued, held>>

MemoryTick == ClockTicks /\ UNCHANGED <<queueVars, enqueued, gone, held>>

MemoryNext ==
    \/ \E d \in Records, delay \in Delays : Enqueue(d, delay)
    \/ \E c \in Consumers :
         \/ Dequeue(c)
         \/ Ack(c)
         \/ \E delay \in Delays : Nack(c, delay)
         \/ ConsumerDies(c)
    \/ EvictNewest
    \/ MemoryTick

MemorySpec == MemoryInit /\ [][MemoryNext]_memoryVars

-----------------------------------------------------------------------------
(* Type correctness of the state.                                            *)
MemoryTypeOK ==
    /\ queued \subseteq Queued
    /\ inFlight \subseteq Claims
    /\ seq \in Nat
    /\ now \in Nat
    /\ enqueued \in 0..MaxRecords
    /\ gone \subseteq 1..enqueued
    /\ held \in [Consumers -> Claims \cup {NoClaim}]

(* MemoryRetryQueue implements the contract: whatever consumers do and       *)
(* whenever they die, a record is in exactly one map until it is acked or    *)
(* evicted.                                                                  *)
MemoryContract == INSTANCE RetryQueue WITH seen <- 1..enqueued, queued <- IdsOf(queued),
                                     inFlight <- IdsOf(inFlight)
MemoryImplementsContract == MemoryContract!Spec
=============================================================================
