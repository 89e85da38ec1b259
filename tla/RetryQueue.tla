----------------------------- MODULE RetryQueue -----------------------------
(***************************************************************************)
(* The contract of a RetryQueue (packages/pulse-webhooks/src/RetryQueue.ts) *)
(* as MemoryRetryQueue, "the canonical contract reference", fixes it: a     *)
(* record that was enqueued is either queued or in flight, never both, and  *)
(* it leaves the queue only because a consumer acked it or the load         *)
(* shedder evicted it.  Time, order and retry data are the adapters'.       *)
(***************************************************************************)
CONSTANT Ids        \* record ids; an id is enqueued once

VARIABLES seen,     \* the ids enqueued so far
          queued,   \* ids waiting to be handed out
          inFlight, \* ids handed to a consumer and not settled
          gone      \* ids some consumer acked, or the load shedder was given

vars == <<seen, queued, inFlight, gone>>

(* A durable queue may hold the records of an earlier process.               *)
Init ==
    /\ seen = queued \cup inFlight
    /\ queued \cap inFlight = {}
    /\ gone = {}

Enqueue(i) ==
    /\ i \notin seen
    /\ seen' = seen \cup {i}
    /\ queued' = queued \cup {i}
    /\ UNCHANGED <<inFlight, gone>>

(* One dequeue: the claims in R have outlived the visibility timeout and go *)
(* back to the queue, then the ids in C (none, or one) are handed out.      *)
Dequeue(R, C) ==
    /\ R \subseteq inFlight
    /\ C \subseteq queued \cup R
    /\ \A i, j \in C : i = j
    /\ queued' = (queued \cup R) \ C
    /\ inFlight' = (inFlight \ R) \cup C
    /\ UNCHANGED <<seen, gone>>

(* A consumer acks a record it was handed.  Its claim may have expired and  *)
(* the record be queued again: Memory and Redis then leave it queued,       *)
(* Postgres deletes the row all the same.                                   *)
Ack(i) ==
    /\ i \in seen
    /\ inFlight' = inFlight \ {i}
    /\ queued' \in {queued, queued \ {i}}
    /\ gone' = gone \cup {i}
    /\ UNCHANGED seen

Nack(i) ==
    /\ i \in inFlight
    /\ inFlight' = inFlight \ {i}
    /\ queued' = queued \cup {i}
    /\ UNCHANGED <<seen, gone>>

EvictNewest(i) ==
    /\ i \in queued
    /\ queued' = queued \ {i}
    /\ gone' = gone \cup {i}
    /\ UNCHANGED <<seen, inFlight>>

Next ==
    \/ \E i \in Ids : Enqueue(i) \/ Ack(i) \/ Nack(i) \/ EvictNewest(i)
    \/ \E R \in SUBSET inFlight : \E C \in SUBSET (queued \cup R) : Dequeue(R, C)

Spec == Init /\ [][Next]_vars
=============================================================================
