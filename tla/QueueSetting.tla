---------------------------- MODULE QueueSetting ----------------------------
(***************************************************************************)
(* What the adapters of RetryQueue have in common: how they are configured  *)
(* and the clock their callers read.  The records are numbered in the order *)
(* in which they are enqueued: persistRetry gives each an id of its own.    *)
(***************************************************************************)
EXTENDS Integers, FiniteSets

CONSTANTS
    VisibilityTimeout,  \* visibilityTimeoutMs, as configured
    Delays,             \* the delays enqueue and nack are called with
    MaxRecords,         \* BOUND on the number of records enqueued
    MaxTime             \* BOUND on the clock

ASSUME QueueAssumption ==
    /\ VisibilityTimeout \in Int
    /\ Delays \subseteq Nat
    /\ MaxRecords \in Nat
    /\ MaxTime \in Nat

VARIABLE now   \* the clock that every consumer reads

Ids == 1..MaxRecords
IdsOf(S) == {x.id : x \in S}

(* Time passes.                                                              *)
ClockTicks == now < MaxTime /\ now' = now + 1
=============================================================================
