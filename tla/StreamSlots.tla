----------------------------- MODULE StreamSlots -----------------------------
(***************************************************************************)
(* The demo's event streams (apps/web): acquireStream and release of        *)
(* lib/demo-limits.ts, as the route handlers use them.  The streams of one  *)
(* address are counted in a Redis key that serverless instances share; the  *)
(* key has a time to live, because an instance may die with a slot in hand. *)
(***************************************************************************)
EXTENDS Integers, FiniteSets

CONSTANTS
    Visits,      \* requests for a stream, from one address
    PerIp,       \* perIpStreams
    StreamLife,  \* streamDurationMs
    TtlMargin,   \* what the time to live adds to it
    LastMoment,  \* bound: the clock
    MaxLost      \* bound: instances that die

ASSUME SlotAssumption ==
    PerIp \in Nat \ {0} /\ StreamLife \in Nat \ {0} /\ TtlMargin \in Nat \ {0}

VARIABLES
    moment,     \* the clock
    key,        \* the counter in Redis; one that expires at 0 does not expire
    visit,      \* request -> the await it is in
    endsAt,     \* request -> when its session timer fires
    lost,       \* instances that died
    leaked,     \* history: one died between INCR and EXPIRE
    strayed     \* history: a DEL, DECR or EXPIRE met another counter or none

slotVars == <<moment, key, visit, endsAt, lost, leaked, strayed>>

NoKey == [there |-> FALSE, n |-> 0, expires |-> 0]

SlotInit ==
    /\ moment = 1 /\ key = NoKey
    /\ visit = [v \in Visits |-> "none"] /\ endsAt = [v \in Visits |-> 0]
    /\ lost = 0 /\ leaked = FALSE /\ strayed = FALSE

Awaits(v, stage) == visit' = [visit EXCEPT ![v] = stage]

(* INCR and DECR make a missing key, without a time to live.                 *)
Count(d) == key' = [key EXCEPT !.there = TRUE, !.n = @ + d]

-----------------------------------------------------------------------------
OverLimit(count) == count > PerIp

(* The slot is granted: the stream and its session timer start.              *)
OpensStream(v) == Awaits(v, "open") /\ endsAt' = [endsAt EXCEPT ![v] = moment + StreamLife]

Incr(v) ==
    LET count == key.n + 1 IN
    /\ visit[v] = "none"
    /\ Count(1)
    /\ \/ count = 1 /\ Awaits(v, "expiring") /\ UNCHANGED endsAt
       \/ count # 1 /\ OverLimit(count) /\ Awaits(v, "refusing") /\ UNCHANGED endsAt
       \/ count # 1 /\ ~OverLimit(count) /\ OpensStream(v)
    /\ UNCHANGED <<moment, lost, leaked, strayed>>

MutKeyTtl == StreamLife
KeyTtl == StreamLife + TtlMargin

Expiry(k) == IF k.there THEN moment + KeyTtl ELSE 0

(* EXPIRE after the first INCR; it does nothing to a key that is gone.       *)
ExpireKey(v) ==
    /\ visit[v] = "expiring"
    /\ key' = [key EXCEPT !.expires = Expiry(key)]
    /\ OpensStream(v)
    /\ strayed' = (strayed \/ ~key.there)
    /\ UNCHANGED <<moment, lost, leaked>>

(* The increment is undone.                                                  *)
Refuse(v) ==
    /\ visit[v] = "refusing"
    /\ Count(-1) /\ Awaits(v, "gone")
    /\ strayed' = (strayed \/ ~key.there)
    /\ UNCHANGED <<moment, endsAt, lost, leaked>>

(* close(): the visitor leaves, or the session timer fires.                  *)
CloseStream(v) ==
    /\ visit[v] = "open"
    /\ Awaits(v, "releasing")
    /\ UNCHANGED <<moment, key, endsAt, lost, leaked, strayed>>

ReleaseStream(v) ==
    /\ visit[v] = "releasing"
    /\ Count(-1)
    /\ Awaits(v, IF key.n - 1 <= 0 THEN "deleting" ELSE "gone")
    /\ strayed' = (strayed \/ ~key.there)
    /\ UNCHANGED <<moment, endsAt, lost, leaked>>

DeleteKey(v) ==
    /\ visit[v] = "deleting"
    /\ key' = NoKey /\ Awaits(v, "gone")
    /\ strayed' = (strayed \/ (key.there /\ key.n # 0))
    /\ UNCHANGED <<moment, endsAt, lost, leaked>>

Expires == key.expires # 0 /\ key.expires <= moment + 1

(* The awaits of requests that have a command to follow their last.          *)
Between == {"expiring", "refusing", "releasing", "deleting"}

(* Redis drops the key in time; a session timer is late by less than a       *)
(* moment.                                                                   *)
MomentPasses ==
    /\ moment < LastMoment
    /\ \A v \in Visits : visit[v] = "open" => moment < endsAt[v]
    /\ moment' = moment + 1
    /\ key' = IF Expires THEN NoKey ELSE key
    /\ strayed' = (strayed \/ (Expires /\ \E v \in Visits : visit[v] \in Between))
    /\ UNCHANGED <<visit, endsAt, lost, leaked>>

(* The instance dies, or one of its commands fails: release() is not called  *)
(* again, and the other requests of acquireStream end with the error.        *)
InstanceDies(v) ==
    /\ visit[v] \notin {"none", "gone", "dead"} /\ lost < MaxLost
    /\ lost' = lost + 1 /\ Awaits(v, "dead")
    /\ leaked' = (leaked \/ visit[v] = "expiring")
    /\ UNCHANGED <<moment, key, endsAt, strayed>>

SlotNext ==
    \/ \E v \in Visits : \/ Incr(v) \/ ExpireKey(v) \/ Refuse(v) \/ CloseStream(v)
                         \/ ReleaseStream(v) \/ DeleteKey(v) \/ InstanceDies(v)
    \/ MomentPasses

SlotSpec == SlotInit /\ [][SlotNext]_slotVars

-----------------------------------------------------------------------------
OpenStreams == {v \in Visits : visit[v] = "open"}

(* "One concurrent SSE stream per IP", whoever is refused, leaves or dies    *)
(* meanwhile, unless a release deleted a counter somebody had just           *)
(* incremented, or the key expired between two commands of a request.        *)
StreamsLimited == strayed \/ Cardinality(OpenStreams) <= PerIp

(* The requests that still have a decrement to make.                         *)
Counted == {v \in Visits : visit[v] \in {"expiring", "refusing", "open", "releasing"}}

(* The key has a time to live or is being given one.                         *)
WillExpire == key.expires # 0 \/ \E v \in Visits : visit[v] = "expiring"

(* "a crashed instance (release() never called) cannot leak a slot forever": *)
(* a counter above what the live requests account for will expire, unless an *)
(* instance died between its INCR and its EXPIRE.                            *)
LeaksExpire == strayed \/ leaked \/ key.n <= Cardinality(Counted) \/ WillExpire

(* The streams of an address are limited, and what a dead instance held      *)
(* comes back.                                                               *)
SlotsSound == StreamsLimited /\ LeaksExpire

(* Two claims the code does not keep, the same without their conditions.     *)
OneStreamPerIp == Cardinality(OpenStreams) <= PerIp
NoSlotLeaks == strayed \/ key.n <= Cardinality(Counted) \/ WillExpire
=============================================================================
