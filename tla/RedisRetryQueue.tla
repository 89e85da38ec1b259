--------------------------- MODULE RedisRetryQueue ---------------------------
(***************************************************************************)
(* RedisRetryQueue (packages/pulse-webhooks/src/RedisRetryQueue.ts): four   *)
(* Redis keys (the queued and the in-flight sorted sets, an index hash for  *)
(* each), six Lua scripts that Redis runs atomically, and workers whose     *)
(* dequeue, nack and evictNewest are several round trips: what a worker     *)
(* read may have changed when its next script runs, and it may die between. *)
(*                                                                          *)
(* A MEMBER is the JSON text of a record: its id and its nextRetryAt; the   *)
(* other fields never change.  The score of a queued member is its          *)
(* nextRetryAt, that of an in-flight member the time its claim expires.     *)
(***************************************************************************)
EXTENDS QueueSetting

CONSTANTS
    Workers,            \* processes sharing the queue
    BatchSize,          \* SCAN_BATCH_SIZE
    NumLegacy           \* records an older build left in flight, without index

ASSUME RedisAssumption ==
    /\ BatchSize \in Nat
    /\ NumLegacy \in 0..MaxRecords

VARIABLES
    zqueue,    \* KEYS[1]: the queued members
    hqueue,    \* KEYS[2]: id -> queued member, as a set of members
    zflight,   \* KEYS[3]: the in-flight members with their scores
    hflight,   \* KEYS[4]: id -> in-flight member, as a set of members
    added,     \* the number of records enqueued so far; their ids are 1..added
    settled,   \* history: ids acked by a worker or removed by EVICT
    work       \* what each worker is doing

redisVars == <<zqueue, hqueue, zflight, hflight>>
redisAll == <<redisVars, now, added, settled, work>>

RedisTimeout == IF VisibilityTimeout < 1 THEN 1 ELSE VisibilityTimeout

Members  == [id : Ids, due : Nat]
Scored   == [member : Members, expiresAt : Nat]
Member(i, t) == [id |-> i, due |-> t]
InFlightMembers == {f.member : f \in zflight}

(* A worker's place: between which round trips of which call it is, the      *)
(* nowMs of its dequeue, the members it read and has not tried yet, whether  *)
(* this pass reclaimed one, and the claim it holds.                          *)
Places == {"idle", "reclaim", "reclaiming", "scan", "claiming", "holding", "nacking", "evicting"}
Work   == [at : Places, t : Nat, todo : SUBSET Members, progressed : BOOLEAN,
           claim : SUBSET Scored]
Idle   == [at |-> "idle", t |-> 0, todo |-> {}, progressed |-> FALSE, claim |-> {}]

-----------------------------------------------------------------------------
(* The scripts.  Each is one step of Redis.                                  *)

(* HSET replaces the field of the member's id; HDEL compares first when the  *)
(* script does.                                                              *)
HSet(h, m) == {n \in h : n.id # m.id} \cup {m}
HDel(h, i) == {n \in h : n.id # i}

(* ENQUEUE, and the tail of REQUEUE and RECLAIM: replace what the index says *)
(* is queued under the id by the new member.                                 *)
PutMember(m) ==
    /\ zqueue' = (zqueue \ {n \in hqueue : n.id = m.id}) \cup {m}
    /\ hqueue' = HSet(hqueue, m)

EnqueueScript(m) == PutMember(m) /\ UNCHANGED <<zflight, hflight>>

(* CLAIM, when the member is still queued.                                   *)
MutClaimIndex(m) == hqueue
ClaimIndex(m) == hqueue \ {m}

ClaimScript(m, e) ==
    /\ zqueue' = zqueue \ {m}
    /\ hqueue' = ClaimIndex(m)
    /\ zflight' = {f \in zflight : f.member # m} \cup {[member |-> m, expiresAt |-> e]}
    /\ hflight' = HSet(hflight, m)

(* ACK: through the index; nothing when it has no entry for the id.          *)
AckScript(i) ==
    /\ zflight' = {f \in zflight : f.member \notin {n \in hflight : n.id = i}}
    /\ hflight' = HDel(hflight, i)
    /\ UNCHANGED <<zqueue, hqueue>>

(* REQUEUE: only if the in-flight member of the id is still the one the      *)
(* caller read, and it is really in the in-flight set.                       *)
MutRequeueGuard(m) == \E n \in hflight : n.id = m.id
RequeueGuard(m) == m \in hflight

RequeueScript(m, t) ==
    IF RequeueGuard(m)
    THEN /\ zflight' = {f \in zflight : f.member \notin {n \in hflight : n.id = m.id}}
         /\ hflight' = HDel(hflight, m.id)
         /\ IF \E f \in zflight : f.member \in hflight /\ f.member.id = m.id
            THEN PutMember(Member(m.id, t))
            ELSE UNCHANGED <<zqueue, hqueue>>
    ELSE UNCHANGED redisVars

(* RECLAIM, and whether it moved the member.                                 *)
Reclaims(m) == m \in InFlightMembers

MutReclaimScript(m, t) ==
    /\ zflight' = {f \in zflight : f.member # m}
    /\ hflight' = hflight \ {m}
    /\ UNCHANGED <<zqueue, hqueue>>
ReclaimScript(m, t) ==
    IF Reclaims(m)
    THEN /\ zflight' = {f \in zflight : f.member # m}
         /\ hflight' = hflight \ {m}
         /\ PutMember(Member(m.id, t))
    ELSE UNCHANGED redisVars

(* EVICT *)
EvictScript(m) ==
    /\ zqueue' = zqueue \ {m}
    /\ hqueue' = IF m \in zqueue THEN hqueue \ {m} ELSE hqueue
    /\ UNCHANGED <<zflight, hflight>>

-----------------------------------------------------------------------------
RedisInit ==
    /\ zqueue = {}
    /\ hqueue = {}
    /\ zflight = {[member |-> Member(i, 0), expiresAt |-> RedisTimeout] : i \in 1..NumLegacy}
    /\ hflight = {}
    /\ now = 0
    /\ added = NumLegacy
    /\ settled = {}
    /\ work = [w \in Workers |-> Idle]

Goes(w, x) == work' = [work EXCEPT ![w] = x]

RedisEnqueue(w, delay) ==
    /\ work[w].at = "idle"
    /\ added < MaxRecords
    /\ added' = added + 1
    /\ EnqueueScript(Member(added + 1, now + delay))
    /\ UNCHANGED <<now, settled, work>>

(* dequeue(nowMs) starts with reclaimExpiredInFlight.                        *)
DequeueCalled(w) ==
    /\ work[w].at = "idle"
    /\ Goes(w, [Idle EXCEPT !.at = "reclaim", !.t = now])
    /\ UNCHANGED <<redisVars, now, added, settled>>

(* zrangebyscore -inf nowMs LIMIT 0 n over scored members: the n lowest.     *)
Lowest(S, Score(_)) ==
    {B \in SUBSET S : /\ Cardinality(B) = BatchSize \/ (B = S /\ Cardinality(S) < BatchSize)
                      /\ \A x \in B : \A y \in S \ B : Score(x) <= Score(y)}

Due(m) == m.due
ExpiryOf(m) == (CHOOSE f \in zflight : f.member = m).expiresAt
ExpiredMembers(t) == {f.member : f \in {g \in zflight : g.expiresAt <= t}}

ReclaimRead(w) ==
    /\ work[w].at = "reclaim"
    /\ \E B \in Lowest(ExpiredMembers(work[w].t), ExpiryOf) :
         Goes(w, IF B = {} THEN [work[w] EXCEPT !.at = "scan"]
                 ELSE [work[w] EXCEPT !.at = "reclaiming", !.todo = B, !.progressed = FALSE])
    /\ UNCHANGED <<redisVars, now, added, settled>>

(* One RECLAIM of the pass.  After the last, another pass if one succeeded.  *)
ReclaimOne(w) ==
    /\ work[w].at = "reclaiming"
    /\ \E m \in work[w].todo :
         LET left == work[w].todo \ {m}
             prog == work[w].progressed \/ Reclaims(m)
         IN  /\ ReclaimScript(m, work[w].t)
             /\ Goes(w, [work[w] EXCEPT !.todo = left, !.progressed = prog,
                            !.at = IF left # {} THEN "reclaiming"
                                   ELSE IF prog THEN "reclaim" ELSE "scan"])
    /\ UNCHANGED <<now, added, settled>>

Scan(w) ==
    /\ work[w].at = "scan"
    /\ \E B \in Lowest({m \in zqueue : m.due <= work[w].t}, Due) :
         Goes(w, IF B = {} THEN Idle ELSE [work[w] EXCEPT !.at = "claiming", !.todo = B])
    /\ UNCHANGED <<redisVars, now, added, settled>>

(* The next CLAIM in score order: the record, or the next member, or null.   *)
ClaimOne(w) ==
    /\ work[w].at = "claiming"
    /\ \E m \in work[w].todo :
         LET left == work[w].todo \ {m}
             e    == work[w].t + RedisTimeout
         IN  /\ \A n \in left : m.due <= n.due
             /\ \/ /\ m \in zqueue
                   /\ ClaimScript(m, e)
                   /\ Goes(w, [Idle EXCEPT !.at = "holding",
                                  !.claim = {[member |-> m, expiresAt |-> e]}])
                \/ /\ m \notin zqueue
                   /\ Goes(w, IF left = {} THEN Idle ELSE [work[w] EXCEPT !.todo = left])
                   /\ UNCHANGED redisVars
    /\ UNCHANGED <<now, added, settled>>

RedisAck(w) ==
    /\ work[w].at = "holding"
    /\ \E f \in work[w].claim :
         /\ AckScript(f.member.id)
         /\ settled' = settled \cup {f.member.id}
    /\ Goes(w, Idle)
    /\ UNCHANGED <<now, added>>

(* nack reads the in-flight member of its record; without one it returns.    *)
NackRead(w) ==
    /\ work[w].at = "holding"
    /\ \E f \in work[w].claim :
         LET read == {n \in hflight : n.id = f.member.id}
         IN  Goes(w, IF read = {} THEN Idle ELSE [work[w] EXCEPT !.at = "nacking", !.todo = read])
    /\ UNCHANGED <<redisVars, now, added, settled>>

NackRequeue(w, delay) ==
    /\ work[w].at = "nacking"
    /\ \E m \in work[w].todo : RequeueScript(m, now + delay)
    /\ Goes(w, Idle)
    /\ UNCHANGED <<now, added, settled>>

(* evictNewest reads the member with the highest score, then runs EVICT.     *)
EvictRead(w) ==
    /\ work[w].at = "idle"
    /\ \E m \in zqueue :
         /\ \A n \in zqueue : n.due <= m.due
         /\ Goes(w, [Idle EXCEPT !.at = "evicting", !.todo = {m}])
    /\ UNCHANGED <<redisVars, now, added, settled>>

Evict(w) ==
    /\ work[w].at = "evicting"
    /\ \E m \in work[w].todo :
         /\ EvictScript(m)
         /\ settled' = IF m \in zqueue THEN settled \cup {m.id} ELSE settled
    /\ Goes(w, Idle)
    /\ UNCHANGED <<now, added>>

(* The process dies; another takes its place.                                *)
WorkerDies(w) ==
    /\ work[w] # Idle
    /\ Goes(w, Idle)
    /\ UNCHANGED <<redisVars, now, added, settled>>

RedisTick == ClockTicks /\ UNCHANGED <<redisVars, added, settled, work>>

WorkerStep(w) ==
    \/ \E delay \in Delays : RedisEnqueue(w, delay) \/ NackRequeue(w, delay)
    \/ DequeueCalled(w) \/ ReclaimRead(w) \/ ReclaimOne(w) \/ Scan(w) \/ ClaimOne(w)
    \/ RedisAck(w) \/ NackRead(w)
    \/ EvictRead(w) \/ Evict(w)
    \/ WorkerDies(w)

RedisNext == RedisTick \/ \E w \in Workers : WorkerStep(w)

RedisSpec == RedisInit /\ [][RedisNext]_redisAll

-----------------------------------------------------------------------------
(* Type correctness of the state.                                            *)
RedisTypeOK ==
    /\ zqueue \subseteq Members
    /\ hqueue \subseteq Members
    /\ zflight \subseteq Scored
    /\ hflight \subseteq Members
    /\ now \in Nat
    /\ added \in 0..MaxRecords
    /\ settled \subseteq 1..added
    /\ work \in [Workers -> Work]

(* One member per record: what the comment over the scripts promises, a      *)
(* record is never in both sets, and never twice in one.                     *)
OneMemberPerRecord ==
    /\ \A m, n \in zqueue : m.id = n.id => m = n
    /\ \A f, g \in zflight : f.member.id = g.member.id => f = g
    /\ \A m \in zqueue : \A f \in zflight : m.id # f.member.id

(* The index hashes mirror the sets, whatever the workers' stale reads do:   *)
(* exactly for the queue; for the in-flight set up to the claims an older    *)
(* build left, which ack and nack cannot see.                                *)
IndexMirrorsSets ==
    /\ hqueue = zqueue
    /\ hflight \subseteq InFlightMembers
    /\ \A m \in InFlightMembers \ hflight : m = Member(m.id, 0) /\ m.id <= NumLegacy

(* The keys agree with each other after every script: a record has one       *)
(* member in the sorted sets, and the index says which.                      *)
KeysConsistent == OneMemberPerRecord /\ IndexMirrorsSets

(* RedisRetryQueue implements the contract of RetryQueue: workers that die   *)
(* anywhere, and scripts that run on stale reads, lose or resurrect nothing. *)
RedisContract == INSTANCE RetryQueue WITH seen <- 1..added, gone <- settled,
                                     queued <- IdsOf(zqueue),
                                     inFlight <- IdsOf(InFlightMembers)
RedisImplementsContract == RedisContract!Spec
=============================================================================
