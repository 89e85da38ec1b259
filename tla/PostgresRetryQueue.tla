------------------------- MODULE PostgresRetryQueue -------------------------
(***************************************************************************)
(* PostgresRetryQueue (packages/pulse-webhooks/src/PostgresRetryQueue.ts):  *)
(* one table, one SQL statement per operation.  A record in flight is a row *)
(* whose locked_until is set; nothing moves it back when the lock expires,  *)
(* the next dequeue takes it as it is.  ack and nack name the row, not the  *)
(* claim.                                                                   *)
(***************************************************************************)
EXTENDS QueueSetting

CONSTANT Sessions   \* the consumers, each on a database session of its own

VARIABLES
    rows,      \* the table: a set of records, one per id
    inserted,  \* the number of records enqueued so far; their ids are 1..inserted
    pgGone,    \* history: ids acked by a consumer or returned by evictNewest
    pgHeld     \* per consumer, the claim it is working on, or none

pgVars == <<rows, pgHeld, now, inserted, pgGone>>

PgTimeout == IF VisibilityTimeout < 1 THEN 1 ELSE VisibilityTimeout

Null == 0 - 1
Rows == [id : Ids, due : Nat, lockedUntil : Nat \cup {Null}]
PgNone == [id |-> 0]
PgClaims == [id : Ids, expiresAt : Nat]

-----------------------------------------------------------------------------
(* INSERT ... ON CONFLICT (id) DO UPDATE, unlocking the row.                 *)
Upsert(i, t) == {r \in rows : r.id # i} \cup {[id |-> i, due |-> t, lockedUntil |-> Null]}

(* The rows a dequeue may take, and those evictNewest may take.              *)
Claimable(t) == {r \in rows : r.due <= t /\ (r.lockedUntil = Null \/ r.lockedUntil <= t)}

Evictable == {r \in rows : r.lockedUntil = Null}

(* FOR UPDATE SKIP LOCKED: a row that a statement of another session is      *)
(* working on is passed over, so up to one row per other session is.         *)
Unskipped(S) == {T \in SUBSET S : Cardinality(S \ T) < Cardinality(Sessions)}

FirstDue(S) == {r \in S : \A q \in S : r.due <= q.due}
LastDue(S)  == {r \in S : \A q \in S : q.due <= r.due}

Relocked(r, u) == (rows \ {r}) \cup {[r EXCEPT !.lockedUntil = u]}

DeleteRow(i) == {r \in rows : r.id # i}

MutUnlocked(i, t) == Upsert(i, t)

(* The UPDATE of nack; no row, no effect.                                    *)
Unlocked(i, t) ==
    {r \in rows : r.id # i}
        \cup {[r EXCEPT !.due = t, !.lockedUntil = Null] : r \in {q \in rows : q.id = i}}

-----------------------------------------------------------------------------
PgInit == /\ rows = {} /\ now = 0 /\ inserted = 0 /\ pgGone = {}
          /\ pgHeld = [s \in Sessions |-> PgNone]

PgHolds(s, x) == pgHeld' = [pgHeld EXCEPT ![s] = x]

PgEnqueue(delay) ==
    /\ inserted < MaxRecords
    /\ inserted' = inserted + 1
    /\ rows' = Upsert(inserted + 1, now + delay)
    /\ UNCHANGED <<pgHeld, now, pgGone>>

PgDequeue(s) ==
    /\ pgHeld[s] = PgNone
    /\ \E S \in Unskipped(Claimable(now)) : \E r \in FirstDue(S) :
         /\ rows' = Relocked(r, now + PgTimeout)
         /\ PgHolds(s, [id |-> r.id, expiresAt |-> now + PgTimeout])
    /\ UNCHANGED <<now, inserted, pgGone>>

PgAck(s) ==
    /\ pgHeld[s] # PgNone
    /\ rows' = DeleteRow(pgHeld[s].id)
    /\ pgGone' = pgGone \cup {pgHeld[s].id}
    /\ PgHolds(s, PgNone)
    /\ UNCHANGED <<now, inserted>>

PgNack(s, delay) ==
    /\ pgHeld[s] # PgNone
    /\ rows' = Unlocked(pgHeld[s].id, now + delay)
    /\ PgHolds(s, PgNone)
    /\ UNCHANGED <<now, inserted, pgGone>>

PgConsumerDies(s) ==
    /\ pgHeld[s] # PgNone
    /\ PgHolds(s, PgNone)
    /\ UNCHANGED <<rows, now, inserted, pgGone>>

PgEvictNewest ==
    /\ \E S \in Unskipped(Evictable) : \E r \in LastDue(S) :
         /\ rows' = rows \ {r}
         /\ pgGone' = pgGone \cup {r.id}
    /\ UNCHANGED <<pgHeld, now, inserted>>

PgTick == ClockTicks /\ UNCHANGED <<rows, pgHeld, inserted, pgGone>>

PgNext ==
    \/ \E delay \in Delays : PgEnqueue(delay) \/ \E s \in Sessions : PgNack(s, delay)
    \/ \E s \in Sessions : PgDequeue(s) \/ PgAck(s) \/ PgConsumerDies(s)
    \/ PgEvictNewest
    \/ PgTick

PgSpec == PgInit /\ [][PgNext]_pgVars

-----------------------------------------------------------------------------
(* Type correctness of the state; id is the table's primary key.             *)
PgTypeOK ==
    /\ rows \subseteq Rows
    /\ \A r, q \in rows : r.id = q.id => r = q
    /\ pgHeld \in [Sessions -> PgClaims \cup {PgNone}]
    /\ now \in Nat
    /\ inserted \in 0..MaxRecords
    /\ pgGone \subseteq 1..inserted

(* PostgresRetryQueue implements the contract of RetryQueue: a locked row is *)
(* in flight, an unlocked one queued; whatever late acks and nacks do, a row *)
(* leaves only through ack, or through evictNewest while nobody ever holds   *)
(* it.                                                                       *)
PgContract == INSTANCE RetryQueue WITH
    seen <- 1..inserted,
    gone <- pgGone,
    queued <- IdsOf({r \in rows : r.lockedUntil = Null}),
    inFlight <- IdsOf({r \in rows : r.lockedUntil # Null})
PgImplementsContract == PgContract!Spec
=============================================================================
