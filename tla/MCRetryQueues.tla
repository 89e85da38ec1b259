---------------------------- MODULE MCRetryQueues ----------------------------
(* The four adapters of RetryQueue on small instances, one adapter per       *)
(* behaviour: backend is chosen at the start and the variables of the others *)
(* keep their initial values.                                                *)
EXTENDS MemoryRetryQueue, RedisRetryQueue, PostgresRetryQueue, SqsRetryQueue, TLC

CONSTANTS c1, c2, w1, w2, s1, s2, p1, p2,
          Backends   \* the adapters a run explores

TwoConsumers == {c1, c2}
TwoWorkers   == {w1, w2}
TwoSessions  == {s1, s2}
TwoPollers   == {p1, p2}
BelowOne     == -1
ShortDelays  == {0, 2}
AllBackends  == {"memory", "redis", "postgres", "sqs"}
OnlySqs      == {"sqs"}
Symmetry == Permutations(TwoConsumers) \cup Permutations(TwoWorkers)
               \cup Permutations(TwoSessions) \cup Permutations(TwoPollers)

VARIABLES
    backend,  \* the adapter of this behaviour
    late      \* history: ids a consumer settled, or dropped, after its claim expired

memoryOwn   == <<queueVars, enqueued, gone, held>>
redisOwn    == <<redisVars, added, settled, work>>
postgresOwn == <<rows, inserted, pgGone, pgHeld>>
sqsOwn      == <<sqs, stored, sqsGone, tracked, poller>>

MemoryLate == {held[c].id : c \in {d \in Consumers : /\ held[d] # NoClaim
                                                     /\ held'[d] = NoClaim
                                                     /\ now >= held[d].expiresAt}}
RedisLate == UNION {{f.member.id : f \in {g \in work[w].claim : now >= g.expiresAt}} :
                       w \in {v \in Workers : work[v].at = "holding" /\ work'[v].at # "holding"}}
PgLate == {pgHeld[s].id : s \in {q \in Sessions : /\ pgHeld[q] # PgNone
                                                  /\ pgHeld'[q] = PgNone
                                                  /\ now >= pgHeld[q].expiresAt}}

MCInit ==
    /\ late = {}
    /\ backend \in Backends
    /\ MemoryInit /\ RedisInit /\ PgInit /\ SqsInit

MCNext ==
    \/ /\ backend = "memory" /\ MemoryNext
       /\ late' = late \cup MemoryLate
       /\ UNCHANGED <<backend, redisOwn, postgresOwn, sqsOwn>>
    \/ /\ backend = "redis" /\ RedisNext
       /\ late' = late \cup RedisLate
       /\ UNCHANGED <<backend, memoryOwn, postgresOwn, sqsOwn>>
    \/ /\ backend = "postgres" /\ PgNext
       /\ late' = late \cup PgLate
       /\ UNCHANGED <<backend, memoryOwn, redisOwn, sqsOwn>>
    \/ /\ backend = "sqs" /\ SqsNext
       /\ UNCHANGED <<late, backend, memoryOwn, redisOwn, postgresOwn>>

MCSpec == MCInit /\ [][MCNext]_<<memoryOwn, redisOwn, postgresOwn, sqsOwn,
                                 now, backend, late>>

(* The visibility timeout of MemoryRetryQueue is a lease: while a consumer's *)
(* claim has not expired no other consumer is handed the record.  It holds   *)
(* for the records every consumer so far settled in time only, because ack   *)
(* and nack name the record and not the claim.                               *)
MemoryLeaseExclusive ==
    \A c, d \in Consumers :
        c # d /\ held[c] # NoClaim /\ held[d] # NoClaim /\ held[c].id = held[d].id
            => held[c].id \in late \/ now >= held[c].expiresAt \/ now >= held[d].expiresAt

(* The visibility timeout of RedisRetryQueue is a lease, for records whose   *)
(* workers call ack and nack in time: even when the claim expires between    *)
(* the two round trips of nack.                                              *)
RedisLeaseExclusive ==
    \A v, w \in Workers : \A f \in work[v].claim : \A g \in work[w].claim :
        v # w /\ f.member.id = g.member.id
            => f.member.id \in late \/ now >= f.expiresAt \/ now >= g.expiresAt

(* "no record is ever handed to two consumers at once" (PostgresRetryQueue): *)
(* while a claim has not expired nobody else holds the row, as long as no    *)
(* consumer settled it late.                                                 *)
PgLeaseExclusive ==
    \A s, q \in Sessions :
        s # q /\ pgHeld[s] # PgNone /\ pgHeld[q] # PgNone /\ pgHeld[s].id = pgHeld[q].id
            => pgHeld[s].id \in late \/ now >= pgHeld[s].expiresAt \/ now >= pgHeld[q].expiresAt

(* The claims of all three queues are leases.                                *)
LeasesExclusive == MemoryLeaseExclusive /\ RedisLeaseExclusive /\ PgLeaseExclusive
=============================================================================
