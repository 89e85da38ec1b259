----------------------- MODULE DurableDeliveryProofs -----------------------
(***************************************************************************)
(* DurableDelivery, for every number of deliveries, calls at work, retries, *)
(* crashes and records: a persisted retry is accounted for, what is given   *)
(* up is recorded, the queue stays near its cap, and a delivery has one     *)
(* attempt at a time while claims outlast the work under them.              *)
(***************************************************************************)
EXTENDS DurableDelivery, FiniteSetTheorems, WellFoundedInduction, TLAPS

(* What the queue holds, queued or handed out: the ids of its records, and   *)
(* the chain of each.                                                        *)
Holding(S) == {<<x.id, x.data.chain>> : x \in S}
Holdings == Holding(queued \cup inFlight)

(* The maps: ids were given out, an id is in each map at most once, and      *)
(* stands for one chain wherever it is; seq orders what is queued.           *)
QueueSound ==
    /\ IsFiniteSet(queued) /\ IsFiniteSet(inFlight)
    /\ \A x \in queued \cup inFlight : x.id <= enqueued
    /\ \A x, y \in queued : x.id = y.id \/ x.seq = y.seq => x = y
    /\ \A x \in queued : x.seq < seq
    /\ \A x, y \in inFlight : x.id = y.id => x = y
    /\ \A x \in queued, y \in inFlight : x.id = y.id => x.data.chain = y.data.chain

(* A task: the record it works on is one of its chain, and where in its code *)
(* a task of each kind can be.                                               *)
TaskSound(x) ==
    /\ x.id <= enqueued /\ x.nowMs <= now
    /\ \A r, q \in x.retry : r = q
    /\ \A r \in x.retry : tries[r.chain] > 0
    /\ \A r \in x.retry, h \in Holdings : h[1] = x.id => h[2] = r.chain
    /\ x.kind = "none" => x.at = "idle"
    /\ x.at \in {"size", "evict", "enqueue"} => x.kind \in {"first", "drain"}
    /\ x.at \in {"nack", "ackThenFail"} => x.kind = "poll"
    /\ x.at = "nack" => x.retry # {}
    /\ x.kind \in {"none", "first"} \/ x.at \in {"idle", "dequeue"} => x.id = 0

TasksSound == \A k \in Tasks : TaskSound(task[k])

(* Only chains that were attempted got anywhere, and a stopped watcher       *)
(* stopped its delivery.                                                     *)
TriedSound ==
    /\ \A h \in Holdings : tries[h[2]] > 0
    /\ \A c \in delivered : tries[c] > 0
    /\ watcherStopped => stopped /\ everStopped

Shape == TypeOK /\ QueueSound /\ TasksSound /\ TriedSound

(* A record nobody is about to ack.                                          *)
Settling(x) == x.at \in {"ack", "ackThenFail"}
Spared(i) == \A k \in Tasks : Settling(task[k]) => task[k].id # i

Settled == delivered \cup finished \cup shed

(* A chain that is not settled has one: whoever acks a record has delivered  *)
(* it, given it up or enqueued the next before.                              *)
SparedInv == everStopped \/ \A c \in persisted \ Settled : \E h \in Holdings : h[2] = c /\ Spared(h[1])

(* What was given up is recorded or the call that will record it is at work. *)
WillRecord(x, c) ==
    \/ x.at = "enqueue" /\ c \in x.drop
    \/ x.at = "ackThenFail" /\ \E r \in x.retry : r.chain = c
RecordInv == crashes = 0 => \A c \in finished \cup shed :
                c \in deadLettered \/ \E k \in Tasks : WillRecord(task[k], c)

(* The claims of nobody at work: those of crashed processes, unless a        *)
(* stopped watcher left some behind.                                         *)
Orphans == {x \in inFlight : \A k \in Tasks : task[k].id # x.id}
CapInv ==
    /\ watcherStopped \/ Cardinality(Orphans) <= crashes * Cardinality(Tasks)
    /\ Cardinality(inFlight) <= (crashes + 1) * Cardinality(Tasks)
    /\ QueueNearCap

(* A chain is in one place: queued once, or with one call.                   *)
Working(x) == x.at \in {"attempt", "size", "evict", "enqueue", "nack"}
Chained(x, c) == \E r \in x.retry : r.chain = c
OnePlace ==
    /\ \A j, k \in Tasks : \A c \in Chains :
          Working(task[j]) /\ Chained(task[j], c) /\ Working(task[k]) /\ Chained(task[k], c) => j = k
    /\ \A k \in Tasks : \A c \in delivered : ~(Working(task[k]) /\ Chained(task[k], c))
    /\ \A x \in queued : x.data.chain \notin delivered
    /\ \A x \in queued, k \in Tasks : ~(Working(task[k]) /\ Chained(task[k], x.data.chain))
    /\ \A x, y \in queued : x.data.chain = y.data.chain => x = y
    /\ watcherStopped \/ Orphans = {}
OnePlaceInv == expired \/ crashes > 0 \/ OnePlace

DurableInv == Shape /\ SparedInv /\ RecordInv /\ CapInv /\ OnePlaceInv

-----------------------------------------------------------------------------
(* Counting.                                                                 *)
LEMMA UnionAtMost ==
    ASSUME NEW S, NEW T, IsFiniteSet(S), IsFiniteSet(T)
    PROVE  IsFiniteSet(S \cup T) /\ Cardinality(S \cup T) <= Cardinality(S) + Cardinality(T)
<1>1. IsFiniteSet(S \cap T)
  BY FS_Intersection
<1>2. Cardinality(S) \in Nat /\ Cardinality(T) \in Nat /\ Cardinality(S \cap T) \in Nat
  BY <1>1, FS_CardinalityType
<1>3. /\ IsFiniteSet(S \cup T)
      /\ Cardinality(S \cup T) = Cardinality(S) + Cardinality(T) - Cardinality(S \cap T)
  BY FS_Union
<1> QED BY <1>2, <1>3

(* An image has no more elements than its domain.                            *)
LEMMA ImageAtMost ==
    ASSUME NEW S, NEW T, IsFiniteSet(S), NEW f \in [S -> T], \A y \in T : \E x \in S : f[x] = y
    PROVE  IsFiniteSet(T) /\ Cardinality(T) <= Cardinality(S)
<1>1. f \in Surjection(S, T)
  BY DEF Surjection
<1> QED BY <1>1, FS_Surjection

(* A set of at most one element.                                             *)
LEMMA AtMostOne ==
    ASSUME NEW S, \A x, y \in S : x = y
    PROVE  IsFiniteSet(S) /\ Cardinality(S) <= 1
<1>1. S = {} \/ \E x : S = {x}
  <2>1. CASE S # {}
    <3>1. PICK x : x \in S
      BY <2>1
    <3>2. S = {x}
      BY <3>1
    <3> QED BY <3>2
  <2> QED BY <2>1
<1>2. CASE S = {}
  BY <1>2, FS_EmptySet
<1>3. CASE \E x : S = {x}
  <2>1. PICK x : S = {x}
    BY <1>3
  <2>2. IsFiniteSet({x}) /\ Cardinality({x}) = 1
    BY FS_Singleton
  <2> QED BY <2>1, <2>2
<1> QED BY <1>1, <1>2, <1>3

-----------------------------------------------------------------------------
(* The queue counts as everybody does.                                       *)
LEMMA SameCount == \A S : Queue!Cardinality(S) = Cardinality(S)
BY DEF Queue!Cardinality, Cardinality

(* The queue's operations, on what it holds.                                 *)
MapsTyped ==
    /\ queued \subseteq Queue!Queued /\ inFlight \subseteq Queue!Claims
    /\ seq \in Nat /\ enqueued \in 0..MaxRecords

(* The fields of what is in the maps.                                        *)
LEMMA Fields ==
    ASSUME MapsTyped
    PROVE  /\ \A x \in queued \cup inFlight : x.id \in 1..MaxRecords /\ x.data \in Retry
           /\ \A x \in queued \cup inFlight : x.data.chain \in Chains
<1>1. \A x \in queued \cup inFlight : x.id \in 1..MaxRecords /\ x.data \in Retry
  BY DEF MapsTyped, Queue!Queued, Queue!Claims, Queue!Ids
<1> QED BY <1>1 DEF Retry

(* What the configured visibility timeout becomes.                           *)
LEMMA TimeoutNat == Queue!MemoryTimeout \in Nat
BY DurableAssumption DEF Queue!MemoryTimeout

(* enqueue under a fresh id.                                                 *)
LEMMA EnqueueMoves ==
    ASSUME MapsTyped, QueueSound, enqueued < MaxRecords, enqueued' = enqueued + 1,
           NEW d \in Retry, NEW t \in Nat, Queue!EnqueueOp(enqueued + 1, d, t)
    PROVE  /\ MapsTyped' /\ QueueSound' /\ inFlight' = inFlight
           /\ Holdings' = Holdings \cup {<<enqueued + 1, d.chain>>}
           /\ Cardinality(queued') <= Cardinality(queued) + 1
           /\ \A x \in queued' : x \in queued \/ (x.id = enqueued + 1 /\ x.data = d)
           /\ \A x, y \in queued' : x \notin queued /\ y \notin queued => x = y
<1> DEFINE new == [id |-> enqueued + 1, data |-> d, due |-> t, seq |-> seq]
<1>1. enqueued \in Nat /\ enqueued + 1 \in 1..MaxRecords /\ seq \in Nat
  BY DurableAssumption DEF MapsTyped
<1>2. \A x \in queued \cup inFlight : x.id \in Nat /\ x.id # enqueued + 1
  BY <1>1, Fields DEF QueueSound
<1>3. /\ queued' = {y \in queued : y.id # enqueued + 1} \cup {new}
      /\ inFlight' = inFlight /\ seq' = seq + 1
  BY DEF Queue!EnqueueOp, Queue!PutQueued
<1>4. new \in Queue!Queued /\ new.id = enqueued + 1 /\ new.data = d /\ new.seq = seq
  BY <1>1 DEF Queue!Queued, Queue!Ids
<1>10. \A x \in queued : x.seq \in Nat /\ x.seq < seq
  BY DEF MapsTyped, Queue!Queued, QueueSound
<1> HIDE DEF new
<1>5. queued' = queued \cup {new}
  BY <1>2, <1>3
<1>6. MapsTyped'
  BY <1>1, <1>3, <1>4, <1>5 DEF MapsTyped
<1>7. IsFiniteSet(queued') /\ Cardinality(queued') <= Cardinality(queued) + 1
  <2>1. Cardinality(queued) \in Nat
    BY FS_CardinalityType DEF QueueSound
  <2>2. /\ IsFiniteSet(queued \cup {new})
        /\ Cardinality(queued \cup {new}) =
             IF new \in queued THEN Cardinality(queued) ELSE Cardinality(queued) + 1
    BY FS_AddElement DEF QueueSound
  <2> QED BY <1>5, <2>1, <2>2
<1>8. QueueSound'
  <2>1. \A x \in queued' \cup inFlight' : x.id <= enqueued'
    BY <1>1, <1>2, <1>3, <1>4, <1>5 DEF QueueSound
  <2>2. \A x, y \in queued' : x.id = y.id \/ x.seq = y.seq => x = y
    BY <1>2, <1>4, <1>5, <1>10 DEF QueueSound
  <2>4. \A x \in queued' : x.seq < seq'
    BY <1>1, <1>3, <1>4, <1>5, <1>10 DEF QueueSound
  <2>3. \A x \in queued', y \in inFlight' : x.id = y.id => x.data.chain = y.data.chain
    BY <1>2, <1>3, <1>4, <1>5 DEF QueueSound
  <2> QED BY <1>3, <1>7, <2>1, <2>2, <2>3, <2>4 DEF QueueSound
<1>9. Holdings' = Holdings \cup {<<enqueued + 1, d.chain>>}
  BY <1>3, <1>4, <1>5 DEF Holdings, Holding
<1> QED BY <1>3, <1>4, <1>5, <1>6, <1>7, <1>8, <1>9

(* ack: the claim of the id, if there is one, is gone.                       *)
LEMMA AckMoves ==
    ASSUME MapsTyped, QueueSound, NEW i, Queue!AckOp(i), enqueued' = enqueued
    PROVE  /\ MapsTyped' /\ QueueSound' /\ queued' = queued
           /\ Holdings' \subseteq Holdings
           /\ \A h \in Holdings : h[1] # i => h \in Holdings'
           /\ inFlight' \subseteq inFlight /\ \A x \in inFlight' : x.id # i
           /\ Cardinality(inFlight') <= Cardinality(inFlight)
<1>1. inFlight' = {x \in inFlight : x.id # i} /\ queued' = queued /\ seq' = seq
  BY DEF Queue!AckOp
<1>2. IsFiniteSet(inFlight') /\ Cardinality(inFlight') <= Cardinality(inFlight)
  BY <1>1, FS_Subset DEF QueueSound
<1>3. MapsTyped' /\ QueueSound'
  BY <1>1, <1>2 DEF MapsTyped, QueueSound
<1>4. Holdings' \subseteq Holdings /\ \A h \in Holdings : h[1] # i => h \in Holdings'
  BY <1>1 DEF Holdings, Holding
<1> QED BY <1>1, <1>2, <1>3, <1>4

(* A finite set with a strict order has an element nothing is above: the     *)
(* one whose set of elements above is the smallest.                          *)
LEMMA MaximalExists ==
    ASSUME NEW S, IsFiniteSet(S), S # {}, NEW R,
           \A x \in S : <<x, x>> \notin R,
           \A x, y, z \in S : <<x, y>> \in R /\ <<y, z>> \in R => <<x, z>> \in R
    PROVE  \E x \in S : \A y \in S : <<x, y>> \notin R
<1> DEFINE Up(x) == {y \in S : <<x, y>> \in R}
           T == {Up(x) : x \in S}
           O == StrictSubsetOrdering(S)
<1>1. IsWellFoundedOn(O, SUBSET S)
  BY FS_StrictSubsetOrderingWellFounded, FS_FiniteSubsetsOfFinite
<1>2. T \subseteq SUBSET S /\ T # {}
  <2>1. PICK x : x \in S
    OBVIOUS
  <2>2. Up(x) \in T
    BY <2>1
  <2>3. \A y : Up(y) \subseteq S
    OBVIOUS
  <2>4. T \subseteq SUBSET S
    <3> SUFFICES ASSUME NEW V \in T PROVE V \subseteq S
      OBVIOUS
    <3>1. PICK y \in S : V = Up(y)
      OBVIOUS
    <3> HIDE DEF Up
    <3> QED BY <2>3, <3>1
  <2> QED BY <2>2, <2>4
<1>3. PICK U \in T : \A V \in T : ~(<<V, U>> \in O)
  <2> HIDE DEF T, O
  <2> QED BY <1>1, <1>2, WFMin
<1>4. PICK x \in S : U = Up(x)
  BY DEF T
<1>5. ASSUME NEW y \in S, <<x, y>> \in R PROVE FALSE
  <2>1. Up(y) \subseteq Up(x) /\ y \in Up(x) /\ y \notin Up(y)
    BY <1>5
  <2>2. Up(y) # Up(x) /\ Up(y) \in SUBSET S /\ Up(x) \in SUBSET S
    BY <2>1
  <2>3. <<Up(y), Up(x)>> \in O
    <3> HIDE DEF Up
    <3> QED BY <2>1, <2>2 DEF StrictSubsetOrdering
  <2>4. Up(y) \in T
    OBVIOUS
  <2> QED BY <1>3, <1>4, <2>3, <2>4
<1> QED BY <1>5

(* evictNewest finds a record if there is one.                               *)
LEMMA NewestExists ==
    ASSUME MapsTyped, QueueSound, queued # {}
    PROVE  \E x \in queued : Queue!Newest = {x}
<1> DEFINE R == {p \in queued \X queued : Queue!Earlier(p[1], p[2])}
<1>1. \A x \in queued : x.due \in Nat /\ x.seq \in Nat
  BY DEF MapsTyped, Queue!Queued
<1>2. \A x, y \in queued : <<x, y>> \in R <=> Queue!Earlier(x, y)
  OBVIOUS
<1>3. \A x \in queued : <<x, x>> \notin R
  BY <1>1, <1>2 DEF Queue!Earlier
<1>4. \A x, y, z \in queued : <<x, y>> \in R /\ <<y, z>> \in R => <<x, z>> \in R
  <2> HIDE DEF R
  <2> QED BY <1>1, <1>2 DEF Queue!Earlier
<1>5. PICK x \in queued : \A y \in queued : <<x, y>> \notin R
  <2> HIDE DEF R
  <2> QED BY <1>3, <1>4, MaximalExists DEF QueueSound
<1>6. \A y \in queued : y = x \/ Queue!Earlier(y, x)
  <2> SUFFICES ASSUME NEW y \in queued, y # x PROVE Queue!Earlier(y, x)
    OBVIOUS
  <2>1. ~Queue!Earlier(x, y)
    BY <1>2, <1>5
  <2>2. x.seq # y.seq
    BY DEF QueueSound
  <2> QED BY <1>1, <2>1, <2>2 DEF Queue!Earlier
<1>7. \A y \in queued : Queue!Earlier(y, x) => ~Queue!Earlier(x, y)
  BY <1>1 DEF Queue!Earlier
<1>8. \A y \in Queue!Newest : y = x
  BY <1>6, <1>7 DEF Queue!Newest
<1> QED BY <1>6, <1>8 DEF Queue!Newest

(* evictNewest: the chains of what it takes are dropped.                     *)
LEMMA EvictMoves ==
    ASSUME MapsTyped, QueueSound, Queue!EvictNewestOp, enqueued' = enqueued
    PROVE  /\ MapsTyped' /\ QueueSound' /\ inFlight' = inFlight
           /\ queued' \subseteq queued
           /\ Holdings' \subseteq Holdings
           /\ \A h \in Holdings : h \in Holdings' \/ h[2] \in {x.data.chain : x \in Queue!Newest}
           /\ Cardinality(queued') <= Cardinality(queued)
           /\ queued # {} => Cardinality(queued') + 1 <= Cardinality(queued)
<1>1. queued' = queued \ Queue!Newest /\ inFlight' = inFlight /\ seq' = seq
  BY DEF Queue!EvictNewestOp
<1>2. IsFiniteSet(queued') /\ Cardinality(queued') <= Cardinality(queued)
  BY <1>1, FS_Subset DEF QueueSound
<1>5. ASSUME queued # {} PROVE Cardinality(queued') + 1 <= Cardinality(queued)
  <2>1. PICK x \in queued : Queue!Newest = {x}
    BY <1>5, NewestExists
  <2>2. Cardinality(queued) \in Nat
    BY FS_CardinalityType DEF QueueSound
  <2>3. Cardinality(queued \ {x}) = Cardinality(queued) - 1
    BY FS_RemoveElement DEF QueueSound
  <2> QED BY <1>1, <2>1, <2>2, <2>3
<1>3. MapsTyped' /\ QueueSound'
  BY <1>1, <1>2 DEF MapsTyped, QueueSound
<1>4. /\ Holdings' \subseteq Holdings
      /\ \A h \in Holdings : h \in Holdings' \/ h[2] \in {x.data.chain : x \in Queue!Newest}
  BY <1>1 DEF Holdings, Holding
<1> QED BY <1>1, <1>2, <1>3, <1>4, <1>5

(* nack: a claim goes back to the queue, or nothing happens.                 *)
LEMMA NackMoves ==
    ASSUME MapsTyped, QueueSound, NEW i \in Nat, NEW t \in Nat, Queue!NackOp(i, t),
           enqueued' = enqueued
    PROVE  /\ MapsTyped' /\ QueueSound' /\ Holdings' = Holdings
           /\ inFlight' \subseteq inFlight /\ \A x \in inFlight' : x.id # i
           /\ \A z \in queued' : \/ z \in queued
                                 \/ z.id = i /\ \E x \in inFlight : x.id = i /\ z.data = x.data
           /\ Cardinality(queued') + Cardinality(inFlight') <= Cardinality(queued) + Cardinality(inFlight)
           /\ Cardinality(inFlight') <= Cardinality(inFlight)
<1>1. CASE i \notin Queue!IdsOf(inFlight)
  <2>1. UNCHANGED <<queued, inFlight, seq>>
    BY <1>1 DEF Queue!NackOp, Queue!queueVars
  <2>2. \A x \in inFlight : x.id # i
    BY <1>1 DEF Queue!IdsOf
  <2>3. Cardinality(queued) \in Nat /\ Cardinality(inFlight) \in Nat
    BY FS_CardinalityType DEF QueueSound
  <2> QED BY <2>1, <2>2, <2>3 DEF MapsTyped, QueueSound, Holdings
<1>2. CASE i \in Queue!IdsOf(inFlight)
  <2>1. PICK x \in inFlight :
          /\ x.id = i
          /\ queued' = Queue!PutQueued(queued, [id |-> i, data |-> x.data, due |-> t, seq |-> seq])
          /\ inFlight' = {y \in inFlight : y.id # i}
          /\ seq' = seq + 1
    BY <1>2 DEF Queue!NackOp
  <2> DEFINE new == [id |-> i, data |-> x.data, due |-> t, seq |-> seq]
             rest == {y \in queued : y.id # i}
  <2>2. seq \in Nat /\ i \in 1..MaxRecords /\ x.data \in Retry /\ i <= enqueued
    BY <2>1, Fields DEF MapsTyped, QueueSound
  <2>3. new \in Queue!Queued /\ new.id = i /\ new.data = x.data /\ new.seq = seq
    BY <2>2 DEF Queue!Queued, Queue!Ids
  <2>4. queued' = rest \cup {new}
    BY <2>1, <2>3 DEF Queue!PutQueued
  <2> HIDE DEF new
  <2>5. \A y \in queued : y.seq \in Nat /\ y.seq < seq
    BY DEF MapsTyped, Queue!Queued, QueueSound
  <2>6. inFlight' = inFlight \ {x}
    BY <2>1 DEF QueueSound
  <2>7. /\ IsFiniteSet(inFlight') /\ Cardinality(inFlight') = Cardinality(inFlight) - 1
        /\ Cardinality(inFlight) \in Nat
    BY <2>6, FS_RemoveElement, FS_CardinalityType DEF QueueSound
  <2>8. IsFiniteSet(queued') /\ Cardinality(queued') <= Cardinality(queued) + 1
    <3>1. IsFiniteSet(rest) /\ Cardinality(rest) <= Cardinality(queued)
      BY FS_Subset DEF QueueSound
    <3>2. Cardinality(rest) \in Nat /\ Cardinality(queued) \in Nat
      BY <3>1, FS_CardinalityType DEF QueueSound
    <3>3. IsFiniteSet({new}) /\ Cardinality({new}) = 1
      BY FS_Singleton
    <3>4. /\ IsFiniteSet(rest \cup {new})
          /\ Cardinality(rest \cup {new}) <= Cardinality(rest) + Cardinality({new})
      BY <3>1, <3>3, UnionAtMost
    <3>5. Cardinality(rest \cup {new}) \in Nat
      BY <3>4, FS_CardinalityType
    <3> QED BY <2>4, <3>1, <3>2, <3>3, <3>4, <3>5
  <2>9. MapsTyped'
    BY <2>1, <2>2, <2>3, <2>4 DEF MapsTyped
  <2>10. QueueSound'
    <3>1. \A z \in queued' \cup inFlight' : z.id <= enqueued'
      BY <2>1, <2>2, <2>3, <2>4 DEF QueueSound
    <3>2. \A y, z \in queued' : y.id = z.id \/ y.seq = z.seq => y = z
      BY <2>2, <2>3, <2>4, <2>5 DEF QueueSound
    <3>3. \A z \in queued' : z.seq < seq'
      BY <2>1, <2>2, <2>3, <2>4, <2>5
    <3>4. \A y \in queued', z \in inFlight' : y.id = z.id => y.data.chain = z.data.chain
      BY <2>1, <2>3, <2>4 DEF QueueSound
    <3> QED BY <2>1, <2>7, <2>8, <3>1, <3>2, <3>3, <3>4 DEF QueueSound
  <2>11. Holdings' = Holdings
    <3>1. \A h \in Holdings' : h \in Holdings
      BY <2>1, <2>3, <2>4 DEF Holdings, Holding
    <3>2. \A h \in Holdings : h \in Holdings'
      <4> SUFFICES ASSUME NEW y \in queued \cup inFlight
                   PROVE  \E z \in queued' \cup inFlight' : z.id = y.id /\ z.data.chain = y.data.chain
        BY DEF Holdings, Holding
      <4>1. CASE y.id = i
        <5>1. y.data.chain = x.data.chain
          BY <2>1, <4>1 DEF QueueSound
        <5> QED BY <2>3, <2>4, <4>1, <5>1
      <4>2. CASE y.id # i
        BY <2>1, <2>4, <4>2
      <4> QED BY <4>1, <4>2
    <3> QED BY <3>1, <3>2
  <2>12. Cardinality(queued') + Cardinality(inFlight') <= Cardinality(queued) + Cardinality(inFlight)
    <3>1. Cardinality(queued) \in Nat /\ Cardinality(queued') \in Nat
      BY <2>8, FS_CardinalityType DEF QueueSound
    <3> QED BY <2>7, <2>8, <3>1
  <2>13. \A z \in queued' : z \in queued \/ (z.id = i /\ \E y \in inFlight : y.id = i /\ z.data = y.data)
    BY <2>1, <2>3, <2>4
  <2> QED BY <2>1, <2>7, <2>9, <2>10, <2>11, <2>12, <2>13
<1> QED BY <1>1, <1>2

(* Reclaiming: the expired claims are queued again.                          *)
LEMMA ReclaimKeeps ==
    ASSUME MapsTyped, QueueSound, NEW t \in Nat, NEW Q \in Queue!AfterReclaim(t)
    PROVE  LET E == Queue!Expired(t)
               n == Cardinality(Queue!IdsOf(E))
           IN  /\ n \in Nat
               /\ Q \subseteq Queue!Queued /\ IsFiniteSet(Q)
               /\ Cardinality(Q) <= Cardinality(queued) + Cardinality(E)
               /\ \A x, y \in Q : x.id = y.id \/ x.seq = y.seq => x = y
               /\ \A x \in Q : x.seq < seq + n /\ x.id <= enqueued
               /\ \A x \in Q : x \in queued \/ \E e \in E : x.id = e.id /\ x.data = e.data
               /\ \A x \in queued \cup E : \E y \in Q : x.id = y.id /\ x.data.chain = y.data.chain
               /\ E = {} => Q = queued
<1> DEFINE E == Queue!Expired(t)
           I == Queue!IdsOf(E)
           n == Cardinality(I)
<1>1. PICK rank \in Queue!Ranks(I) :
         Q = {y \in queued : y.id \notin I}
                \cup {Queue!Requeued(x, t, seq + rank[x.id]) : x \in E}
  BY DEF Queue!AfterReclaim
<1>2. E \subseteq inFlight /\ \A x \in E : x.id \in I
  BY DEF Queue!Expired, Queue!IdsOf
<1>3. n \in Nat
  <2>1. I \in SUBSET Nat /\ \A s \in I : s <= MaxRecords
    BY <1>2, Fields, DurableAssumption DEF Queue!IdsOf
  <2>2. IsFiniteSet(I)
    BY <2>1, DurableAssumption, FS_BoundedSetOfNaturals
  <2> QED BY <2>2, FS_CardinalityType
<1>4. rank \in [I -> 0..(n - 1)] /\ \A i, j \in I : rank[i] = rank[j] => i = j
  <2>1. rank \in Queue!Ranks(I)
    BY <1>1
  <2> HIDE DEF I
  <2> QED BY <2>1, SameCount DEF Queue!Ranks
<1> DEFINE re == [x \in E |-> Queue!Requeued(x, t, seq + rank[x.id])]
           B == {re[x] : x \in E}
           A == {y \in queued : y.id \notin I}
<1>5. Q = A \cup B
  BY <1>1
<1> HIDE DEF I, n
<1>6. \A x \in E : rank[x.id] \in 0..(n - 1)
  BY <1>2, <1>4
<1>7. seq \in Nat
  BY DEF MapsTyped
<1>8. \A x \in E : x.id \in 1..MaxRecords /\ x.data \in Retry /\ x.id <= enqueued
  BY <1>2, Fields DEF QueueSound
<1>9. \A x \in E : /\ re[x] \in Queue!Queued /\ re[x].id = x.id /\ re[x].data = x.data
                   /\ re[x].seq = seq + rank[x.id]
  BY <1>3, <1>6, <1>7, <1>8 DEF Queue!Requeued, Queue!Queued, Queue!Ids
<1>10. re \in [E -> B]
  OBVIOUS
<1> HIDE DEF re, E
<1>11. IsFiniteSet(E) /\ IsFiniteSet(A) /\ Cardinality(A) <= Cardinality(queued)
  BY <1>2, FS_Subset DEF QueueSound
<1>12. IsFiniteSet(B) /\ Cardinality(B) <= Cardinality(E)
  BY <1>10, <1>11, ImageAtMost
<1>13. IsFiniteSet(Q) /\ Cardinality(Q) <= Cardinality(queued) + Cardinality(E)
  <2>1. IsFiniteSet(Q) /\ Cardinality(Q) <= Cardinality(A) + Cardinality(B)
    BY <1>5, <1>11, <1>12, UnionAtMost
  <2>2. /\ Cardinality(Q) \in Nat /\ Cardinality(A) \in Nat /\ Cardinality(B) \in Nat
        /\ Cardinality(E) \in Nat /\ Cardinality(queued) \in Nat
    BY <1>11, <1>12, <2>1, FS_CardinalityType DEF QueueSound
  <2> QED BY <1>11, <1>12, <2>1, <2>2
<1>14. \A x \in Q : (x \in queued /\ x.id \notin I) \/ \E e \in E : x = re[e]
  BY <1>5
<1>15. Q \subseteq Queue!Queued
  BY <1>9, <1>14 DEF MapsTyped
<1>16. \A x \in queued : x.seq \in Nat /\ x.seq < seq
  BY DEF MapsTyped, Queue!Queued, QueueSound
<1>17. \A x, y \in Q : x.id = y.id \/ x.seq = y.seq => x = y
  <2> SUFFICES ASSUME NEW x \in Q, NEW y \in Q, x.id = y.id \/ x.seq = y.seq PROVE x = y
    OBVIOUS
  <2>1. CASE x \in queued /\ y \in queued
    BY <2>1 DEF QueueSound
  <2>2. ASSUME NEW e \in E, x = re[e], NEW f \in E, y = re[f] PROVE x = y
    <3>1. e.id = f.id
      <4>1. CASE x.id = y.id
        BY <1>9, <2>2, <4>1
      <4>2. CASE x.seq = y.seq
        <5>1. seq + rank[e.id] = seq + rank[f.id]
          BY <1>9, <2>2, <4>2
        <5>2. rank[e.id] = rank[f.id]
          BY <1>3, <1>6, <1>7, <5>1
        <5> QED BY <1>2, <1>4, <5>2
      <4> QED BY <4>1, <4>2
    <3>2. e = f
      BY <1>2, <3>1 DEF QueueSound
    <3> QED BY <2>2, <3>2
  <2>3. ASSUME NEW z \in queued, z.id \notin I, NEW f \in E, z.id = re[f].id \/ z.seq = re[f].seq
        PROVE  FALSE
    <3>1. z.id # re[f].id
      BY <1>2, <1>9, <2>3
    <3>2. z.seq < seq /\ re[f].seq = seq + rank[f.id] /\ rank[f.id] \in Nat /\ z.seq \in Nat
      BY <1>3, <1>6, <1>9, <1>16
    <3> QED BY <1>7, <2>3, <3>1, <3>2
  <2> QED BY <1>14, <2>1, <2>2, <2>3
<1>18. \A x \in Q : x.seq < seq + n /\ x.id <= enqueued
  <2>1. \A x \in queued : x.id <= enqueued
    BY DEF QueueSound
  <2>2. \A x \in queued : x.seq < seq + n
    BY <1>3, <1>7, <1>16
  <2>3. \A e \in E : re[e].seq < seq + n /\ re[e].id <= enqueued
    BY <1>3, <1>6, <1>7, <1>8, <1>9
  <2> QED BY <1>14, <2>1, <2>2, <2>3
<1>19. \A x \in Q : x \in queued \/ \E e \in E : x.id = e.id /\ x.data = e.data
  BY <1>9, <1>14
<1>20. \A x \in queued \cup E : \E y \in Q : x.id = y.id /\ x.data.chain = y.data.chain
  <2> SUFFICES ASSUME NEW x \in queued \cup E
               PROVE  \E y \in Q : x.id = y.id /\ x.data.chain = y.data.chain
    OBVIOUS
  <2>1. CASE x \in E
    <3>1. re[x] \in Q
      BY <1>5, <2>1
    <3> QED BY <1>9, <2>1, <3>1
  <2>2. CASE x \in queued /\ x.id \notin I
    BY <1>5, <2>2
  <2>3. CASE x \in queued /\ x.id \in I
    <3>1. PICK e \in E : e.id = x.id
      BY <2>3 DEF I, Queue!IdsOf
    <3>2. re[e] \in Q /\ re[e].id = x.id /\ re[e].data = e.data
      BY <1>5, <1>9, <3>1
    <3>3. e.data.chain = x.data.chain
      BY <1>2, <2>3, <3>1 DEF QueueSound
    <3> QED BY <3>2, <3>3
  <2> QED BY <2>1, <2>2, <2>3
<1>21. E = {} => Q = queued
  BY <1>5 DEF I, Queue!IdsOf
<1> QED BY <1>3, <1>13, <1>15, <1>17, <1>18, <1>19, <1>20, <1>21 DEF E, I, n

(* dequeue: what expired is queued again and at most one record is handed    *)
(* out.                                                                      *)
LEMMA DequeueMoves ==
    ASSUME MapsTyped, QueueSound, NEW t \in Nat, NEW Q \in Queue!AfterReclaim(t),
           Queue!DequeueOp(Q, t), enqueued' = enqueued
    PROVE  /\ MapsTyped' /\ QueueSound' /\ Holdings' = Holdings
           /\ \A y \in Queue!HandsOut(Q, t) : y \in Queue!Claims /\ <<y.id, y.data.chain>> \in Holdings
           /\ \A x \in inFlight' : x \in inFlight \/ x \in Queue!HandsOut(Q, t)
           /\ Cardinality(queued') + Cardinality(inFlight') <= Cardinality(queued) + Cardinality(inFlight)
           /\ Queue!Expired(t) = {} =>
                /\ queued' \subseteq queued
                /\ \A y \in Queue!HandsOut(Q, t) :
                      \E z \in queued \ queued' : z.id = y.id /\ z.data = y.data
<1> DEFINE E == Queue!Expired(t)
           D == Queue!DueFirst(Q, t)
           H == Queue!HandsOut(Q, t)
           F == {y \in inFlight \ E : y.id \notin Queue!IdsOf(D)}
           n == Cardinality(Queue!IdsOf(E))
<1>1. /\ n \in Nat
      /\ Q \subseteq Queue!Queued /\ IsFiniteSet(Q)
      /\ Cardinality(Q) <= Cardinality(queued) + Cardinality(E)
      /\ \A x, y \in Q : x.id = y.id \/ x.seq = y.seq => x = y
      /\ \A x \in Q : x.seq < seq + n /\ x.id <= enqueued
      /\ \A x \in Q : x \in queued \/ \E e \in E : x.id = e.id /\ x.data = e.data
      /\ \A x \in queued \cup E : \E y \in Q : x.id = y.id /\ x.data.chain = y.data.chain
      /\ E = {} => Q = queued
  BY ReclaimKeeps
<1>2. queued' = Q \ D /\ inFlight' = F \cup H /\ seq' = seq + n
  BY SameCount DEF Queue!DequeueOp
<1>3. D \subseteq Q
  BY DEF Queue!DueFirst
<1>4. E \subseteq inFlight /\ seq \in Nat
  BY DEF Queue!Expired, MapsTyped
<1>5. \A x, y \in D : x = y
  <2> SUFFICES ASSUME NEW x \in D, NEW y \in D, x # y PROVE FALSE
    OBVIOUS
  <2>1. Queue!Earlier(x, y) /\ Queue!Earlier(y, x)
    BY DEF Queue!DueFirst
  <2>2. x.due \in Nat /\ y.due \in Nat /\ x.seq \in Nat /\ y.seq \in Nat
    BY <1>1, <1>3 DEF Queue!Queued
  <2> QED BY <2>1, <2>2 DEF Queue!Earlier
<1> DEFINE co == [x \in D |-> Queue!ClaimOf(x, t)]
<1>6. \A x \in D : co[x] \in Queue!Claims /\ co[x].id = x.id /\ co[x].data = x.data
  <2>1. \A x \in D : x.id \in Queue!Ids /\ x.data \in Retry /\ x.due \in Nat
    BY <1>1, <1>3 DEF Queue!Queued
  <2>2. t + Queue!MemoryTimeout \in Nat
    BY TimeoutNat
  <2> QED BY <2>1, <2>2 DEF Queue!ClaimOf, Queue!Claims
<1>7. H = {co[x] : x \in D} /\ co \in [D -> H]
  BY DEF Queue!HandsOut
<1>8. \A x \in D : x.id \in Queue!IdsOf(D)
  BY DEF Queue!IdsOf
<1>9. \A y \in F : y \in inFlight /\ y \notin E /\ \A x \in D : y.id # x.id
  BY <1>8
<1>10. \A y \in inFlight : y \in E \/ y \in F \/ \E x \in D : y.id = x.id
  BY DEF Queue!IdsOf
<1> HIDE DEF E, D, H, F, n, co
<1>11. \A y \in H : \E x \in D : y = co[x] /\ y.id = x.id /\ y.data = x.data /\ y \in Queue!Claims
  BY <1>6, <1>7
<1>12. MapsTyped'
  BY <1>1, <1>2, <1>4, <1>9, <1>11 DEF MapsTyped
<1>13. /\ IsFiniteSet(queued') /\ IsFiniteSet(inFlight')
       /\ Cardinality(queued') + Cardinality(inFlight') <= Cardinality(queued) + Cardinality(inFlight)
  <2>1. IsFiniteSet(D) /\ IsFiniteSet(Q \ D) /\ Cardinality(Q \ D) = Cardinality(Q) - Cardinality(D)
    <3>1. IsFiniteSet(D)
      BY <1>1, <1>3, FS_Subset
    <3>2. IsFiniteSet(Q \ D) /\ Cardinality(Q \ D) = Cardinality(Q) - Cardinality(Q \cap D)
      BY <1>1, FS_Difference
    <3>3. Q \cap D = D
      BY <1>3
    <3> QED BY <3>1, <3>2, <3>3
  <2>2. IsFiniteSet(H) /\ Cardinality(H) <= Cardinality(D)
    BY <1>7, <2>1, ImageAtMost
  <2>3. /\ IsFiniteSet(E) /\ IsFiniteSet(inFlight \ E)
        /\ Cardinality(inFlight \ E) = Cardinality(inFlight) - Cardinality(E)
    <3>1. IsFiniteSet(inFlight)
      BY DEF QueueSound
    <3>2. /\ IsFiniteSet(inFlight \ E)
          /\ Cardinality(inFlight \ E) = Cardinality(inFlight) - Cardinality(inFlight \cap E)
      BY <3>1, FS_Difference
    <3>3. inFlight \cap E = E
      BY <1>4
    <3>4. IsFiniteSet(E)
      BY <1>4, <3>1, FS_Subset
    <3> QED BY <3>2, <3>3, <3>4
  <2>4. IsFiniteSet(F) /\ Cardinality(F) <= Cardinality(inFlight \ E)
    <3>1. F \in SUBSET (inFlight \ E)
      BY <1>9
    <3> QED BY <2>3, <3>1, FS_Subset
  <2>5. IsFiniteSet(F \cup H) /\ Cardinality(F \cup H) <= Cardinality(F) + Cardinality(H)
    BY <2>2, <2>4, UnionAtMost
  <2>6. /\ Cardinality(D) \in Nat /\ Cardinality(Q) \in Nat /\ Cardinality(H) \in Nat
        /\ Cardinality(E) \in Nat /\ Cardinality(F) \in Nat /\ Cardinality(F \cup H) \in Nat
        /\ Cardinality(queued) \in Nat /\ Cardinality(inFlight) \in Nat
    BY <1>1, <2>1, <2>2, <2>3, <2>4, <2>5, FS_CardinalityType DEF QueueSound
  <2> QED BY <1>1, <1>2, <2>1, <2>2, <2>3, <2>4, <2>5, <2>6
<1>14. \A x \in Q : x.data.chain \in Chains
  <2>1. \A x \in Q : x.data \in Retry
    BY <1>1 DEF Queue!Queued
  <2> QED BY <2>1 DEF Retry
<1>15. \A x \in Q, y \in inFlight : x.id = y.id => x.data.chain = y.data.chain
  BY <1>1, <1>4 DEF QueueSound
<1>16. QueueSound'
  <2>1. \A x \in inFlight' : x.id <= enqueued'
    BY <1>1, <1>2, <1>3, <1>9, <1>11 DEF QueueSound
  <2>2. \A x \in queued' : x.id <= enqueued' /\ x.seq < seq'
    BY <1>1, <1>2
  <2>3. \A x, y \in queued' : x.id = y.id \/ x.seq = y.seq => x = y
    BY <1>1, <1>2
  <2>4. \A x, y \in inFlight' : x.id = y.id => x = y
    <3>1. \A x, y \in F : x.id = y.id => x = y
      BY <1>9 DEF QueueSound
    <3>2. \A x \in F, y \in H : x.id # y.id
      BY <1>9, <1>11
    <3>3. \A x, y \in H : x = y
      BY <1>5, <1>11
    <3> QED BY <1>2, <3>1, <3>2, <3>3
  <2>5. \A x \in queued', y \in inFlight' : x.id = y.id => x.data.chain = y.data.chain
    <3>1. \A x \in queued', y \in F : x.id = y.id => x.data.chain = y.data.chain
      BY <1>2, <1>9, <1>15
    <3>2. \A x \in queued', y \in H : x.id # y.id
      BY <1>1, <1>2, <1>3, <1>11
    <3> QED BY <1>2, <3>1, <3>2
  <2> QED BY <1>13, <2>1, <2>2, <2>3, <2>4, <2>5 DEF QueueSound
<1>17. \A x \in Q : \E z \in queued \cup inFlight : z.id = x.id /\ z.data = x.data
  BY <1>1, <1>4
<1>18. \A y \in queued' \cup inFlight' :
         \E z \in queued \cup inFlight : z.id = y.id /\ z.data.chain = y.data.chain
  <2>1. \A y \in queued' : \E z \in queued \cup inFlight : z.id = y.id /\ z.data = y.data
    BY <1>2, <1>17
  <2>2. \A y \in H : \E z \in queued \cup inFlight : z.id = y.id /\ z.data = y.data
    BY <1>3, <1>11, <1>17
  <2>3. \A y \in F : y \in inFlight
    BY <1>9
  <2> QED BY <1>2, <2>1, <2>2, <2>3
<1>19. \A z \in queued \cup inFlight :
         \E y \in queued' \cup inFlight' : z.id = y.id /\ z.data.chain = y.data.chain
  <2>1. \A x \in Q : \E y \in queued' \cup inFlight' : x.id = y.id /\ x.data = y.data
    BY <1>2, <1>6, <1>7
  <2>2. \A z \in queued \cup E : \E y \in queued' \cup inFlight' : z.id = y.id /\ z.data.chain = y.data.chain
    BY <1>1, <2>1
  <2>3. ASSUME NEW z \in inFlight, z \notin E
        PROVE  \E y \in queued' \cup inFlight' : z.id = y.id /\ z.data.chain = y.data.chain
    <3>1. CASE z \in F
      BY <1>2, <3>1
    <3>2. CASE \E x \in D : z.id = x.id
      <4>1. PICK x \in D : z.id = x.id
        BY <3>2
      <4>2. x.data.chain = z.data.chain
        BY <1>3, <1>15, <4>1
      <4> QED BY <1>3, <2>1, <4>1, <4>2
    <3> QED BY <1>10, <2>3, <3>1, <3>2
  <2> QED BY <2>2, <2>3
<1>20. Holdings' = Holdings
  BY <1>18, <1>19 DEF Holdings, Holding
<1>21. \A y \in H : y \in Queue!Claims /\ <<y.id, y.data.chain>> \in Holdings
  <2>1. \A y \in H : y \in inFlight'
    BY <1>2
  <2> QED BY <1>11, <1>20, <2>1 DEF Holdings, Holding
<1>22. \A x \in inFlight' : x \in inFlight \/ x \in H
  BY <1>2, <1>9
<1>23. ASSUME E = {}
       PROVE  /\ queued' \subseteq queued
              /\ \A y \in H : \E z \in queued \ queued' : z.id = y.id /\ z.data = y.data
  BY <1>1, <1>2, <1>3, <1>11, <1>23
<1> QED BY <1>12, <1>13, <1>16, <1>20, <1>21, <1>22, <1>23 DEF E, H

-----------------------------------------------------------------------------
(* One call moves.                                                           *)
LEMMA Moved ==
    ASSUME task \in [Tasks -> Task], NEW k \in Tasks, NEW x, Goes(k, x)
    PROVE  /\ task'[k] = x /\ \A j \in Tasks : j # k => task'[j] = task[j]
           /\ x \in Task => task' \in [Tasks -> Task]
BY DEF Goes

(* What a call that moves within its code keeps.                             *)
LEMMA AtMoves ==
    ASSUME NEW y \in Task, NEW s \in Stops, NEW x, x = [y EXCEPT !.at = s]
    PROVE  /\ x \in Task /\ x.at = s /\ x.kind = y.kind /\ x.retry = y.retry /\ x.id = y.id
           /\ x.nowMs = y.nowMs /\ x.drop = y.drop
BY DEF Task

(* The call that is over.                                                    *)
LEMMA IdleFields ==
    /\ Idle \in Task /\ Idle.at = "idle" /\ Idle.kind = "none" /\ Idle.retry = {}
    /\ Idle.id = 0 /\ Idle.nowMs = 0 /\ Idle.drop = {}
BY DEF Idle, Task, Kinds, Stops

(* Types and facts about the queue and the calls.                            *)
LEMMA ShapeMoves ==
    ASSUME Shape, MapsTyped', QueueSound', NEW k \in Tasks, NEW x \in Task, Goes(k, x),
           enqueued <= enqueued', now' = now, UNCHANGED life,
           \A h \in Holdings' : h \in Holdings \/ (h[1] > enqueued /\ tries'[h[2]] > 0),
           drainTimers' \subseteq Nat, tries' \in [Chains -> Nat], expired' \in BOOLEAN,
           \A c \in Chains : tries[c] > 0 => tries'[c] > 0,
           persisted' \subseteq Chains, delivered' \subseteq Chains, finished' \subseteq Chains,
           shed' \subseteq Chains, deadLettered' \subseteq Chains,
           \A c \in delivered' : c \in delivered \/ tries'[c] > 0,
           TaskSound(x)'
    PROVE  Shape'
<1>1. /\ task \in [Tasks -> Task] /\ enqueued \in Nat /\ enqueued' \in Nat
  BY DurableAssumption DEF Shape, TypeOK, MapsTyped
<1>2. /\ task'[k] = x /\ \A j \in Tasks : j # k => task'[j] = task[j]
      /\ task' \in [Tasks -> Task]
  BY <1>1, Moved
<1>3. TypeOK'
  BY <1>2 DEF Shape, TypeOK, MapsTyped, life
<1>4. \A h \in Holdings : h[1] \in Nat /\ h[2] \in Chains
  <2>1. MapsTyped
    BY DEF Shape, TypeOK, MapsTyped
  <2> QED BY <2>1, Fields DEF Holdings, Holding
<1>5. \A j \in Tasks : TaskSound(task[j])'
  <2> SUFFICES ASSUME NEW j \in Tasks, j # k PROVE TaskSound(task[j])'
    BY <1>2 DEF TaskSound
  <2>1. task'[j] = task[j] /\ TaskSound(task[j]) /\ task[j] \in Task
    BY <1>1, <1>2 DEF Shape, TasksSound
  <2>2. task[j].id \in Nat /\ \A r \in task[j].retry : r.chain \in Chains
    BY <2>1 DEF Task, Retry
  <2>3. \A h \in Holdings' : h[1] = task[j].id => h \in Holdings
    BY <1>1, <2>1, <2>2 DEF TaskSound
  <2>4. task[j].id <= enqueued'
    BY <1>1, <2>1, <2>2 DEF TaskSound
  <2> QED BY <2>1, <2>2, <2>3, <2>4 DEF TaskSound
<1>6. TriedSound'
  <2>1. \A h \in Holdings' : tries'[h[2]] > 0
    BY <1>4 DEF Shape, TriedSound
  <2>2. \A c \in delivered' : tries'[c] > 0
    BY DEF Shape, TriedSound, TypeOK
  <2> QED BY <2>1, <2>2 DEF Shape, TriedSound, life
<1> QED BY <1>3, <1>5, <1>6 DEF Shape, TasksSound

(* No retry is lost: a record goes with an ack that was in the making, or    *)
(* with what settles its chain; an ack is in the making only once the chain  *)
(* is settled or has a new record.                                           *)
LEMMA SparedMoves ==
    ASSUME Shape, SparedInv, NEW k \in Tasks, NEW x \in Task, Goes(k, x),
           everStopped' = everStopped, Settled \subseteq Settled', x.id <= enqueued,
           \A h \in Holdings : \/ h \in Holdings' \/ h[2] \in Settled'
                               \/ Settling(task[k]) /\ task[k].id = h[1],
           \A c \in persisted' : \/ c \in persisted \/ c \in Settled'
                                 \/ \E h \in Holdings' : h[2] = c /\ h[1] > enqueued,
           Settling(x) => \/ Settling(task[k]) /\ task[k].id = x.id
                          \/ everStopped
                          \/ \A h \in Holdings : h[1] = x.id =>
                               h[2] \in Settled' \/ \E g \in Holdings' : g[2] = h[2] /\ g[1] > enqueued
    PROVE  SparedInv'
<1>1. /\ task \in [Tasks -> Task] /\ enqueued \in Nat
  BY DurableAssumption DEF Shape, TypeOK
<1>2. /\ task'[k] = x /\ \A j \in Tasks : j # k => task'[j] = task[j]
  BY <1>1, Moved
<1>3. \A j \in Tasks : task'[j].id \in Nat /\ task'[j].id <= enqueued
  <2>1. \A j \in Tasks : task[j].id <= enqueued /\ task[j].id \in Nat
    BY <1>1 DEF Shape, TasksSound, TaskSound, Task
  <2> QED BY <1>2, <2>1 DEF Task
<1>4. \A h : h[1] > enqueued => Spared(h[1])'
  <2> SUFFICES ASSUME NEW h, h[1] > enqueued, NEW j \in Tasks, task'[j].id = h[1] PROVE FALSE
    BY DEF Spared
  <2> QED BY <1>1, <1>3
<1> SUFFICES ASSUME ~everStopped, NEW c \in persisted' \ Settled'
             PROVE  \E h \in Holdings' : h[2] = c /\ Spared(h[1])'
  BY DEF SparedInv
<1>5. CASE \E h \in Holdings' : h[2] = c /\ h[1] > enqueued
  BY <1>4, <1>5
<1>6. CASE ~\E h \in Holdings' : h[2] = c /\ h[1] > enqueued
  <2>1. PICK h \in Holdings : h[2] = c /\ Spared(h[1])
    BY <1>6 DEF SparedInv
  <2>2. h \in Holdings'
    BY <2>1 DEF Spared
  <2>3. ~(Settling(x) /\ x.id = h[1])
    BY <1>6, <2>1 DEF Spared
  <2>4. Spared(h[1])'
    BY <1>2, <2>1, <2>3 DEF Spared, Settling
  <2> QED BY <2>1, <2>2, <2>4
<1> QED BY <1>5, <1>6

(* What is given up is recorded.                                             *)
LEMMA RecordMoves ==
    ASSUME Shape, RecordInv, NEW k \in Tasks, NEW x, Goes(k, x), crashes' = crashes,
           deadLettered \subseteq deadLettered',
           \A c \in finished' \cup shed' :
               c \in finished \cup shed \/ c \in deadLettered' \/ WillRecord(x, c),
           \A c : WillRecord(task[k], c) => WillRecord(x, c) \/ c \in deadLettered'
    PROVE  RecordInv'
<1>1. task \in [Tasks -> Task]
  BY DEF Shape, TypeOK
<1>2. /\ task'[k] = x /\ \A j \in Tasks : j # k => task'[j] = task[j]
  BY <1>1, Moved
<1> SUFFICES ASSUME crashes = 0, NEW c \in finished' \cup shed', c \notin deadLettered'
             PROVE  \E j \in Tasks : WillRecord(task'[j], c)
  BY DEF RecordInv, WillRecord
<1>3. CASE WillRecord(x, c)
  BY <1>2, <1>3
<1>4. CASE ~WillRecord(x, c)
  <2>1. PICK j \in Tasks : WillRecord(task[j], c)
    BY <1>4 DEF RecordInv
  <2>2. j # k
    BY <1>4, <2>1
  <2> QED BY <1>2, <2>1, <2>2
<1> QED BY <1>3, <1>4

(* Claims that have an owner are no more than the calls.                     *)
LEMMA OwnedAtMost ==
    ASSUME NEW F, IsFiniteSet(F), \A x, y \in F : x.id = y.id => x = y, NEW tk,
           NEW O, O = {x \in F : \A k \in Tasks : tk[k].id # x.id}
    PROVE  IsFiniteSet(O) /\ Cardinality(F) <= Cardinality(O) + Cardinality(Tasks)
<1> DEFINE W == F \ O
<1>1. IsFiniteSet(O) /\ IsFiniteSet(W) /\ IsFiniteSet(Tasks)
  BY FS_Subset, DurableAssumption
<1>2. \A x \in W : \E k \in Tasks : tk[k].id = x.id
  OBVIOUS
<1> DEFINE f == [x \in W |-> CHOOSE k \in Tasks : tk[k].id = x.id]
<1>3. \A x \in W : f[x] \in Tasks /\ tk[f[x]].id = x.id
  <2> SUFFICES ASSUME NEW x \in W PROVE f[x] \in Tasks /\ tk[f[x]].id = x.id
    OBVIOUS
  <2>1. f[x] = CHOOSE k \in Tasks : tk[k].id = x.id
    OBVIOUS
  <2> HIDE DEF f, W
  <2> QED BY <1>2, <2>1
<1>4. f \in [W -> Tasks]
  <2>1. f = [x \in W |-> f[x]]
    OBVIOUS
  <2> HIDE DEF f, W
  <2> QED BY <1>3, <2>1
<1>5. f \in Injection(W, Tasks)
  <2>1. \A x, y \in W : f[x] = f[y] => x = y
    <3> SUFFICES ASSUME NEW x \in W, NEW y \in W, f[x] = f[y] PROVE x = y
      OBVIOUS
    <3>1. x.id = y.id
      <4> HIDE DEF f, W
      <4> QED BY <1>3
    <3> QED BY <3>1
  <2> HIDE DEF f, W
  <2> QED BY <1>4, <2>1 DEF Injection, IsInjective
<1>6. Cardinality(W) <= Cardinality(Tasks)
  <2> HIDE DEF f, W
  <2> QED BY <1>1, <1>5, FS_Injection
<1>7. F = O \cup W
  OBVIOUS
<1> HIDE DEF W
<1>8. Cardinality(F) <= Cardinality(O) + Cardinality(W)
  BY <1>1, <1>7, UnionAtMost
<1>9. /\ Cardinality(F) \in Nat /\ Cardinality(O) \in Nat /\ Cardinality(W) \in Nat
      /\ Cardinality(Tasks) \in Nat
  BY <1>1, FS_CardinalityType
<1>10. Cardinality(F) <= Cardinality(O) + Cardinality(Tasks)
  BY <1>6, <1>8, <1>9
<1> QED BY <1>1, <1>10

(* The number of the calls, times what the bounds take.                      *)
LEMMA TimesTasks ==
    ASSUME NEW n \in Nat
    PROVE  LET c == Cardinality(Tasks)
           IN  /\ c \in Nat /\ n * c \in Nat
               /\ (n + 1) * c = n * c + c /\ (n + 2) * c = n * c + c + c
<1>1. Cardinality(Tasks) \in Nat
  BY DurableAssumption, FS_CardinalityType
<1> DEFINE c == Cardinality(Tasks)
<1> HIDE DEF c
<1>2. c \in Nat
  BY <1>1 DEF c
<1>3. n * c \in Nat /\ (n + 1) * c = n * c + c /\ (n + 2) * c = n * c + c + c
  BY <1>2
<1> QED BY <1>2, <1>3 DEF c

(* The calls about to enqueue, when one call moves.                          *)
LEMMA EnqueuingMoves ==
    ASSUME task \in [Tasks -> Task], NEW k \in Tasks, NEW x, Goes(k, x)
    PROVE  /\ Cardinality(Enqueuing) \in Nat /\ Cardinality(Enqueuing') \in Nat
           /\ Cardinality(Enqueuing') <= Cardinality(Tasks)
           /\ x.at # "enqueue" \/ task[k].at = "enqueue" => Cardinality(Enqueuing') <= Cardinality(Enqueuing)
           /\ Cardinality(Enqueuing') <= Cardinality(Enqueuing) + 1
           /\ x.at # "enqueue" /\ task[k].at = "enqueue"
                => Cardinality(Enqueuing') + 1 <= Cardinality(Enqueuing)
<1>1. /\ task'[k] = x /\ \A j \in Tasks : j # k => task'[j] = task[j]
  BY Moved
<1>2. Enqueuing \in SUBSET Tasks /\ Enqueuing' \in SUBSET Tasks
  BY DEF Enqueuing
<1>3. IsFiniteSet(Enqueuing) /\ IsFiniteSet(Enqueuing') /\ Cardinality(Enqueuing') <= Cardinality(Tasks)
  BY <1>2, DurableAssumption, FS_Subset
<1>4. Cardinality(Enqueuing) \in Nat /\ Cardinality(Enqueuing') \in Nat
  BY <1>3, FS_CardinalityType
<1>5. Enqueuing' \subseteq Enqueuing \cup {k}
  BY <1>1 DEF Enqueuing
<1>6. ASSUME x.at # "enqueue" \/ task[k].at = "enqueue"
      PROVE  Cardinality(Enqueuing') <= Cardinality(Enqueuing)
  <2>1. Enqueuing' \in SUBSET Enqueuing
    BY <1>1, <1>6 DEF Enqueuing
  <2> QED BY <1>3, <2>1, FS_Subset
<1>7. Cardinality(Enqueuing') <= Cardinality(Enqueuing) + 1
  <2>1. /\ IsFiniteSet(Enqueuing \cup {k})
        /\ Cardinality(Enqueuing \cup {k}) =
             IF k \in Enqueuing THEN Cardinality(Enqueuing) ELSE Cardinality(Enqueuing) + 1
    BY <1>3, FS_AddElement
  <2>2. Cardinality(Enqueuing') <= Cardinality(Enqueuing \cup {k})
    BY <1>5, <2>1, FS_Subset
  <2> QED BY <1>4, <2>1, <2>2
<1>8. ASSUME x.at # "enqueue", task[k].at = "enqueue"
      PROVE  Cardinality(Enqueuing') + 1 <= Cardinality(Enqueuing)
  <2>1. Enqueuing' = Enqueuing \ {k} /\ k \in Enqueuing
    BY <1>1, <1>8 DEF Enqueuing
  <2>2. Cardinality(Enqueuing \ {k}) = Cardinality(Enqueuing) - 1
    BY <1>3, <2>1, FS_RemoveElement
  <2> QED BY <1>4, <2>1, <2>2
<1> QED BY <1>3, <1>4, <1>6, <1>7, <1>8

(* A claim in flight after the step is the mover's, or was there and not its. *)
ClaimsKept(k, x) ==
    watcherStopped \/ \A y \in inFlight' : y.id = x.id \/ (y \in inFlight /\ y.id # task[k].id)

(* The queue near its cap: no step adds to the sum, but one that found room. *)
LEMMA CapMoves ==
    ASSUME Shape, Shape', CapInv, NEW k \in Tasks, NEW x, Goes(k, x), UNCHANGED life,
           ClaimsKept(k, x),
           watcherStopped => Cardinality(inFlight') <= Cardinality(inFlight),
           \/ Cardinality(queued') + Cardinality(inFlight') + Cardinality(Enqueuing')
                 <= Cardinality(queued) + Cardinality(inFlight) + Cardinality(Enqueuing)
           \/ Cardinality(queued') < RetryCap
    PROVE  CapInv'
<1> DEFINE T == Cardinality(Tasks)
<1>1. /\ task \in [Tasks -> Task] /\ crashes \in Nat
      /\ UNCHANGED <<watcherStopped, crashes>>
  BY DurableAssumption DEF Shape, TypeOK, life
<1>2. /\ task'[k] = x /\ \A j \in Tasks : j # k => task'[j] = task[j]
  BY <1>1, Moved
<1>3. /\ T \in Nat /\ crashes * T \in Nat
      /\ (crashes + 1) * T = crashes * T + T /\ (crashes + 2) * T = crashes * T + T + T
  BY <1>1, TimesTasks
<1>4. /\ IsFiniteSet(inFlight) /\ IsFiniteSet(inFlight') /\ IsFiniteSet(queued) /\ IsFiniteSet(queued')
      /\ \A y, z \in inFlight' : y.id = z.id => y = z
  BY DEF Shape, QueueSound
<1>5. /\ Cardinality(inFlight) \in Nat /\ Cardinality(inFlight') \in Nat
      /\ Cardinality(queued) \in Nat /\ Cardinality(queued') \in Nat
  BY <1>4, FS_CardinalityType
<1>6. Cardinality(Enqueuing') <= T /\ Cardinality(Enqueuing) \in Nat /\ Cardinality(Enqueuing') \in Nat
  BY <1>1, EnqueuingMoves
<1>7. ASSUME ~watcherStopped
      PROVE  /\ Cardinality(Orphans') <= crashes * T
             /\ Cardinality(inFlight') <= crashes * T + T
  <2>1. Orphans' \in SUBSET Orphans
    <3> SUFFICES ASSUME NEW y \in Orphans' PROVE y \in Orphans
      OBVIOUS
    <3>1. y \in inFlight' /\ \A j \in Tasks : task'[j].id # y.id
      BY DEF Orphans
    <3>2. y \in inFlight /\ y.id # task[k].id
      BY <1>2, <1>7, <3>1 DEF ClaimsKept
    <3> QED BY <1>2, <3>1, <3>2 DEF Orphans
  <2>2. IsFiniteSet(Orphans)
    BY <1>4, FS_Subset DEF Orphans
  <2>3. IsFiniteSet(Orphans') /\ Cardinality(Orphans') <= Cardinality(Orphans)
    BY <2>1, <2>2, FS_Subset
  <2>4. Cardinality(Orphans) \in Nat /\ Cardinality(Orphans') \in Nat
    BY <2>2, <2>3, FS_CardinalityType
  <2>5. Cardinality(Orphans') <= crashes * T
    BY <1>3, <1>7, <2>3, <2>4 DEF CapInv
  <2>6. Cardinality(inFlight') <= Cardinality(Orphans') + T
    <3>1. Orphans' = {y \in inFlight' : \A j \in Tasks : task'[j].id # y.id}
      BY DEF Orphans
    <3> QED BY <1>4, <3>1, OwnedAtMost
  <2> QED BY <1>3, <1>5, <2>4, <2>5, <2>6
<1>8. Cardinality(inFlight') <= crashes * T + T
  BY <1>3, <1>5, <1>7 DEF CapInv
<1>9. RetryCap \in Nat
  BY DurableAssumption DEF RetryCap
<1> HIDE DEF T
<1>10. Cardinality(queued') + Cardinality(inFlight') + Cardinality(Enqueuing') < RetryCap + (crashes * T + T + T)
  <2>1. CASE Cardinality(queued') < RetryCap
    BY <1>3, <1>5, <1>6, <1>8, <1>9, <2>1
  <2>2. CASE Cardinality(queued') + Cardinality(inFlight') + Cardinality(Enqueuing')
                 <= Cardinality(queued) + Cardinality(inFlight) + Cardinality(Enqueuing)
    <3>1. Cardinality(queued) + Cardinality(inFlight) + Cardinality(Enqueuing) < RetryCap + (crashes * T + T + T)
      BY <1>3 DEF CapInv, QueueNearCap, T
    <3> QED BY <1>3, <1>5, <1>6, <1>9, <2>2, <3>1
  <2> QED BY <2>1, <2>2
<1>11. QueueNearCap'
  BY <1>1, <1>3, <1>10 DEF QueueNearCap, T
<1>12. Cardinality(inFlight') <= (crashes' + 1) * T
  BY <1>1, <1>3, <1>8
<1> QED BY <1>1, <1>7, <1>11, <1>12 DEF CapInv, T

(* A chain in one place: queued again only by the call that worked on it,    *)
(* which then does so no more, and taken up only when it is free.            *)
LEMMA OnePlaceMoves ==
    ASSUME Shape, OnePlaceInv, NEW k \in Tasks, NEW x, Goes(k, x), UNCHANGED life,
           expired => expired', ClaimsKept(k, x),
           ~expired' /\ crashes = 0 =>
             /\ \A z \in queued' : \/ z \in queued
                                   \/ Working(task[k]) /\ Chained(task[k], z.data.chain) /\ ~Working(x)
             /\ \A y, z \in queued' : y \notin queued /\ z \notin queued => y = z
             /\ \A c \in delivered' :
                  \/ c \in delivered
                  \/ Working(task[k]) /\ Chained(task[k], c) /\ ~Working(x) /\ queued' \subseteq queued
             /\ \A c : Working(x) /\ Chained(x, c) =>
                  \/ Working(task[k]) /\ Chained(task[k], c)
                  \/ /\ c \notin delivered' /\ \A z \in queued' : z.data.chain # c
                     /\ \A j \in Tasks : j # k => ~(Working(task[j]) /\ Chained(task[j], c))
    PROVE  OnePlaceInv'
<1>1. /\ task \in [Tasks -> Task] /\ UNCHANGED <<watcherStopped, crashes>>
  BY DEF Shape, TypeOK, life
<1>2. /\ task'[k] = x /\ \A j \in Tasks : j # k => task'[j] = task[j]
  BY <1>1, Moved
<1> DEFINE On(y, c) == Working(y) /\ Chained(y, c)
<1> SUFFICES ASSUME ~expired', crashes = 0 PROVE OnePlace'
  BY <1>1 DEF OnePlaceInv, Shape, TypeOK
<1>3. OnePlace /\ ~expired
  BY DEF OnePlaceInv
<1>4. /\ \A i, j \in Tasks : \A c \in Chains : On(task[i], c) /\ On(task[j], c) => i = j
      /\ \A j \in Tasks : \A c \in delivered : ~On(task[j], c)
      /\ \A z \in queued : z.data.chain \notin delivered
      /\ \A z \in queued, j \in Tasks : ~On(task[j], z.data.chain)
      /\ \A y, z \in queued : y.data.chain = z.data.chain => y = z
      /\ watcherStopped \/ Orphans = {}
  BY <1>3 DEF OnePlace
<1>5. /\ \A z \in queued' : z \in queued \/ (On(task[k], z.data.chain) /\ ~Working(x))
      /\ \A y, z \in queued' : y \notin queued /\ z \notin queued => y = z
      /\ \A c \in delivered' : c \in delivered \/ (On(task[k], c) /\ ~Working(x) /\ queued' \subseteq queued)
      /\ \A c : On(x, c) =>
            \/ On(task[k], c)
            \/ /\ c \notin delivered' /\ \A z \in queued' : z.data.chain # c
               /\ \A j \in Tasks : j # k => ~On(task[j], c)
  OBVIOUS
<1>6. \A c : On(x, c) => Working(x)
  OBVIOUS
<1> HIDE DEF On
<1>7. \A i, j \in Tasks : \A c \in Chains : On(task'[i], c) /\ On(task'[j], c) => i = j
  BY <1>2, <1>4, <1>5
<1>8. \A j \in Tasks : \A c \in delivered' : ~On(task'[j], c)
  <2>1. \A c \in delivered' : c \in Chains \/ c \in delivered
    <3>1. \A j \in Tasks : \A c : On(task[j], c) => c \in Chains
      BY <1>1 DEF On, Chained, Task, Retry
    <3> QED BY <1>5, <3>1
  <2>2. delivered \subseteq Chains
    BY DEF Shape, TypeOK
  <2> QED BY <1>2, <1>4, <1>5, <1>6, <2>1, <2>2
<1>9. \A z \in queued' : z.data.chain \notin delivered'
  BY <1>4, <1>5
<1>10. \A z \in queued', j \in Tasks : ~On(task'[j], z.data.chain)
  <2>1. \A z \in queued' : z \in queued \/ z.data.chain \in Chains
    <3>1. \A c : On(task[k], c) => c \in Chains
      BY <1>1 DEF On, Chained, Task, Retry
    <3> QED BY <1>5, <3>1
  <2>2. \A z \in queued : z.data.chain \in Chains
    <3>1. MapsTyped
      BY DEF Shape, TypeOK, MapsTyped
    <3> QED BY <3>1, Fields
  <2> QED BY <1>2, <1>4, <1>5, <1>6, <2>1, <2>2
<1>11. \A y, z \in queued' : y.data.chain = z.data.chain => y = z
  BY <1>4, <1>5
<1>12. watcherStopped' \/ Orphans' = {}
  <2> SUFFICES ASSUME ~watcherStopped, NEW y \in Orphans' PROVE FALSE
    BY <1>1
  <2>1. y \in inFlight' /\ \A j \in Tasks : task'[j].id # y.id
    BY DEF Orphans
  <2>2. y \in inFlight /\ y.id # task[k].id
    BY <1>2, <2>1 DEF ClaimsKept
  <2>3. y \in Orphans
    BY <1>2, <2>1, <2>2 DEF Orphans
  <2> QED BY <1>4, <2>3
<1> USE DEF On
<1>13. \A j \in Tasks, c \in Chains \cup delivered' : On(task[j], c)' <=> Working(task'[j]) /\ Chained(task'[j], c)
  BY DEF Working, Chained
<1> QED BY <1>7, <1>8, <1>9, <1>10, <1>11, <1>12 DEF OnePlace, Working, Chained

-----------------------------------------------------------------------------
(* A call that is over, or moves on in its code, stays sound.                *)
LEMMA IdleSound ==
    ASSUME enqueued' \in Nat, now' \in Nat
    PROVE  TaskSound(Idle)'
<1>1. /\ Idle.at = "idle" /\ Idle.kind = "none" /\ Idle.retry = {} /\ Idle.id = 0 /\ Idle.nowMs = 0
  BY IdleFields
<1>2. PICK x : x = Idle
  OBVIOUS
<1>3. x.at = "idle" /\ x.kind = "none" /\ x.retry = {} /\ x.id = 0 /\ x.nowMs = 0
  BY <1>1, <1>2
<1>4. TaskSound(x)'
  BY <1>3 DEF TaskSound
<1> QED BY <1>2, <1>4 DEF Idle

(* What a call that moves on keeps of its part of the invariant.             *)
LEMMA MovesOnSound ==
    ASSUME Shape, NEW k \in Tasks, NEW s \in Stops, NEW x, x = [task[k] EXCEPT !.at = s],
           task[k].at # "idle", s \notin {"idle", "dequeue"},
           s \in {"size", "evict", "enqueue"} => task[k].kind \in {"first", "drain"},
           s \in {"nack", "ackThenFail"} => task[k].kind = "poll",
           s = "nack" => task[k].retry # {},
           enqueued <= enqueued', enqueued' \in Nat, now' = now,
           \A c \in Chains : tries[c] > 0 => tries'[c] > 0,
           \A h \in Holdings' : h \in Holdings \/ h[1] > enqueued
    PROVE  /\ x \in Task /\ x.at = s /\ x.kind = task[k].kind /\ x.retry = task[k].retry
           /\ x.id = task[k].id /\ x.drop = task[k].drop /\ TaskSound(x)'
<1>1. /\ task[k] \in Task /\ enqueued \in Nat
  BY DurableAssumption DEF Shape, TypeOK
<1>2. /\ x \in Task /\ x.at = s /\ x.kind = task[k].kind /\ x.retry = task[k].retry
      /\ x.id = task[k].id /\ x.nowMs = task[k].nowMs /\ x.drop = task[k].drop
  BY <1>1, AtMoves
<1>3. TaskSound(task[k])
  BY DEF Shape, TasksSound
<1>4. task[k].id \in Nat /\ \A r \in task[k].retry : r.chain \in Chains
  BY <1>1 DEF Task, Retry
<1>5. x.id <= enqueued' /\ x.nowMs <= now'
  BY <1>1, <1>2, <1>3, <1>4 DEF TaskSound
<1>6. \A r, q \in x.retry : r = q
  BY <1>2, <1>3 DEF TaskSound
<1>7. \A r \in x.retry : tries'[r.chain] > 0
  BY <1>2, <1>3, <1>4 DEF TaskSound
<1>8. \A h \in Holdings' : h[1] = x.id => h \in Holdings
  BY <1>1, <1>2, <1>3, <1>4 DEF TaskSound
<1>9. \A r \in x.retry, h \in Holdings' : h[1] = x.id => h[2] = r.chain
  BY <1>2, <1>3, <1>8 DEF TaskSound
<1>10. TaskSound(x)'
  BY <1>2, <1>3, <1>5, <1>6, <1>7, <1>9 DEF TaskSound
<1> QED BY <1>2, <1>10

(* A step of a call that leaves the queue alone.                             *)
LEMMA CallMoves ==
    ASSUME DurableInv, NEW k \in Tasks, NEW x \in Task, Goes(k, x),
           UNCHANGED <<queueVars, now, enqueued, life, persisted, shed, expired>>,
           drainTimers' \subseteq Nat, tries' \in [Chains -> Nat],
           \A c \in Chains : tries[c] > 0 => tries'[c] > 0,
           delivered \subseteq delivered', finished \subseteq finished',
           deadLettered \subseteq deadLettered',
           delivered' \subseteq Chains, finished' \subseteq Chains, deadLettered' \subseteq Chains,
           TaskSound(x)', ~Settling(task[k]), task[k].at # "enqueue",
           \A c \in delivered' : \/ c \in delivered
                                 \/ tries[c] > 0 /\ Working(task[k]) /\ Chained(task[k], c) /\ ~Working(x),
           Settling(x) => everStopped \/ \A h \in Holdings : h[1] = x.id => h[2] \in Settled',
           \A c \in finished' : c \in finished \/ c \in deadLettered' \/ WillRecord(x, c),
           watcherStopped \/ x.id = task[k].id \/ task[k].id = 0,
           x.at = "enqueue" => Cardinality(queued) < RetryCap,
           crashes = 0 => \A c : Working(x) /\ Chained(x, c) =>
                  \/ Working(task[k]) /\ Chained(task[k], c)
                  \/ /\ c \notin delivered' /\ \A z \in queued : z.data.chain # c
                     /\ \A j \in Tasks : j # k => ~(Working(task[j]) /\ Chained(task[j], c))
    PROVE  DurableInv'
<1>1. Shape /\ SparedInv /\ RecordInv /\ CapInv /\ OnePlaceInv
  BY DEF DurableInv
<1>2. /\ UNCHANGED <<queued, inFlight, seq, everStopped, watcherStopped, crashes>>
      /\ enqueued \in Nat /\ task \in [Tasks -> Task] /\ x.id \in Nat
  BY <1>1, DurableAssumption DEF queueVars, life, Shape, TypeOK, Task
<1>3. /\ MapsTyped /\ QueueSound
  BY <1>1 DEF Shape, TypeOK, MapsTyped
<1>4. MapsTyped' /\ QueueSound' /\ Holdings' = Holdings
  BY <1>2, <1>3 DEF MapsTyped, QueueSound, Holdings
<1>5. Shape'
  <2>1. \A c \in delivered' : c \in delivered \/ tries'[c] > 0
    OBVIOUS
  <2>2. /\ persisted' \subseteq Chains /\ shed' \subseteq Chains /\ expired' \in BOOLEAN
    BY <1>1 DEF Shape, TypeOK
  <2> QED BY <1>1, <1>2, <1>4, <2>1, <2>2, ShapeMoves
<1>6. SparedInv'
  <2>1. Settled \subseteq Settled'
    BY DEF Settled
  <2>2. x.id <= enqueued
    BY DEF TaskSound
  <2> QED BY <1>1, <1>2, <1>4, <2>1, <2>2, SparedMoves
<1>7. RecordInv'
  <2>1. \A c : ~WillRecord(task[k], c)
    BY DEF WillRecord, Settling
  <2> QED BY <1>1, <1>2, <2>1, RecordMoves
<1>8. ClaimsKept(k, x)
  <2>1. \A y \in inFlight : y.id # 0
    BY <1>3, Fields
  <2> QED BY <1>2, <2>1 DEF ClaimsKept
<1>9. CapInv'
  <2>1. /\ x.at # "enqueue" => Cardinality(Enqueuing') <= Cardinality(Enqueuing)
        /\ Cardinality(Enqueuing) \in Nat /\ Cardinality(Enqueuing') \in Nat
    BY <1>2, EnqueuingMoves
  <2>2. Cardinality(queued) \in Nat /\ Cardinality(inFlight) \in Nat
    BY <1>3, FS_CardinalityType DEF QueueSound
  <2>3. Cardinality(queued') = Cardinality(queued) /\ Cardinality(inFlight') = Cardinality(inFlight)
    BY <1>2
  <2>4. \/ Cardinality(queued') + Cardinality(inFlight') + Cardinality(Enqueuing')
              <= Cardinality(queued) + Cardinality(inFlight) + Cardinality(Enqueuing)
        \/ Cardinality(queued') < RetryCap
    BY <2>1, <2>2, <2>3
  <2>5. watcherStopped => Cardinality(inFlight') <= Cardinality(inFlight)
    BY <2>2, <2>3
  <2> QED BY <1>1, <1>5, <1>8, <2>4, <2>5, CapMoves
<1>10. OnePlaceInv'
  <2>1. queued' \subseteq queued /\ \A z \in queued' : z \in queued
    BY <1>2
  <2> QED BY <1>1, <1>2, <1>8, <2>1, OnePlaceMoves
<1> QED BY <1>5, <1>6, <1>7, <1>9, <1>10 DEF DurableInv

(* A call begins an attempt.                                                 *)
LEMMA AttemptingFields ==
    ASSUME now \in Nat, NEW kind \in Kinds, NEW r \in Retry, NEW i \in Nat, NEW t \in Nat,
           NEW x, x = Attempting(kind, r, i, t)
    PROVE  /\ x \in Task /\ x.kind = kind /\ x.at = "attempt" /\ x.retry = {r} /\ x.id = i
           /\ x.nowMs = t /\ x.drop = {}
BY DEF Attempting, Task, Stops

(* The count of attempts only grows.                                         *)
LEMMA TriedGrows ==
    ASSUME tries \in [Chains -> Nat], NEW c \in Chains, Tried(c)
    PROVE  /\ tries' \in [Chains -> Nat] /\ tries'[c] > 0
           /\ \A d \in Chains : tries[d] > 0 => tries'[d] > 0
<1>1. Retries \in Nat
  BY DurableAssumption
<1> QED BY <1>1 DEF Tried

(* The first attempt of a delivery: its chain is nowhere yet.                *)
LEMMA FirstAttemptKeeps ==
    ASSUME DurableInv, NEW k \in Tasks, NEW c \in Chains, FirstAttempt(k, c)
    PROVE  DurableInv'
<1>1. /\ TypeOK /\ TasksSound /\ TriedSound
  BY DEF DurableInv, Shape
<1>2. PICK r : r = [chain |-> c, attempt |-> 1]
  OBVIOUS
<1>3. r \in Retry /\ r.chain = c
  BY <1>2 DEF Retry
<1>4. PICK x : x = Attempting("first", r, 0, 0)
  OBVIOUS
<1>5. Goes(k, x) /\ task[k] = Idle /\ tries[c] = 0 /\ Tried(c)
  BY <1>2, <1>4 DEF FirstAttempt
<1>6. now \in Nat /\ tries \in [Chains -> Nat] /\ enqueued \in Nat
  BY <1>1, DurableAssumption DEF TypeOK
<1>7. /\ x \in Task /\ x.kind = "first" /\ x.at = "attempt" /\ x.retry = {r} /\ x.id = 0
      /\ x.nowMs = 0
  BY <1>3, <1>4, <1>6, AttemptingFields DEF Kinds
<1>8. /\ tries' \in [Chains -> Nat] /\ tries'[c] > 0
      /\ \A d \in Chains : tries[d] > 0 => tries'[d] > 0
  BY <1>5, <1>6, TriedGrows
<1>9. UNCHANGED <<queueVars, now, enqueued, drainTimers, life, persisted, delivered, finished, shed,
                  expired, deadLettered>>
  BY DEF FirstAttempt
<1>10. Holdings' = Holdings /\ \A h \in Holdings : h[1] # 0
  <2>1. Holdings' = Holdings
    BY <1>9 DEF Holdings, queueVars
  <2>2. MapsTyped
    BY <1>1 DEF TypeOK, MapsTyped
  <2>3. \A z \in queued \cup inFlight : z.id # 0
    BY <2>2, Fields
  <2> QED BY <2>1, <2>3 DEF Holdings, Holding
<1>11. TaskSound(x)'
  BY <1>3, <1>6, <1>7, <1>8, <1>9, <1>10 DEF TaskSound
<1>12. /\ c \notin delivered /\ \A z \in queued : z.data.chain # c
       /\ \A j \in Tasks : ~Chained(task[j], c)
  <2>1. \A h \in Holdings : h[2] # c
    BY <1>1, <1>5 DEF TriedSound
  <2>2. \A z \in queued : z.data.chain # c
    <3> SUFFICES ASSUME NEW z \in queued PROVE z.data.chain # c
      OBVIOUS
    <3>1. PICK h : h = <<z.id, z.data.chain>>
      OBVIOUS
    <3>2. h \in Holdings /\ h[2] = z.data.chain
      BY <3>1 DEF Holdings, Holding
    <3> QED BY <2>1, <3>2
  <2> QED BY <1>1, <1>5, <2>2 DEF TriedSound, TasksSound, TaskSound, Chained
<1>13. \A d : Chained(x, d) => d = c
  BY <1>3, <1>7 DEF Chained
<1>14. task[k].at = "idle" /\ task[k].id = 0
  BY <1>5, IdleFields
<1>15. ~Settling(task[k]) /\ ~Settling(x)
  BY <1>7, <1>14 DEF Settling
<1>16. /\ drainTimers' \subseteq Nat /\ delivered' \subseteq Chains /\ finished' \subseteq Chains
       /\ deadLettered' \subseteq Chains
  BY <1>1, <1>9 DEF TypeOK
<1> QED BY <1>5, <1>7, <1>8, <1>9, <1>11, <1>12, <1>13, <1>14, <1>15, <1>16, CallMoves

(* A drain begins, or takes up its loop again.                               *)
Draining(t) == [Idle EXCEPT !.kind = "drain", !.at = "dequeue", !.nowMs = t]

(* It has nothing in hand.                                                   *)
LEMMA DrainingFields ==
    ASSUME NEW t \in Nat, NEW x, x = Draining(t)
    PROVE  /\ x \in Task /\ x.kind = "drain" /\ x.at = "dequeue" /\ x.retry = {} /\ x.id = 0
           /\ x.nowMs = t /\ x.drop = {}
BY DEF Draining, Idle, Task, Kinds, Stops

(* A call with nothing in hand goes idle, or begins to drain.                *)
LEMMA EmptyHanded ==
    ASSUME DurableInv, NEW k \in Tasks, NEW x \in Task, Goes(k, x), task[k].at \in {"idle", "dequeue"},
           x.at = "idle" \/ (x.at = "dequeue" /\ x.kind = "drain"), x.id = 0, x.retry = {}, x.nowMs \in Nat, x.nowMs <= now,
           drainTimers' \subseteq drainTimers, UNCHANGED <<queueVars, now, enqueued, life, outcomes>>
    PROVE  DurableInv'
<1>1. /\ TypeOK /\ TasksSound
  BY DEF DurableInv, Shape
<1>2. /\ UNCHANGED <<tries, persisted, delivered, finished, shed, expired, deadLettered>>
  BY DEF outcomes
<1>3. /\ drainTimers' \subseteq Nat /\ tries' \in [Chains -> Nat] /\ delivered' \subseteq Chains
      /\ finished' \subseteq Chains /\ deadLettered' \subseteq Chains /\ enqueued' \in Nat
      /\ \A c \in Chains : tries[c] > 0 => tries'[c] > 0
  BY <1>1, <1>2, DurableAssumption DEF TypeOK
<1>4. TaskSound(x)'
  BY <1>3 DEF TaskSound
<1>5. task[k].id = 0
  BY <1>1 DEF TasksSound, TaskSound
<1>6. ~Settling(task[k]) /\ ~Settling(x) /\ \A c : ~Chained(x, c)
  BY DEF Settling, Chained
<1> QED BY <1>2, <1>3, <1>4, <1>5, <1>6, CallMoves

(* drain() is called, or its timer fires.                                    *)
LEMMA DrainStartKeeps ==
    ASSUME DurableInv, NEW k \in Tasks,
           DrainCalled(k) \/ \E t \in drainTimers : DrainTimerFires(k, t)
    PROVE  DurableInv'
<1>1. now \in Nat
  BY DEF DurableInv, Shape, TypeOK
<1>2. PICK x : x = Draining(now)
  OBVIOUS
<1>3. /\ x \in Task /\ x.at = "dequeue" /\ x.kind = "drain" /\ x.retry = {} /\ x.id = 0 /\ x.nowMs = now
  BY <1>1, <1>2, DrainingFields
<1>4. /\ Goes(k, x) /\ task[k] = Idle /\ drainTimers' \subseteq drainTimers
      /\ UNCHANGED <<queueVars, now, enqueued, life, outcomes>>
  BY <1>2 DEF DrainCalled, DrainTimerFires, StartDrain, Draining
<1> QED BY <1>1, <1>3, <1>4, IdleFields, EmptyHanded

(* The head of the loop once the watcher is stopped.                         *)
LEMMA DrainEndsKeeps ==
    ASSUME DurableInv, NEW k \in Tasks, task[k].at = "dequeue", Goes(k, Idle),
           UNCHANGED <<queueVars, now, enqueued, drainTimers, life, outcomes>>
    PROVE  DurableInv'
<1>1. now \in Nat
  BY DEF DurableInv, Shape, TypeOK
<1> QED BY <1>1, IdleFields, EmptyHanded

(* An attempt is over, and what is awaited next.                             *)
LEMMA AttemptEnds ==
    ASSUME DurableInv, NEW k \in Tasks, NEW s \in Stops, task[k].at = "attempt", GoesTo(k, s),
           s \in {"idle", "ack", "ackThenFail", "nack", "size"},
           s = "size" => task[k].kind \in {"first", "drain"},
           s \in {"nack", "ackThenFail"} => task[k].kind = "poll",
           s = "nack" => task[k].retry # {},
           s = "idle" => watcherStopped \/ task[k].kind \in {"none", "first"},
           UNCHANGED <<queueVars, now, enqueued, drainTimers, life, tries, persisted, shed, expired>>,
           delivered \subseteq delivered', finished \subseteq finished',
           deadLettered \subseteq deadLettered',
           \A c \in (delivered' \ delivered) \cup (finished' \ finished) \cup (deadLettered' \ deadLettered) :
               Chained(task[k], c),
           delivered' = delivered \/ s \in {"idle", "ack"},
           \A c \in finished' \ finished : c \in deadLettered' \/ s = "ackThenFail",
           s \in {"ack", "ackThenFail"} =>
               everStopped \/ \E r \in task[k].retry : r.chain \in delivered' \cup finished'
    PROVE  DurableInv'
<1>1. /\ Shape /\ TypeOK /\ TasksSound /\ task[k] \in Task
  BY DEF DurableInv, Shape, TypeOK
<1>2. \A c : Chained(task[k], c) => c \in Chains /\ tries[c] > 0
  BY <1>1 DEF Chained, Task, Retry, TasksSound, TaskSound
<1>3. /\ drainTimers' \subseteq Nat /\ tries' \in [Chains -> Nat] /\ delivered' \subseteq Chains
      /\ finished' \subseteq Chains /\ deadLettered' \subseteq Chains /\ enqueued' \in Nat
      /\ now' \in Nat /\ enqueued <= enqueued' /\ now' = now
      /\ \A c \in Chains : tries[c] > 0 => tries'[c] > 0
  BY <1>1, <1>2, DurableAssumption DEF TypeOK
<1>4. Holdings' = Holdings
  BY DEF Holdings, queueVars
<1>5. ~Settling(task[k]) /\ Working(task[k]) /\ task[k].at # "enqueue"
  BY DEF Settling, Working
<1>6. ASSUME Goes(k, Idle), s = "idle" PROVE DurableInv'
  <2>1. /\ TaskSound(Idle)' /\ Idle \in Task /\ Idle.at = "idle" /\ Idle.id = 0 /\ Idle.retry = {}
    BY <1>3, IdleSound, IdleFields
  <2>2. ~Settling(Idle) /\ ~Working(Idle)
    BY <2>1 DEF Settling, Working
  <2>3. watcherStopped \/ task[k].id = 0
    BY <1>1, <1>6 DEF TasksSound, TaskSound
  <2>4. \A c \in finished' : c \in finished \/ c \in deadLettered'
    BY <1>6
  <2>5. PICK x : x = Idle
    OBVIOUS
  <2>6. TaskSound(x)' /\ Goes(k, x) /\ x \in Task /\ x.at = "idle" /\ ~Settling(x) /\ ~Working(x)
    BY <1>6, <2>1, <2>2, <2>5 DEF Idle
  <2> QED BY <1>2, <1>3, <1>5, <2>3, <2>4, <2>6, CallMoves
<1>7. ASSUME s # "idle" PROVE DurableInv'
  <2>1. PICK x : x = [task[k] EXCEPT !.at = s]
    OBVIOUS
  <2>2. Goes(k, x)
    BY <1>7, <2>1 DEF GoesTo
  <2>3. /\ x \in Task /\ x.at = s /\ x.kind = task[k].kind /\ x.retry = task[k].retry
        /\ x.id = task[k].id /\ x.drop = task[k].drop /\ TaskSound(x)'
    BY <1>1, <1>3, <1>4, <1>7, <2>1, MovesOnSound
  <2>4. \A c : Chained(x, c) <=> Chained(task[k], c)
    BY <2>3 DEF Chained
  <2>5. \A c \in delivered' : c \in delivered \/ (Chained(task[k], c) /\ ~Working(x))
    BY <1>7, <2>3 DEF Working
  <2>6. Settling(x) => everStopped \/ \A h \in Holdings : h[1] = x.id => h[2] \in Settled'
    <3> SUFFICES ASSUME Settling(x), ~everStopped, NEW h \in Holdings, h[1] = x.id
                 PROVE  h[2] \in Settled'
      OBVIOUS
    <3>1. \A r \in task[k].retry : h[2] = r.chain
      BY <1>1, <2>3 DEF TasksSound, TaskSound
    <3>2. PICK r \in task[k].retry : r.chain \in delivered' \cup finished'
      BY <2>3 DEF Settling
    <3> QED BY <3>1, <3>2 DEF Settled
  <2>7. \A c \in finished' : c \in finished \/ c \in deadLettered' \/ WillRecord(x, c)
    BY <2>3, <2>4 DEF WillRecord, Chained
  <2> QED BY <1>2, <1>3, <1>5, <2>2, <2>3, <2>4, <2>5, <2>6, <2>7, CallMoves
<1> QED BY <1>6, <1>7 DEF GoesTo

(* What each way an attempt can end asks of the above.                       *)
LEMMA AttemptEndsKeep ==
    ASSUME DurableInv, NEW k \in Tasks,
           AttemptSucceeds(k) \/ AttemptAbandoned(k) \/ AttemptFails(k) \/ AttemptFinal(k)
    PROVE  DurableInv'
<1>1. /\ task[k] \in Task /\ task[k].kind \in Kinds /\ (watcherStopped => everStopped)
  BY DEF DurableInv, Shape, TypeOK, TriedSound, Task
<1>2. \A r \in task[k].retry : Chained(task[k], r.chain)
  BY DEF Chained
<1>3. CASE AttemptSucceeds(k)
  <2>1. PICK s : s = IF task[k].kind # "poll" THEN AfterDelivery(k)
                     ELSE IF watcherStopped THEN "idle" ELSE "ack"
    OBVIOUS
  <2>2. /\ s \in Stops /\ s \in {"idle", "ack"}
        /\ s = "idle" => watcherStopped \/ task[k].kind \in {"none", "first"}
    BY <1>1, <2>1 DEF AfterDelivery, Stops, Kinds
  <2>3. PICK r \in task[k].retry : delivered' = delivered \cup {r.chain}
    BY <1>3 DEF AttemptSucceeds
  <2>4. /\ task[k].at = "attempt" /\ GoesTo(k, s)
        /\ UNCHANGED <<queueVars, now, enqueued, drainTimers, life, tries, persisted, shed, expired,
                       finished, deadLettered>>
    BY <1>3, <2>1 DEF AttemptSucceeds
  <2> QED BY <1>2, <2>2, <2>3, <2>4, AttemptEnds
<1>4. CASE AttemptAbandoned(k)
  <2>1. PICK s : s = IF task[k].kind = "poll" THEN "idle" ELSE AfterDelivery(k)
    OBVIOUS
  <2>2. s \in Stops /\ s \in {"idle", "ack"}
    BY <2>1 DEF AfterDelivery, Stops
  <2>3. /\ task[k].at = "attempt" /\ GoesTo(k, s) /\ watcherStopped
        /\ UNCHANGED <<queueVars, now, enqueued, drainTimers, life, outcomes>>
    BY <1>4, <2>1 DEF AttemptAbandoned
  <2>4. UNCHANGED <<tries, persisted, delivered, finished, shed, expired, deadLettered>>
    BY <2>3 DEF outcomes
  <2> QED BY <1>1, <2>2, <2>3, <2>4, AttemptEnds
<1>7. task[k].at = "attempt" => task[k].kind # "none"
  BY DEF DurableInv, Shape, TasksSound, TaskSound
<1>5. CASE AttemptFails(k)
  <2>1. PICK s : s = AfterFailure(k)
    OBVIOUS
  <2>2. /\ s \in Stops /\ s \in {"nack", "size"}
        /\ s = "size" => task[k].kind \in {"first", "drain"}
        /\ s = "nack" => task[k].kind = "poll"
    BY <1>1, <1>5, <1>7, <2>1 DEF AttemptFails, AfterFailure, Stops, Kinds
  <2>3. /\ task[k].at = "attempt" /\ GoesTo(k, s) /\ task[k].retry # {}
        /\ UNCHANGED <<queueVars, now, enqueued, drainTimers, life, outcomes>>
    BY <1>5, <2>1 DEF AttemptFails
  <2>4. UNCHANGED <<tries, persisted, delivered, finished, shed, expired, deadLettered>>
    BY <2>3 DEF outcomes
  <2> QED BY <2>2, <2>3, <2>4, AttemptEnds
<1>6. CASE AttemptFinal(k)
  <2>1. PICK s : s = IF task[k].kind = "poll" THEN "ackThenFail" ELSE AfterDelivery(k)
    OBVIOUS
  <2>2. /\ s \in Stops /\ s \in {"idle", "ack", "ackThenFail"}
        /\ s = "idle" => task[k].kind \in {"none", "first"}
        /\ s = "ackThenFail" <=> task[k].kind = "poll"
    BY <1>1, <2>1 DEF AfterDelivery, Stops, Kinds
  <2>3. PICK r \in task[k].retry :
          /\ finished' = finished \cup {r.chain}
          /\ deadLettered' = IF task[k].kind = "poll" THEN deadLettered ELSE deadLettered \cup {r.chain}
    BY <1>6 DEF AttemptFinal
  <2>4. /\ task[k].at = "attempt" /\ GoesTo(k, s)
        /\ UNCHANGED <<queueVars, now, enqueued, drainTimers, life, tries, persisted, delivered, shed, expired>>
    BY <1>6, <2>1 DEF AttemptFinal
  <2> QED BY <1>2, <2>2, <2>3, <2>4, AttemptEnds
<1> QED BY <1>3, <1>4, <1>5, <1>6

(* persistRetry reads the size: whoever goes on to enqueue found room.       *)
LEMMA ReadSizeKeeps ==
    ASSUME DurableInv, NEW k \in Tasks, ReadSize(k)
    PROVE  DurableInv'
<1>1. /\ Shape /\ TypeOK /\ TasksSound /\ task[k] \in Task
  BY DEF DurableInv, Shape, TypeOK
<1>2. PICK s : s = IF AtCap THEN "evict" ELSE "enqueue"
  OBVIOUS
<1>3. PICK x : x = [task[k] EXCEPT !.at = s]
  OBVIOUS
<1>4. /\ task[k].at = "size" /\ Goes(k, x) /\ s \in {"evict", "enqueue"} /\ s \in Stops
      /\ UNCHANGED <<queueVars, now, enqueued, drainTimers, life, outcomes>>
  BY <1>2, <1>3 DEF ReadSize, GoesTo, Stops
<1>5. UNCHANGED <<tries, persisted, delivered, finished, shed, expired, deadLettered>>
  BY <1>4 DEF outcomes
<1>6. /\ drainTimers' \subseteq Nat /\ tries' \in [Chains -> Nat] /\ delivered' \subseteq Chains
      /\ finished' \subseteq Chains /\ deadLettered' \subseteq Chains /\ enqueued' \in Nat
      /\ now' = now /\ enqueued <= enqueued'
      /\ \A c \in Chains : tries[c] > 0 => tries'[c] > 0
  BY <1>1, <1>4, <1>5, DurableAssumption DEF TypeOK
<1>7. Holdings' = Holdings
  BY <1>4 DEF Holdings, queueVars
<1>8. task[k].kind \in {"first", "drain"}
  BY <1>1, <1>4 DEF TasksSound, TaskSound
<1>9. /\ x \in Task /\ x.at = s /\ x.retry = task[k].retry /\ x.id = task[k].id /\ TaskSound(x)'
  BY <1>1, <1>3, <1>4, <1>6, <1>7, <1>8, MovesOnSound
<1>10. s = "enqueue" => Cardinality(queued) < RetryCap
  <2>1. Cardinality(queued) \in Nat /\ RetryCap \in Nat
    BY <1>1, FS_CardinalityType, DurableAssumption DEF Shape, QueueSound, RetryCap
  <2> QED BY <1>2, <2>1, SameCount DEF AtCap, Queue!Size
<1>11. ~Settling(task[k]) /\ ~Settling(x) /\ Working(task[k])
  BY <1>4, <1>9 DEF Settling, Working
<1>12. \A c : Chained(x, c) <=> Chained(task[k], c)
  BY <1>9 DEF Chained
<1> QED BY <1>4, <1>5, <1>6, <1>9, <1>10, <1>11, <1>12, CallMoves

(* What the queue holds, by id.                                              *)
LEMMA HoldingsSound ==
    ASSUME MapsTyped, QueueSound
    PROVE  /\ \A h \in Holdings : h[1] \in Nat /\ h[1] # 0 /\ h[1] <= enqueued /\ h[2] \in Chains
           /\ \A g, h \in Holdings : g[1] = h[1] => g[2] = h[2]
           /\ \A z \in queued \cup inFlight :
                 \E h \in Holdings : h = <<z.id, z.data.chain>> /\ h[1] = z.id /\ h[2] = z.data.chain
<1>1. \A z \in queued \cup inFlight : z.id \in 1..MaxRecords /\ z.data.chain \in Chains /\ z.id <= enqueued
  BY Fields DEF QueueSound
<1>2. \A z \in queued \cup inFlight :
         \E h \in Holdings : h = <<z.id, z.data.chain>> /\ h[1] = z.id /\ h[2] = z.data.chain
  <2> SUFFICES ASSUME NEW z \in queued \cup inFlight
               PROVE  \E h \in Holdings : /\ h = <<z.id, z.data.chain>>
                                          /\ h[1] = z.id /\ h[2] = z.data.chain
    OBVIOUS
  <2>1. PICK h : h = <<z.id, z.data.chain>>
    OBVIOUS
  <2>2. h \in Holdings
    BY <2>1 DEF Holdings, Holding
  <2> QED BY <2>1, <2>2
<1>3. \A h \in Holdings : \E z \in queued \cup inFlight : h[1] = z.id /\ h[2] = z.data.chain
  BY DEF Holdings, Holding
<1>4. \A y, z \in queued \cup inFlight : y.id = z.id => y.data.chain = z.data.chain
  BY DEF QueueSound
<1>5. \A h \in Holdings : h[1] \in Nat /\ h[1] # 0 /\ h[1] <= enqueued /\ h[2] \in Chains
  BY <1>1, <1>3, DurableAssumption
<1>6. \A g, h \in Holdings : g[1] = h[1] => g[2] = h[2]
  BY <1>3, <1>4
<1> QED BY <1>2, <1>5, <1>6

(* A call dequeues: within the timeout the record it is handed was queued,   *)
(* and nobody else has its chain.                                            *)
LEMMA TakesOneKeeps ==
    ASSUME DurableInv, NEW k \in Tasks, NEW kind \in {"poll", "drain"}, NEW t \in Nat, t <= now,
           ~watcherStopped, task[k].at \in {"idle", "dequeue"}, TakesOne(k, kind, t)
    PROVE  DurableInv'
<1>1. Shape /\ SparedInv /\ RecordInv /\ CapInv /\ OnePlaceInv
  BY DEF DurableInv
<1>2. /\ TypeOK /\ QueueSound /\ TasksSound /\ MapsTyped /\ now \in Nat /\ enqueued \in Nat
      /\ tries \in [Chains -> Nat] /\ task \in [Tasks -> Task]
  BY <1>1, DurableAssumption DEF Shape, TypeOK, MapsTyped
<1>3. PICK Q \in Queue!AfterReclaim(t) :
        /\ Queue!DequeueOp(Q, t)
        /\ \/ /\ Queue!HandsOut(Q, t) = {}
              /\ Goes(k, Idle)
              /\ UNCHANGED tries
           \/ \E y \in Queue!HandsOut(Q, t) :
                /\ Goes(k, Attempting(kind, y.data, y.id, t))
                /\ Tried(y.data.chain)
  BY DEF TakesOne
<1>4. /\ UNCHANGED <<now, enqueued, drainTimers, life, persisted, delivered, finished, shed, deadLettered>>
      /\ expired' = (expired \/ \E j \in Tasks : task[j].id \in {z.id : z \in Queue!Expired(now)})
  BY DEF TakesOne
<1> DEFINE H == Queue!HandsOut(Q, t)
<1>5. /\ MapsTyped' /\ QueueSound' /\ Holdings' = Holdings
      /\ \A y \in H : y \in Queue!Claims /\ <<y.id, y.data.chain>> \in Holdings
      /\ \A y \in inFlight' : y \in inFlight \/ y \in H
      /\ Cardinality(queued') + Cardinality(inFlight') <= Cardinality(queued) + Cardinality(inFlight)
      /\ Queue!Expired(t) = {} =>
           /\ queued' \subseteq queued
           /\ \A y \in H : \E z \in queued \ queued' : z.id = y.id /\ z.data = y.data
  BY <1>2, <1>3, <1>4, DequeueMoves
<1>6. \A y, z \in H : y.id = z.id
  <2>1. \A a, b \in Queue!DueFirst(Q, t) : a = b
    <3>1. Q \subseteq Queue!Queued
      BY <1>2, ReclaimKeeps
    <3> SUFFICES ASSUME NEW a \in Queue!DueFirst(Q, t), NEW b \in Queue!DueFirst(Q, t), a # b PROVE FALSE
      OBVIOUS
    <3>2. Queue!Earlier(a, b) /\ Queue!Earlier(b, a) /\ a \in Q /\ b \in Q
      BY DEF Queue!DueFirst
    <3>3. a.due \in Nat /\ b.due \in Nat /\ a.seq \in Nat /\ b.seq \in Nat
      BY <3>1, <3>2 DEF Queue!Queued
    <3> QED BY <3>2, <3>3 DEF Queue!Earlier
  <2> QED BY <2>1 DEF Queue!HandsOut
<1>7. \E x : /\ Goes(k, x)
             /\ \/ x = Idle /\ H = {} /\ tries' = tries
                \/ \E y \in H : x = Attempting(kind, y.data, y.id, t) /\ Tried(y.data.chain)
  BY <1>3
<1> HIDE DEF H
<1>8. PICK x : /\ Goes(k, x)
               /\ \/ x = Idle /\ H = {} /\ tries' = tries
                  \/ \E y \in H : x = Attempting(kind, y.data, y.id, t) /\ Tried(y.data.chain)
  BY <1>7
<1>9. /\ \A h \in Holdings : h[1] \in Nat /\ h[1] # 0 /\ h[1] <= enqueued /\ h[2] \in Chains
      /\ \A g, h \in Holdings : g[1] = h[1] => g[2] = h[2]
  BY <1>2, HoldingsSound
<1>10. \A y \in H : y.data \in Retry /\ y.id \in Nat /\ y.id # 0 /\ y.id <= enqueued /\ y.data.chain \in Chains
  <2> SUFFICES ASSUME NEW y \in H
               PROVE  y.data \in Retry /\ y.id \in Nat /\ y.id # 0 /\ y.id <= enqueued /\ y.data.chain \in Chains
    OBVIOUS
  <2>1. y.data \in Retry
    BY <1>5 DEF Queue!Claims
  <2>2. PICK h \in Holdings : h = <<y.id, y.data.chain>>
    BY <1>5
  <2>3. h[1] = y.id /\ h[2] = y.data.chain
    BY <2>2
  <2> QED BY <1>9, <2>1, <2>3
<1>11. ASSUME NEW y \in H, x = Attempting(kind, y.data, y.id, t), Tried(y.data.chain)
       PROVE  /\ x \in Task /\ x.kind = kind /\ x.at = "attempt" /\ x.retry = {y.data} /\ x.id = y.id
              /\ x.nowMs = t
              /\ tries' \in [Chains -> Nat] /\ tries'[y.data.chain] > 0
              /\ \A d \in Chains : tries[d] > 0 => tries'[d] > 0
              /\ TaskSound(x)'
  <2>1. /\ x \in Task /\ x.kind = kind /\ x.at = "attempt" /\ x.retry = {y.data} /\ x.id = y.id /\ x.nowMs = t
    BY <1>2, <1>10, <1>11, AttemptingFields DEF Kinds
  <2>2. /\ tries' \in [Chains -> Nat] /\ tries'[y.data.chain] > 0
        /\ \A d \in Chains : tries[d] > 0 => tries'[d] > 0
    BY <1>2, <1>10, <1>11, TriedGrows
  <2>3. PICK g \in Holdings : g = <<y.id, y.data.chain>>
    BY <1>5, <1>11
  <2>4. g[1] = y.id /\ g[2] = y.data.chain
    BY <2>3
  <2>5. \A h \in Holdings' : h[1] = x.id => h[2] = y.data.chain
    BY <1>5, <1>9, <2>1, <2>4
  <2>6. TaskSound(x)'
    BY <1>4, <1>10, <1>11, <2>1, <2>2, <2>5 DEF TaskSound
  <2> QED BY <2>1, <2>2, <2>6
<1>12. ASSUME x = Idle, tries' = tries
       PROVE  /\ x \in Task /\ x.at = "idle" /\ x.id = 0 /\ x.retry = {}
              /\ tries' \in [Chains -> Nat] /\ \A d \in Chains : tries[d] > 0 => tries'[d] > 0
              /\ TaskSound(x)'
  BY <1>2, <1>4, <1>12, IdleFields, IdleSound DEF Idle
<1>13. /\ x \in Task /\ x.at \in {"idle", "attempt"} /\ x.id <= enqueued
       /\ tries' \in [Chains -> Nat] /\ \A d \in Chains : tries[d] > 0 => tries'[d] > 0
       /\ TaskSound(x)'
  BY <1>2, <1>8, <1>10, <1>11, <1>12
<1>14. Shape'
  <2>1. /\ drainTimers' \subseteq Nat /\ persisted' \subseteq Chains /\ delivered' \subseteq Chains
        /\ finished' \subseteq Chains /\ shed' \subseteq Chains /\ deadLettered' \subseteq Chains
        /\ expired' \in BOOLEAN /\ enqueued <= enqueued'
    BY <1>2, <1>4 DEF TypeOK
  <2> QED BY <1>1, <1>4, <1>5, <1>8, <1>13, <2>1, ShapeMoves
<1>15. SparedInv'
  <2>1. Settled' = Settled /\ everStopped' = everStopped
    BY <1>4 DEF Settled, life
  <2>2. ~Settling(x)
    BY <1>13 DEF Settling
  <2> QED BY <1>1, <1>4, <1>5, <1>8, <1>13, <2>1, <2>2, SparedMoves
<1>16. RecordInv'
  <2>1. \A c : ~WillRecord(task[k], c)
    BY DEF WillRecord
  <2>2. crashes' = crashes
    BY <1>4 DEF life
  <2> QED BY <1>1, <1>4, <1>8, <2>1, <2>2, RecordMoves
<1>17. task[k].id = 0 /\ ~Working(task[k])
  BY <1>2 DEF TasksSound, TaskSound, Working
<1>18. ClaimsKept(k, x)
  <2>1. \A y \in inFlight : y.id # 0
    BY <1>2, Fields
  <2>2. \A y \in H : y.id = x.id
    BY <1>6, <1>8, <1>11 DEF H
  <2> QED BY <1>5, <1>17, <2>1, <2>2 DEF ClaimsKept
<1>19. CapInv'
  <2>1. /\ Cardinality(Enqueuing') <= Cardinality(Enqueuing)
        /\ Cardinality(Enqueuing) \in Nat /\ Cardinality(Enqueuing') \in Nat
    BY <1>2, <1>8, <1>13, EnqueuingMoves
  <2>2. /\ Cardinality(queued) \in Nat /\ Cardinality(inFlight) \in Nat
        /\ Cardinality(queued') \in Nat /\ Cardinality(inFlight') \in Nat
    BY <1>2, <1>5, FS_CardinalityType DEF QueueSound
  <2>3. Cardinality(queued') + Cardinality(inFlight') + Cardinality(Enqueuing')
              <= Cardinality(queued) + Cardinality(inFlight) + Cardinality(Enqueuing)
    BY <1>5, <2>1, <2>2
  <2> QED BY <1>1, <1>4, <1>8, <1>14, <1>18, <2>3, CapMoves
<1>20. ASSUME ~expired', crashes = 0
       PROVE  /\ queued' \subseteq queued
              /\ \A c : Working(x) /\ Chained(x, c) =>
                   /\ c \notin delivered' /\ \A z \in queued' : z.data.chain # c
                   /\ \A j \in Tasks : ~(Working(task[j]) /\ Chained(task[j], c))
  <2>5. ~expired
    BY <1>4, <1>20
  <2>6. ~(crashes > 0)
    BY <1>20
  <2>1. OnePlace
    BY <1>1, <2>5, <2>6 DEF OnePlaceInv
  <2>2. Queue!Expired(t) = {}
    <3> SUFFICES ASSUME NEW z \in Queue!Expired(t) PROVE FALSE
      OBVIOUS
    <3>1. z \in inFlight /\ z.expiresAt <= t
      BY DEF Queue!Expired
    <3>2. z.expiresAt \in Nat
      BY <1>2, <3>1 DEF MapsTyped, Queue!Claims
    <3>3. z \in Queue!Expired(now)
      BY <1>2, <3>1, <3>2 DEF Queue!Expired
    <3>4. z \notin Orphans
      BY <2>1 DEF OnePlace
    <3>5. PICK j \in Tasks : task[j].id = z.id
      BY <3>1, <3>4 DEF Orphans
    <3> QED BY <1>4, <1>20, <3>3, <3>5
  <2>3. /\ queued' \subseteq queued
        /\ \A y \in H : \E z \in queued \ queued' : z.id = y.id /\ z.data = y.data
    BY <1>5, <2>2
  <2>4. ASSUME NEW c, Working(x), Chained(x, c)
        PROVE  /\ c \notin delivered' /\ \A z \in queued' : z.data.chain # c
               /\ \A j \in Tasks : ~(Working(task[j]) /\ Chained(task[j], c))
    <3>1. x.at = "attempt"
      BY <1>13, <2>4 DEF Working
    <3>2. PICK y \in H : x = Attempting(kind, y.data, y.id, t) /\ Tried(y.data.chain)
      BY <1>8, <3>1, IdleFields
    <3>3. c = y.data.chain
      BY <1>11, <2>4, <3>2 DEF Chained
    <3>4. PICK z \in queued \ queued' : z.data = y.data
      BY <2>3
    <3>5. z \in queued /\ z.data.chain = c
      BY <3>3, <3>4
    <3> QED BY <1>4, <2>1, <2>3, <3>4, <3>5 DEF OnePlace
  <2> QED BY <2>3, <2>4
<1>21. OnePlaceInv'
  <2>1. expired => expired'
    BY <1>4
  <2> QED BY <1>1, <1>4, <1>8, <1>18, <1>20, <2>1, OnePlaceMoves
<1> QED BY <1>14, <1>15, <1>16, <1>19, <1>21 DEF DurableInv

(* A call evicts the newest record, and will record what it dropped.         *)
LEMMA EvictKeeps ==
    ASSUME DurableInv, NEW k \in Tasks, Evict(k)
    PROVE  DurableInv'
<1>1. Shape /\ SparedInv /\ RecordInv /\ CapInv /\ OnePlaceInv
  BY DEF DurableInv
<1>2. /\ TypeOK /\ QueueSound /\ TasksSound /\ MapsTyped /\ enqueued \in Nat
      /\ task \in [Tasks -> Task] /\ task[k] \in Task
  BY <1>1, DurableAssumption DEF Shape, TypeOK, MapsTyped
<1>3. PICK dropped : dropped = {z.data.chain : z \in Queue!Newest}
  OBVIOUS
<1>4. PICK x : x = [task[k] EXCEPT !.at = "enqueue", !.drop = dropped]
  OBVIOUS
<1>5. /\ task[k].at = "evict" /\ Queue!EvictNewestOp /\ shed' = shed \cup dropped /\ Goes(k, x)
      /\ UNCHANGED <<now, enqueued, drainTimers, life, tries, persisted, delivered, finished,
                     expired, deadLettered>>
  BY <1>3, <1>4 DEF Evict
<1>6. dropped \subseteq Chains
  BY <1>2, <1>3, Fields DEF Queue!Newest
<1>7. /\ x \in Task /\ x.at = "enqueue" /\ x.kind = task[k].kind /\ x.retry = task[k].retry
      /\ x.id = task[k].id /\ x.nowMs = task[k].nowMs /\ x.drop = dropped
  BY <1>2, <1>4, <1>6 DEF Task, Stops
<1>8. /\ MapsTyped' /\ QueueSound' /\ inFlight' = inFlight /\ queued' \subseteq queued
      /\ Holdings' \subseteq Holdings
      /\ \A h \in Holdings : h \in Holdings' \/ h[2] \in dropped
      /\ Cardinality(queued') <= Cardinality(queued)
      /\ queued # {} => Cardinality(queued') + 1 <= Cardinality(queued)
  BY <1>2, <1>3, <1>5, EvictMoves
<1>9. TaskSound(task[k]) /\ task[k].kind \in {"first", "drain"}
  BY <1>2, <1>5 DEF TasksSound, TaskSound
<1>10. TaskSound(x)'
  BY <1>5, <1>7, <1>8, <1>9 DEF TaskSound
<1>11. Shape'
  <2>1. /\ drainTimers' \subseteq Nat /\ persisted' \subseteq Chains /\ delivered' \subseteq Chains
        /\ finished' \subseteq Chains /\ shed' \subseteq Chains /\ deadLettered' \subseteq Chains
        /\ expired' \in BOOLEAN /\ enqueued <= enqueued' /\ tries' \in [Chains -> Nat]
        /\ \A c \in Chains : tries[c] > 0 => tries'[c] > 0
    BY <1>2, <1>5, <1>6 DEF TypeOK
  <2> QED BY <1>1, <1>5, <1>7, <1>8, <1>10, <2>1, ShapeMoves
<1>12. SparedInv'
  <2>1. Settled \subseteq Settled' /\ dropped \subseteq Settled' /\ everStopped' = everStopped
    BY <1>5 DEF Settled, life
  <2>2. ~Settling(x) /\ x.id <= enqueued
    BY <1>7, <1>9 DEF Settling, TaskSound
  <2> QED BY <1>1, <1>5, <1>7, <1>8, <2>1, <2>2, SparedMoves
<1>13. RecordInv'
  <2>1. (\A c : ~WillRecord(task[k], c)) /\ \A c \in dropped : WillRecord(x, c)
    BY <1>5, <1>7 DEF WillRecord
  <2>2. crashes' = crashes
    BY <1>5 DEF life
  <2> QED BY <1>1, <1>5, <2>1, <2>2, RecordMoves
<1>14. ClaimsKept(k, x)
  BY <1>7, <1>8 DEF ClaimsKept
<1>15. CapInv'
  <2>1. /\ Cardinality(Enqueuing') <= Cardinality(Enqueuing) + 1
        /\ Cardinality(Enqueuing) \in Nat /\ Cardinality(Enqueuing') \in Nat
    BY <1>2, <1>5, EnqueuingMoves
  <2>2. /\ Cardinality(queued) \in Nat /\ Cardinality(inFlight) \in Nat
        /\ Cardinality(queued') \in Nat /\ Cardinality(inFlight') = Cardinality(inFlight)
    BY <1>2, <1>8, FS_CardinalityType DEF QueueSound
  <2>3. \/ Cardinality(queued') + Cardinality(inFlight') + Cardinality(Enqueuing')
              <= Cardinality(queued) + Cardinality(inFlight) + Cardinality(Enqueuing)
        \/ Cardinality(queued') < RetryCap
    <3>1. CASE queued # {}
      BY <1>8, <2>1, <2>2, <3>1
    <3>2. CASE queued = {}
      <4>1. Cardinality(queued) = 0
        BY <3>2, FS_EmptySet
      <4>2. RetryCap \in Nat /\ RetryCap >= 1
        BY DurableAssumption DEF RetryCap
      <4> QED BY <1>8, <2>2, <4>1, <4>2
    <3> QED BY <3>1, <3>2
  <2>4. watcherStopped => Cardinality(inFlight') <= Cardinality(inFlight)
    BY <2>2
  <2> QED BY <1>1, <1>5, <1>11, <1>14, <2>3, <2>4, CapMoves
<1>16. OnePlaceInv'
  <2>1. Working(task[k]) /\ \A c : Chained(x, c) <=> Chained(task[k], c)
    BY <1>5, <1>7 DEF Working, Chained
  <2> QED BY <1>1, <1>5, <1>8, <1>14, <2>1, OnePlaceMoves
<1> QED BY <1>11, <1>12, <1>13, <1>15, <1>16 DEF DurableInv

(* A call enqueues the next attempt before it acks the record it had.        *)
LEMMA EnqueueRetryKeeps ==
    ASSUME DurableInv, NEW k \in Tasks, NEW delay \in Delays, EnqueueRetry(k, delay)
    PROVE  DurableInv'
<1>1. Shape /\ SparedInv /\ RecordInv /\ CapInv /\ OnePlaceInv
  BY DEF DurableInv
<1>2. /\ TypeOK /\ QueueSound /\ TasksSound /\ MapsTyped /\ enqueued \in Nat /\ now + delay \in Nat
      /\ task \in [Tasks -> Task] /\ task[k] \in Task /\ task[k].drop \subseteq Chains
  BY <1>1, DurableAssumption DEF Shape, TypeOK, MapsTyped, Task
<1>3. /\ task[k].at = "enqueue" /\ enqueued < MaxRecords /\ enqueued' = enqueued + 1
      /\ deadLettered' = deadLettered \cup task[k].drop
      /\ drainTimers' = drainTimers \cup {now + delay}
      /\ GoesTo(k, AfterDelivery(k))
      /\ UNCHANGED <<now, life, tries, delivered, finished, shed, expired>>
  BY DEF EnqueueRetry, EmitDropped
<1>4. PICK r \in task[k].retry :
        /\ Queue!EnqueueOp(enqueued + 1, [r EXCEPT !.attempt = @ + 1], now + delay)
        /\ persisted' = persisted \cup {r.chain}
  BY DEF EnqueueRetry
<1>5. PICK d : d = [r EXCEPT !.attempt = @ + 1]
  OBVIOUS
<1>6. r \in Retry /\ d \in Retry /\ d.chain = r.chain /\ r.chain \in Chains
  BY <1>2, <1>5 DEF Task, Retry
<1>7. /\ MapsTyped' /\ QueueSound' /\ inFlight' = inFlight
      /\ Holdings' = Holdings \cup {<<enqueued + 1, r.chain>>}
      /\ Cardinality(queued') <= Cardinality(queued) + 1
      /\ \A z \in queued' : z \in queued \/ (z.id = enqueued + 1 /\ z.data = d)
      /\ \A y, z \in queued' : y \notin queued /\ z \notin queued => y = z
  BY <1>2, <1>3, <1>4, <1>5, <1>6, EnqueueMoves
<1>8. PICK g \in Holdings' : g = <<enqueued + 1, r.chain>>
  BY <1>7
<1>9. g[1] = enqueued + 1 /\ g[1] > enqueued /\ g[2] = r.chain
  BY <1>2, <1>8
<1>10. \A h \in Holdings' : h \in Holdings \/ h = g
  BY <1>7, <1>8
<1>11. TaskSound(task[k]) /\ task[k].kind \in {"first", "drain"} /\ tries[r.chain] > 0
  BY <1>2, <1>3, <1>4 DEF TasksSound, TaskSound
<1>12. /\ tries' \in [Chains -> Nat] /\ now' \in Nat /\ enqueued' \in Nat /\ enqueued <= enqueued'
       /\ now' = now /\ \A c \in Chains : tries[c] > 0 => tries'[c] > 0
  BY <1>2, <1>3 DEF TypeOK
<1>13. \E x \in Task : /\ Goes(k, x) /\ TaskSound(x)' /\ x.at \in {"idle", "ack"}
                       /\ x.id = task[k].id
  <2>1. CASE task[k].kind = "drain"
    <3>1. PICK x : x = [task[k] EXCEPT !.at = "ack"]
      OBVIOUS
    <3>2. Goes(k, x)
      BY <1>3, <2>1, <3>1 DEF GoesTo, AfterDelivery
    <3>3. "ack" \in Stops
      BY DEF Stops
    <3>4. x \in Task /\ x.at = "ack" /\ x.id = task[k].id /\ TaskSound(x)'
      BY <1>1, <1>3, <1>9, <1>10, <1>12, <3>1, <3>3, MovesOnSound
    <3> QED BY <3>2, <3>4
  <2>2. CASE task[k].kind = "first"
    <3>1. PICK x : x = Idle
      OBVIOUS
    <3>2. Goes(k, x)
      BY <1>3, <2>2, <3>1 DEF GoesTo, AfterDelivery
    <3>3. x \in Task /\ x.at = "idle" /\ x.id = 0 /\ TaskSound(x)'
      BY <1>12, <3>1, IdleFields, IdleSound DEF Idle
    <3>4. task[k].id = 0
      BY <1>11, <2>2 DEF TaskSound
    <3> QED BY <3>2, <3>3, <3>4
  <2> QED BY <1>11, <2>1, <2>2
<1>14. PICK x \in Task : /\ Goes(k, x) /\ TaskSound(x)' /\ x.at \in {"idle", "ack"}
                         /\ x.id = task[k].id
  BY <1>13
<1>15. Shape'
  <2>1. /\ drainTimers' \subseteq Nat /\ persisted' \subseteq Chains /\ delivered' \subseteq Chains
        /\ finished' \subseteq Chains /\ shed' \subseteq Chains /\ deadLettered' \subseteq Chains
        /\ expired' \in BOOLEAN
    BY <1>2, <1>3, <1>4, <1>6 DEF TypeOK
  <2>2. \A h \in Holdings' : h \in Holdings \/ (h[1] > enqueued /\ tries'[h[2]] > 0)
    BY <1>3, <1>9, <1>10, <1>11
  <2> QED BY <1>1, <1>3, <1>7, <1>12, <1>14, <2>1, <2>2, ShapeMoves
<1>16. SparedInv'
  <2>1. Settled' = Settled /\ everStopped' = everStopped
    BY <1>3 DEF Settled, life
  <2>2. Holdings \subseteq Holdings' /\ x.id <= enqueued
    BY <1>7, <1>11, <1>14 DEF TaskSound
  <2>3. \A h \in Holdings : h[1] = x.id => h[2] = g[2]
    BY <1>4, <1>9, <1>11, <1>14 DEF TaskSound
  <2>4. \A c \in persisted' : c \in persisted \/ g[2] = c
    BY <1>4, <1>9
  <2> QED BY <1>1, <1>9, <1>14, <2>1, <2>2, <2>3, <2>4, SparedMoves
<1>17. RecordInv'
  <2>1. \A c : WillRecord(task[k], c) => c \in deadLettered'
    BY <1>3 DEF WillRecord
  <2>2. crashes' = crashes
    BY <1>3 DEF life
  <2> QED BY <1>1, <1>3, <1>14, <2>1, <2>2, RecordMoves
<1>18. ClaimsKept(k, x)
  BY <1>7, <1>14 DEF ClaimsKept
<1>19. CapInv'
  <2>1. /\ Cardinality(Enqueuing') + 1 <= Cardinality(Enqueuing)
        /\ Cardinality(Enqueuing) \in Nat /\ Cardinality(Enqueuing') \in Nat
    BY <1>2, <1>3, <1>14, EnqueuingMoves
  <2>2. /\ Cardinality(queued) \in Nat /\ Cardinality(inFlight) \in Nat
        /\ Cardinality(queued') \in Nat /\ Cardinality(inFlight') = Cardinality(inFlight)
    BY <1>2, <1>7, FS_CardinalityType DEF QueueSound
  <2>3. Cardinality(queued') + Cardinality(inFlight') + Cardinality(Enqueuing')
              <= Cardinality(queued) + Cardinality(inFlight) + Cardinality(Enqueuing)
    BY <1>7, <2>1, <2>2
  <2>4. watcherStopped => Cardinality(inFlight') <= Cardinality(inFlight)
    BY <2>2
  <2> QED BY <1>1, <1>3, <1>14, <1>15, <1>18, <2>3, <2>4, CapMoves
<1>20. OnePlaceInv'
  <2>1. Working(task[k]) /\ ~Working(x) /\ Chained(task[k], r.chain)
    BY <1>3, <1>4, <1>14 DEF Working, Chained
  <2>2. \A z \in queued' : z \in queued \/ z.data.chain = r.chain
    BY <1>6, <1>7
  <2> QED BY <1>1, <1>3, <1>7, <1>14, <1>18, <2>1, <2>2, OnePlaceMoves
<1> QED BY <1>15, <1>16, <1>17, <1>19, <1>20 DEF DurableInv

(* A call settles its record: a claim of that id is gone, or queued again    *)
(* under the chain the call worked on.                                       *)
LEMMA SettlesKeeps ==
    ASSUME DurableInv, NEW k \in Tasks, NEW x \in Task, Goes(k, x), MapsTyped', QueueSound',
           TaskSound(x)', x.at \in {"idle", "dequeue"}, x.id = 0,
           UNCHANGED <<now, enqueued, drainTimers, life, tries, persisted, delivered, finished, shed, expired>>,
           deadLettered \subseteq deadLettered', deadLettered' \subseteq Chains,
           \A c : WillRecord(task[k], c) => c \in deadLettered',
           Holdings' \subseteq Holdings,
           \A h \in Holdings : h \in Holdings' \/ (Settling(task[k]) /\ task[k].id = h[1]),
           inFlight' \subseteq inFlight, \A y \in inFlight' : y.id # task[k].id,
           \A z \in queued' : z \in queued \/ (Working(task[k]) /\ Chained(task[k], z.data.chain)),
           \A y, z \in queued' : y \notin queued /\ z \notin queued => y = z,
           Cardinality(inFlight') <= Cardinality(inFlight),
           Cardinality(queued') + Cardinality(inFlight') <= Cardinality(queued) + Cardinality(inFlight)
    PROVE  DurableInv'
<1>1. Shape /\ SparedInv /\ RecordInv /\ CapInv /\ OnePlaceInv
  BY DEF DurableInv
<1>2. /\ TypeOK /\ QueueSound /\ enqueued \in Nat /\ task \in [Tasks -> Task]
  BY <1>1, DurableAssumption DEF Shape, TypeOK
<1>3. ~Settling(x) /\ ~Working(x) /\ x.at # "enqueue"
  BY DEF Settling, Working
<1>4. Shape'
  <2>1. /\ drainTimers' \subseteq Nat /\ persisted' \subseteq Chains /\ delivered' \subseteq Chains
        /\ finished' \subseteq Chains /\ shed' \subseteq Chains
        /\ expired' \in BOOLEAN /\ enqueued <= enqueued' /\ tries' \in [Chains -> Nat]
        /\ \A c \in Chains : tries[c] > 0 => tries'[c] > 0
    BY <1>2 DEF TypeOK
  <2> QED BY <1>1, <2>1, ShapeMoves
<1>5. SparedInv'
  <2>1. Settled' = Settled /\ everStopped' = everStopped /\ x.id <= enqueued
    BY <1>2 DEF Settled, life
  <2> QED BY <1>1, <1>3, <2>1, SparedMoves
<1>6. RecordInv'
  <2>1. crashes' = crashes
    BY DEF life
  <2> QED BY <1>1, <2>1, RecordMoves
<1>7. ClaimsKept(k, x)
  BY DEF ClaimsKept
<1>8. CapInv'
  <2>1. /\ Cardinality(Enqueuing') <= Cardinality(Enqueuing)
        /\ Cardinality(Enqueuing) \in Nat /\ Cardinality(Enqueuing') \in Nat
    BY <1>2, <1>3, EnqueuingMoves
  <2>2. /\ Cardinality(queued) \in Nat /\ Cardinality(inFlight) \in Nat
        /\ Cardinality(queued') \in Nat /\ Cardinality(inFlight') \in Nat
    BY <1>2, FS_CardinalityType DEF QueueSound
  <2>3. Cardinality(queued') + Cardinality(inFlight') + Cardinality(Enqueuing')
              <= Cardinality(queued) + Cardinality(inFlight) + Cardinality(Enqueuing)
    BY <2>1, <2>2
  <2> QED BY <1>1, <1>4, <1>7, <2>3, CapMoves
<1>9. OnePlaceInv'
  BY <1>1, <1>3, <1>7, OnePlaceMoves
<1> QED BY <1>4, <1>5, <1>6, <1>8, <1>9 DEF DurableInv

(* A record in hand is acked.                                                *)
LEMMA AckKeeps ==
    ASSUME DurableInv, NEW k \in Tasks, AckRecord(k) \/ AckThenFail(k)
    PROVE  DurableInv'
<1>1. Shape /\ TypeOK /\ QueueSound /\ TasksSound /\ MapsTyped
  BY DEF DurableInv, Shape, TypeOK, MapsTyped
<1>2. /\ now \in Nat /\ enqueued \in Nat /\ task[k] \in Task /\ task[k].nowMs \in Nat
      /\ TaskSound(task[k])
  BY <1>1, DurableAssumption DEF TypeOK, Task, TasksSound
<1>3. /\ Settling(task[k]) /\ Queue!AckOp(task[k].id)
      /\ UNCHANGED <<now, enqueued, drainTimers, life, tries, persisted, delivered, finished, shed, expired>>
  BY DEF AckRecord, AckThenFail, Settling, outcomes
<1>4. /\ MapsTyped' /\ QueueSound' /\ queued' = queued /\ Holdings' \subseteq Holdings
      /\ \A h \in Holdings : h[1] # task[k].id => h \in Holdings'
      /\ inFlight' \subseteq inFlight /\ \A y \in inFlight' : y.id # task[k].id
      /\ Cardinality(inFlight') <= Cardinality(inFlight)
  BY <1>1, <1>3, AckMoves
<1>5. Cardinality(queued') + Cardinality(inFlight') <= Cardinality(queued) + Cardinality(inFlight)
  <2>1. /\ Cardinality(queued) \in Nat /\ Cardinality(inFlight) \in Nat /\ Cardinality(inFlight') \in Nat
    BY <1>1, <1>4, FS_CardinalityType DEF QueueSound
  <2> QED BY <1>4, <2>1
<1>6. /\ deadLettered \subseteq deadLettered' /\ deadLettered' \subseteq Chains
      /\ \A c : WillRecord(task[k], c) => c \in deadLettered'
  <2>1. \A r \in task[k].retry : r.chain \in Chains
    BY <1>2 DEF Task, Retry
  <2>2. deadLettered \subseteq Chains
    BY <1>1 DEF TypeOK
  <2>3. CASE AckRecord(k)
    BY <2>2, <2>3 DEF AckRecord, outcomes, WillRecord
  <2>4. CASE AckThenFail(k)
    BY <2>1, <2>2, <2>4 DEF AckThenFail, WillRecord
  <2> QED BY <2>3, <2>4
<1>7. \E x \in Task : /\ Goes(k, x) /\ x.at \in {"idle", "dequeue"} /\ x.id = 0 /\ TaskSound(x)'
  <2>1. CASE Goes(k, Idle)
    <3>1. PICK x : x = Idle
      OBVIOUS
    <3>2. x \in Task /\ x.at = "idle" /\ x.id = 0 /\ TaskSound(x)' /\ Goes(k, x)
      BY <1>2, <1>3, <2>1, <3>1, IdleFields, IdleSound DEF Idle
    <3> QED BY <3>2
  <2>2. CASE ~Goes(k, Idle)
    <3>1. PICK x : x = Draining(task[k].nowMs)
      OBVIOUS
    <3>2. Goes(k, x)
      BY <2>2, <3>1 DEF AckRecord, AckThenFail, Draining
    <3>3. /\ x \in Task /\ x.kind = "drain" /\ x.at = "dequeue" /\ x.retry = {} /\ x.id = 0
          /\ x.nowMs = task[k].nowMs
      BY <1>2, <3>1, DrainingFields
    <3>4. TaskSound(x)'
      BY <1>2, <1>3, <3>3 DEF TaskSound
    <3> QED BY <3>2, <3>3, <3>4
  <2> QED BY <2>1, <2>2
<1>8. PICK x \in Task : /\ Goes(k, x) /\ x.at \in {"idle", "dequeue"} /\ x.id = 0 /\ TaskSound(x)'
  BY <1>7
<1>9. \A z \in queued' : z \in queued
  BY <1>4
<1> QED BY <1>3, <1>4, <1>5, <1>6, <1>8, <1>9, SettlesKeeps

(* A record in hand is nacked.                                               *)
LEMMA NackKeeps ==
    ASSUME DurableInv, NEW k \in Tasks, NEW delay \in Delays, NackRecord(k, delay)
    PROVE  DurableInv'
<1>1. Shape /\ TypeOK /\ QueueSound /\ TasksSound /\ MapsTyped
  BY DEF DurableInv, Shape, TypeOK, MapsTyped
<1>2. /\ now \in Nat /\ now + delay \in Nat /\ enqueued \in Nat /\ task[k] \in Task /\ task[k].id \in Nat
      /\ TaskSound(task[k])
  BY <1>1, DurableAssumption DEF TypeOK, Task, TasksSound
<1>3. /\ task[k].at = "nack" /\ Queue!NackOp(task[k].id, now + delay) /\ Goes(k, Idle)
      /\ UNCHANGED <<now, enqueued, drainTimers, life, tries, persisted, delivered, finished, shed,
                     expired, deadLettered>>
  BY DEF NackRecord, outcomes
<1>4. PICK i \in Nat : i = task[k].id
  BY <1>2
<1>5. /\ MapsTyped' /\ QueueSound' /\ Holdings' = Holdings
      /\ inFlight' \subseteq inFlight /\ \A y \in inFlight' : y.id # i
      /\ \A z \in queued' : \/ z \in queued
                            \/ z.id = i /\ \E y \in inFlight : y.id = i /\ z.data = y.data
      /\ Cardinality(queued') + Cardinality(inFlight') <= Cardinality(queued) + Cardinality(inFlight)
      /\ Cardinality(inFlight') <= Cardinality(inFlight)
  BY <1>1, <1>2, <1>3, <1>4, NackMoves
<1>6. Working(task[k]) /\ \A c : ~WillRecord(task[k], c)
  BY <1>3 DEF Working, WillRecord
<1>7. \A z \in queued' : z \in queued \/ Chained(task[k], z.data.chain)
  <2> SUFFICES ASSUME NEW z \in queued', z \notin queued PROVE Chained(task[k], z.data.chain)
    OBVIOUS
  <2>1. PICK y \in inFlight : y.id = i /\ z.data = y.data
    BY <1>5
  <2>2. PICK h \in Holdings : h[1] = y.id /\ h[2] = y.data.chain
    BY <1>1, HoldingsSound
  <2>3. PICK r \in task[k].retry : TRUE
    BY <1>2, <1>3 DEF TaskSound
  <2>4. h[2] = r.chain
    BY <1>2, <1>4, <2>1, <2>2 DEF TaskSound
  <2> QED BY <2>1, <2>2, <2>4 DEF Chained
<1>8. \A y, z \in queued' : y \notin queued /\ z \notin queued => y = z
  BY <1>5 DEF QueueSound
<1>9. PICK x : x = Idle
  OBVIOUS
<1>10. x \in Task /\ x.at = "idle" /\ x.id = 0 /\ TaskSound(x)' /\ Goes(k, x)
  BY <1>2, <1>3, <1>9, IdleFields, IdleSound DEF Idle
<1>11. deadLettered' = deadLettered /\ deadLettered' \subseteq Chains
  BY <1>1, <1>3 DEF TypeOK
<1> QED BY <1>3, <1>4, <1>5, <1>6, <1>7, <1>8, <1>10, <1>11, SettlesKeeps

-----------------------------------------------------------------------------
(* A step that moves no call: stop, the watcher's stop, the clock, or none.  *)
LEMMA StillKeeps ==
    ASSUME DurableInv, UNCHANGED <<queueVars, enqueued, task, crashes, outcomes>>,
           now' \in Nat, now <= now', drainTimers' \subseteq Nat,
           stopped' \in BOOLEAN, watcherStopped' \in BOOLEAN, everStopped' \in BOOLEAN,
           watcherStopped => watcherStopped', everStopped => everStopped',
           watcherStopped' => stopped' /\ everStopped'
    PROVE  DurableInv'
<1>1. Shape /\ SparedInv /\ RecordInv /\ CapInv /\ OnePlaceInv
  BY DEF DurableInv
<1>2. /\ UNCHANGED <<queued, inFlight, seq, enqueued, task, crashes, tries, persisted, delivered,
                     finished, shed, expired, deadLettered>>
  BY DEF queueVars, outcomes
<1>3. TypeOK /\ QueueSound /\ TasksSound /\ TriedSound /\ now \in Nat /\ task \in [Tasks -> Task]
  BY <1>1 DEF Shape, TypeOK
<1>4. Holdings' = Holdings
  BY <1>2 DEF Holdings
<1>5. Shape'
  <2>1. TypeOK'
    BY <1>2, <1>3 DEF TypeOK
  <2>2. QueueSound'
    BY <1>2, <1>3 DEF QueueSound
  <2>3. TasksSound'
    <3> SUFFICES ASSUME NEW k \in Tasks PROVE TaskSound(task[k])'
      BY DEF TasksSound
    <3>1. TaskSound(task[k]) /\ task[k].nowMs \in Nat
      BY <1>3 DEF TasksSound, Task
    <3>2. task'[k].nowMs <= now'
      BY <1>2, <1>3, <3>1 DEF TaskSound
    <3> QED BY <1>2, <1>4, <3>1, <3>2 DEF TaskSound
  <2>4. TriedSound'
    BY <1>2, <1>3, <1>4 DEF TriedSound
  <2> QED BY <2>1, <2>2, <2>3, <2>4 DEF Shape
<1>6. SparedInv'
  BY <1>1, <1>2, <1>4 DEF SparedInv, Settled, Spared, Settling
<1>7. RecordInv'
  BY <1>1, <1>2 DEF RecordInv, WillRecord
<1>8. Orphans' = Orphans /\ Enqueuing' = Enqueuing
  BY <1>2 DEF Orphans, Enqueuing
<1>9. CapInv'
  <2>1. QueueNearCap'
    BY <1>1, <1>2, <1>8 DEF CapInv, QueueNearCap
  <2>2. watcherStopped' \/ Cardinality(Orphans') <= crashes' * Cardinality(Tasks)
    BY <1>1, <1>2, <1>8 DEF CapInv
  <2>3. Cardinality(inFlight') <= (crashes' + 1) * Cardinality(Tasks)
    BY <1>1, <1>2 DEF CapInv
  <2> QED BY <2>1, <2>2, <2>3 DEF CapInv
<1>10. OnePlaceInv'
  <2>1. OnePlace => OnePlace'
    BY <1>2, <1>8 DEF OnePlace, Working, Chained
  <2>2. expired' = expired /\ crashes' = crashes
    BY <1>2
  <2> QED BY <1>1, <2>1, <2>2 DEF OnePlaceInv
<1> QED BY <1>5, <1>6, <1>7, <1>9, <1>10 DEF DurableInv

(* A crash: every claim is an orphan, and there are as many as calls were    *)
(* at work and orphans before.                                               *)
LEMMA CrashKeeps ==
    ASSUME DurableInv, Crash
    PROVE  DurableInv'
<1> DEFINE T == Cardinality(Tasks)
<1>1. Shape /\ SparedInv /\ CapInv
  BY DEF DurableInv
<1>2. /\ UNCHANGED <<queued, inFlight, seq, now, enqueued, everStopped, tries, persisted, delivered,
                     finished, shed, expired, deadLettered>>
      /\ crashes < MaxCrashes /\ crashes' = crashes + 1 /\ task' = [k \in Tasks |-> Idle]
      /\ drainTimers' = {} /\ stopped' = FALSE /\ watcherStopped' = FALSE
  BY DEF Crash, queueVars, outcomes
<1>3. /\ TypeOK /\ QueueSound /\ TriedSound /\ crashes \in Nat /\ enqueued' \in Nat /\ now' \in Nat
  BY <1>1, <1>2, DurableAssumption DEF Shape, TypeOK
<1>4. Holdings' = Holdings
  BY <1>2 DEF Holdings
<1>5. \A k \in Tasks : task'[k] = Idle
  BY <1>2
<1>6. Shape'
  <2>1. TypeOK'
    <3>1. task' \in [Tasks -> Task] /\ crashes' \in 0..MaxCrashes
      BY <1>2, <1>3, IdleFields, DurableAssumption
    <3> QED BY <1>2, <1>3, <3>1 DEF TypeOK
  <2>2. QueueSound'
    BY <1>2, <1>3 DEF QueueSound
  <2>3. TasksSound'
    <3>1. TaskSound(Idle)'
      BY <1>3, IdleSound
    <3> QED BY <1>5, <3>1 DEF TasksSound, TaskSound, Idle
  <2>4. TriedSound'
    BY <1>2, <1>3, <1>4 DEF TriedSound
  <2> QED BY <2>1, <2>2, <2>3, <2>4 DEF Shape
<1>7. \A k \in Tasks : ~Settling(task'[k]) /\ task'[k].at # "enqueue"
  BY <1>5, IdleFields DEF Settling
<1>8. SparedInv'
  <2>1. \A i : Spared(i)'
    BY <1>7 DEF Spared, Settling
  <2> QED BY <1>1, <1>2, <1>4, <2>1 DEF SparedInv, Settled
<1>9. RecordInv'
  BY <1>2, <1>3 DEF RecordInv
<1>10. CapInv'
  <2>1. /\ T \in Nat /\ crashes * T \in Nat
        /\ (crashes + 1) * T = crashes * T + T /\ (crashes + 2) * T = crashes * T + T + T
    BY <1>3, TimesTasks
  <2>2. /\ (crashes + 1) * T \in Nat /\ ((crashes + 1) + 1) * T = (crashes + 1) * T + T
        /\ ((crashes + 1) + 2) * T = (crashes + 1) * T + T + T
    <3>1. crashes + 1 \in Nat
      BY <1>3
    <3> QED BY <3>1, TimesTasks
  <2>3. Enqueuing' = {} /\ Cardinality(Enqueuing') = 0
    <3>1. Enqueuing' = {}
      BY <1>7 DEF Enqueuing
    <3> QED BY <3>1, FS_EmptySet
  <2>4. Enqueuing \in SUBSET Tasks
    BY DEF Enqueuing
  <2>5. Cardinality(Enqueuing) \in Nat
    BY <2>4, DurableAssumption, FS_Subset, FS_CardinalityType
  <2>6. IsFiniteSet(inFlight) /\ IsFiniteSet(queued)
    BY <1>3 DEF QueueSound
  <2>7. Cardinality(inFlight) \in Nat /\ Cardinality(queued) \in Nat
    BY <2>6, FS_CardinalityType
  <2>8. Orphans' \in SUBSET inFlight
    BY <1>2 DEF Orphans
  <2>9. Cardinality(Orphans') <= Cardinality(inFlight) /\ IsFiniteSet(Orphans')
    BY <2>6, <2>8, FS_Subset
  <2>10. Cardinality(Orphans') \in Nat
    BY <2>9, FS_CardinalityType
  <2>11. RetryCap \in Nat
    BY DurableAssumption DEF RetryCap
  <2>12. /\ Cardinality(inFlight) <= (crashes + 1) * T
         /\ Cardinality(queued) + Cardinality(inFlight) + Cardinality(Enqueuing)
              < RetryCap + (crashes + 2) * T
    BY <1>1 DEF CapInv, QueueNearCap
  <2> HIDE DEF T
  <2>13. Cardinality(Orphans') <= (crashes + 1) * T
    BY <2>1, <2>7, <2>9, <2>10, <2>12
  <2>14. Cardinality(inFlight) <= ((crashes + 1) + 1) * T
    BY <2>1, <2>2, <2>7, <2>12
  <2>15. Cardinality(queued) + Cardinality(inFlight) + 0 < RetryCap + ((crashes + 1) + 2) * T
    BY <2>1, <2>2, <2>5, <2>7, <2>11, <2>12
  <2>16. QueueNearCap'
    BY <1>2, <2>3, <2>15 DEF QueueNearCap, T
  <2> QED BY <1>2, <2>13, <2>14, <2>16 DEF CapInv, T
<1>11. OnePlaceInv'
  BY <1>2, <1>3 DEF OnePlaceInv
<1> QED BY <1>6, <1>8, <1>9, <1>10, <1>11 DEF DurableInv

(* Initially.                                                                *)
LEMMA DurableStarts ==
    ASSUME Init
    PROVE  DurableInv
<1> USE DEF Init
<1>1. /\ IsFiniteSet({}) /\ Cardinality({}) = 0
  BY FS_EmptySet
<1>2. \A k \in Tasks : task[k] = Idle
  OBVIOUS
<1>3. Holdings = {}
  BY DEF Holdings, Holding
<1>4. Shape
  <2>1. TypeOK
    <3>1. task \in [Tasks -> Task] /\ tries \in [Chains -> Nat]
      BY IdleFields
    <3>2. /\ queued = {} /\ inFlight = {} /\ seq \in Nat /\ now \in Nat /\ enqueued \in 0..MaxRecords
          /\ drainTimers = {} /\ crashes \in 0..MaxCrashes
      BY DurableAssumption
    <3>3. /\ stopped \in BOOLEAN /\ watcherStopped \in BOOLEAN /\ everStopped \in BOOLEAN
          /\ expired \in BOOLEAN
      OBVIOUS
    <3>4. /\ persisted = {} /\ delivered = {} /\ finished = {} /\ shed = {} /\ deadLettered = {}
      OBVIOUS
    <3> HIDE DEF Init
    <3> QED BY <3>1, <3>2, <3>3, <3>4 DEF TypeOK
  <2>2. QueueSound
    BY <1>1 DEF QueueSound
  <2>3. TasksSound
    <3> SUFFICES ASSUME NEW k \in Tasks PROVE TaskSound(task[k])
      BY DEF TasksSound
    <3>1. PICK x : x = task[k]
      OBVIOUS
    <3>2. x.at = "idle" /\ x.kind = "none" /\ x.retry = {} /\ x.id = 0 /\ x.nowMs = 0
      BY <1>2, <3>1, IdleFields
    <3>3. enqueued = 0 /\ now = 0
      OBVIOUS
    <3>4. TaskSound(x)
      BY <3>2, <3>3 DEF TaskSound
    <3> QED BY <3>1, <3>4
  <2>4. TriedSound
    BY <1>3 DEF TriedSound
  <2> QED BY <2>1, <2>2, <2>3, <2>4 DEF Shape
<1>5. SparedInv /\ RecordInv
  BY DEF SparedInv, RecordInv
<1>6. CapInv
  <2>1. /\ Cardinality(Tasks) \in Nat /\ 0 * Cardinality(Tasks) \in Nat
        /\ (0 + 1) * Cardinality(Tasks) = 0 * Cardinality(Tasks) + Cardinality(Tasks)
        /\ (0 + 2) * Cardinality(Tasks) = 0 * Cardinality(Tasks) + Cardinality(Tasks) + Cardinality(Tasks)
    BY TimesTasks
  <2>2. Orphans = {} /\ Enqueuing = {} /\ queued = {} /\ inFlight = {} /\ crashes = 0
    BY <1>2, IdleFields DEF Orphans, Enqueuing
  <2>3. RetryCap \in Nat /\ RetryCap >= 1
    BY DurableAssumption DEF RetryCap
  <2>4. QueueNearCap
    BY <1>1, <2>1, <2>2, <2>3 DEF QueueNearCap
  <2> QED BY <1>1, <2>1, <2>2, <2>4 DEF CapInv
<1>7. OnePlaceInv
  <2>1. \A k \in Tasks : ~Working(task[k])
    BY <1>2, IdleFields DEF Working
  <2>2. queued = {} /\ inFlight = {} /\ delivered = {}
    OBVIOUS
  <2> QED BY <2>1, <2>2 DEF OnePlaceInv, OnePlace, Orphans
<1> QED BY <1>4, <1>5, <1>6, <1>7 DEF DurableInv

-----------------------------------------------------------------------------
(* Every step of the process and of its calls.                               *)
LEMMA DurableStep ==
    ASSUME DurableInv, [Next]_vars
    PROVE  DurableInv'
<1>1. /\ TypeOK /\ TriedSound /\ TasksSound /\ now \in Nat /\ task \in [Tasks -> Task]
  BY DEF DurableInv, Shape, TypeOK
<1>2. CASE UNCHANGED vars
  BY <1>1, <1>2, StillKeeps DEF vars, life, TypeOK, TriedSound
<1>3. CASE Stop
  BY <1>1, <1>3, StillKeeps DEF Stop, TypeOK, TriedSound
<1>4. CASE WatcherStop
  <2>1. drainTimers' \subseteq Nat
    BY <1>1, <1>4 DEF WatcherStop, TypeOK
  <2> QED BY <1>1, <1>4, <2>1, StillKeeps DEF WatcherStop, TypeOK
<1>5. CASE Crash
  BY <1>5, CrashKeeps
<1>6. CASE Tick
  BY <1>1, <1>6, StillKeeps DEF Tick, life, TypeOK, TriedSound
<1>7. ASSUME NEW k \in Tasks, TaskStep(k) PROVE DurableInv'
  <2>1. CASE \E c \in Chains : FirstAttempt(k, c)
    BY <2>1, FirstAttemptKeeps
  <2>2. CASE Poll(k)
    <3>1. task[k].at = "idle" /\ ~watcherStopped /\ TakesOne(k, "poll", now)
      BY <1>1, <2>2, IdleFields DEF Poll, TriedSound
    <3> QED BY <1>1, <3>1, TakesOneKeeps
  <2>3. CASE DrainCalled(k) \/ \E t \in drainTimers : DrainTimerFires(k, t)
    BY <2>3, DrainStartKeeps
  <2>4. CASE DrainDequeues(k)
    <3>1. task[k].at = "dequeue" /\ task[k].nowMs \in Nat /\ task[k].nowMs <= now
      BY <1>1, <2>4 DEF DrainDequeues, TasksSound, TaskSound, Task
    <3>2. CASE watcherStopped
      BY <2>4, <3>1, <3>2, DrainEndsKeeps DEF DrainDequeues
    <3>3. CASE ~watcherStopped
      <4>1. TakesOne(k, "drain", task[k].nowMs)
        BY <2>4, <3>3 DEF DrainDequeues, DrainClock
      <4> QED BY <3>1, <3>3, <4>1, TakesOneKeeps
    <3> QED BY <3>2, <3>3
  <2>5. CASE AttemptSucceeds(k) \/ AttemptAbandoned(k) \/ AttemptFails(k) \/ AttemptFinal(k)
    BY <2>5, AttemptEndsKeep
  <2>6. CASE ReadSize(k)
    BY <2>6, ReadSizeKeeps
  <2>7. CASE Evict(k)
    BY <2>7, EvictKeeps
  <2>8. CASE AckRecord(k) \/ AckThenFail(k)
    BY <2>8, AckKeeps
  <2>9. CASE \E delay \in Delays : EnqueueRetry(k, delay) \/ NackRecord(k, delay)
    BY <2>9, EnqueueRetryKeeps, NackKeeps
  <2> QED BY <1>7, <2>1, <2>2, <2>3, <2>4, <2>5, <2>6, <2>7, <2>8, <2>9 DEF TaskStep
<1> QED BY <1>2, <1>3, <1>4, <1>5, <1>6, <1>7 DEF Next

(* The invariant holds in every state.                                       *)
LEMMA DurableAlways == Spec => []DurableInv
<1>1. Init => DurableInv
  BY DurableStarts
<1>2. DurableInv /\ [Next]_vars => DurableInv'
  BY DurableStep
<1> QED BY <1>1, <1>2, PTL DEF Spec

(* Every reachable state of the delivery and its queue is well formed.       *)
THEOREM DurableTyped == Spec => []TypeOK
<1>1. DurableInv => TypeOK
  BY DEF DurableInv, Shape
<1> QED BY <1>1, DurableAlways, PTL

(* persistRetry and its consumers, for any number of calls at work, crashes  *)
(* and expired claims: a persisted retry keeps a record in the queue until   *)
(* its chain is settled (while no watcher is stopped), what failed for good  *)
(* or was evicted is recorded or about to be, and the queue exceeds its cap  *)
(* by less than two records for each call and what crashes left.             *)
THEOREM RetriesAreAccounted == Spec => []RetriesAccounted
<1>1. DurableInv => RetriesAccounted
  <2> SUFFICES ASSUME DurableInv PROVE RetriesAccounted
    OBVIOUS
  <2>1. RetriesSurviveCrashes
    <3> SUFFICES ASSUME ~everStopped, NEW c \in persisted, c \notin delivered \cup finished \cup shed
                 PROVE  InQueue(c)
      BY DEF RetriesSurviveCrashes, RetriesSurvive
    <3>1. PICK h \in Holdings : h[2] = c
      BY DEF DurableInv, SparedInv, Settled
    <3>2. PICK z \in queued \cup inFlight : h = <<z.id, z.data.chain>>
      BY DEF Holdings, Holding
    <3> QED BY <3>1, <3>2 DEF InQueue
  <2>2. GivenUpIsRecorded
    <3> SUFFICES ASSUME crashes = 0, NEW c \in finished \cup shed, c \notin deadLettered
                 PROVE  \E k \in Tasks : WorksOn(k, c)
      BY DEF GivenUpIsRecorded
    <3>1. PICK k \in Tasks : WillRecord(task[k], c)
      BY DEF DurableInv, RecordInv
    <3> QED BY <3>1 DEF WillRecord, WorksOn
  <2>3. QueueNearCap
    BY DEF DurableInv, CapInv
  <2> QED BY <2>1, <2>2, <2>3 DEF RetriesAccounted
<1> QED BY <1>1, DurableAlways, PTL

(* The poller and any number of drains never attempt one delivery at once,   *)
(* nor one that was delivered, as long as no claim expired under a call at   *)
(* work and the process did not crash.                                       *)
THEOREM OneAttemptHolds == Spec => []OneAttemptWithinTimeout
<1>1. DurableInv => OneAttemptWithinTimeout
  <2> SUFFICES ASSUME DurableInv, OnePlace PROVE OneAttemptAtATime
    BY DEF OneAttemptWithinTimeout, DurableInv, OnePlaceInv
  <2>1. \A k \in Tasks : \A r \in task[k].retry : r.chain \in Chains /\ Chained(task[k], r.chain)
    BY DEF DurableInv, Shape, TypeOK, Task, Retry, Chained
  <2>2. \A k \in Tasks : task[k].at = "attempt" => Working(task[k])
    BY DEF Working
  <2> QED BY <2>1, <2>2 DEF OneAttemptAtATime, OnePlace
<1> QED BY <1>1, DurableAlways, PTL
=============================================================================
