--------------------------- MODULE RetryQueueProofs ---------------------------
(***************************************************************************)
(* The adapters of RetryQueue, for every number of consumers and records,   *)
(* every timeout, batch size and bound: the memory, Redis and Postgres      *)
(* queues implement the contract, and their claims are leases; the keys of  *)
(* Redis stay consistent for workers that die anywhere; and SqsRetryQueue   *)
(* on a standard queue loses nothing.                                       *)
(***************************************************************************)
EXTENDS MCRetryQueues, FiniteSetTheorems, SequenceTheorems, TLAPS

-----------------------------------------------------------------------------
(* MemoryRetryQueue.                                                         *)

(* The maps as maps: one entry per id in each, no id in both, no entry for   *)
(* an id that was never enqueued.                                            *)
Maps ==
    /\ \A x, y \in queued : x.id = y.id => x = y
    /\ \A x, y \in inFlight : x.id = y.id => x = y
    /\ \A x \in queued : \A y \in inFlight : x.id # y.id
    /\ \A x \in queued : x.id <= enqueued
    /\ \A x \in inFlight : x.id <= enqueued

(* A consumer holds only a record that was enqueued.                         *)
HeldKnown == \A c \in Consumers : held[c] # NoClaim => held[c].id <= enqueued

MemoryInv == MemoryTypeOK /\ Maps /\ HeldKnown

(* What the configured timeout becomes.                                      *)
LEMMA MemoryTimeoutNat == MemoryTimeout \in Nat
BY QueueAssumption DEF MemoryTimeout

(* Sets of ids are finite, so counting them gives a number.                  *)
LEMMA CountNat ==
    ASSUME NEW S \in SUBSET Ids
    PROVE  Cardinality(S) \in Nat
<1>1. S \in SUBSET Nat /\ \A s \in S : s <= MaxRecords
  BY QueueAssumption DEF Ids
<1>2. IsFiniteSet(S)
  BY <1>1, QueueAssumption, FS_BoundedSetOfNaturals
<1> QED BY <1>2, FS_CardinalityType

(* Two different records of a queue are never both its earliest due record.  *)
LEMMA DueFirstUnique ==
    ASSUME NEW Q \in SUBSET Queued, NEW t \in Nat,
           NEW x \in DueFirst(Q, t), NEW y \in DueFirst(Q, t)
    PROVE  x = y
<1>1. x \in Q /\ y \in Q /\ x.due <= t /\ y.due <= t
  BY DEF DueFirst
<1>2. (y = x \/ Earlier(x, y)) /\ (x = y \/ Earlier(y, x))
  BY <1>1 DEF DueFirst
<1>3. x.due \in Nat /\ y.due \in Nat /\ x.seq \in Nat /\ y.seq \in Nat
  BY <1>1 DEF Queued
<1> QED BY <1>2, <1>3 DEF Earlier

(* Reclaiming moves the expired claims' ids into the queue, once each.       *)
LEMMA ReclaimMoves ==
    ASSUME MemoryInv, NEW t \in Nat, NEW Q \in AfterReclaim(t)
    PROVE  /\ Q \subseteq Queued
           /\ \A x, y \in Q : x.id = y.id => x = y
           /\ IdsOf(Q) = IdsOf(queued) \cup IdsOf(Expired(t))
           /\ \A x \in Q : x.id <= enqueued
<1> DEFINE E == Expired(t)
<1>1. PICK rank \in Ranks(IdsOf(E)) :
         Q = {y \in queued : y.id \notin IdsOf(E)}
                \cup {Requeued(x, t, seq + rank[x.id]) : x \in E}
  BY DEF AfterReclaim
<1>2. E \subseteq inFlight /\ E \subseteq Claims
  BY DEF Expired, MemoryInv, MemoryTypeOK
<1>3. IdsOf(E) \subseteq Ids
  BY <1>2 DEF IdsOf, Claims
<1>4. Cardinality(IdsOf(E)) \in Nat
  BY <1>3, CountNat
<1>5. rank \in [IdsOf(E) -> 0..(Cardinality(IdsOf(E)) - 1)]
  BY DEF Ranks
<1>6. \A x \in E : x.id \in IdsOf(E)
  BY DEF IdsOf
<1>7. \A x \in E : rank[x.id] \in Nat
  BY <1>4, <1>5, <1>6
<1>8. seq \in Nat
  BY DEF MemoryInv, MemoryTypeOK
<1>9. \A x \in E : x.id \in Ids /\ x.data \in Records
  BY <1>2 DEF Claims
<1>10. \A x \in E : /\ Requeued(x, t, seq + rank[x.id]) \in Queued
                    /\ Requeued(x, t, seq + rank[x.id]).id = x.id
  BY <1>7, <1>8, <1>9 DEF Requeued, Queued
<1> HIDE DEF E
<1>11. \A y \in Q : \/ y \in queued /\ y.id \notin IdsOf(E)
                    \/ \E x \in E : y = Requeued(x, t, seq + rank[x.id])
  BY <1>1
<1>12. Q \subseteq Queued
  BY <1>11, <1>10 DEF MemoryInv, MemoryTypeOK
<1>13. \A x, y \in Q : x.id = y.id => x = y
  BY <1>11, <1>10, <1>6, <1>2 DEF MemoryInv, Maps
<1>14. IdsOf(Q) = IdsOf(queued) \cup IdsOf(E)
  <2>1. \A i \in IdsOf(Q) : i \in IdsOf(queued) \cup IdsOf(E)
    BY <1>11, <1>10 DEF IdsOf
  <2>2. \A i \in IdsOf(E) : i \in IdsOf(Q)
    BY <1>1, <1>10 DEF IdsOf
  <2>3. \A i \in IdsOf(queued) : i \in IdsOf(Q)
    <3>1. TAKE i \in IdsOf(queued)
    <3>2. CASE i \in IdsOf(E)
      BY <3>2, <2>2
    <3>3. CASE i \notin IdsOf(E)
      BY <3>3, <1>1 DEF IdsOf
    <3> QED BY <3>2, <3>3
  <2> QED BY <2>1, <2>2, <2>3
<1>15. \A x \in Q : x.id <= enqueued
  BY <1>11, <1>10, <1>2 DEF MemoryInv, Maps
<1> QED BY <1>12, <1>13, <1>14, <1>15 DEF E

-----------------------------------------------------------------------------
(* Enqueue keeps the invariant and is the contract's Enqueue.                *)
LEMMA EnqueueStep ==
    ASSUME MemoryInv, NEW d \in Records, NEW delay \in Delays, Enqueue(d, delay)
    PROVE  MemoryInv' /\ MemoryContract!Next
<1> DEFINE i == enqueued + 1
           x == [id |-> i, data |-> d, due |-> now + delay, seq |-> seq]
<1>1. /\ i \in Ids /\ enqueued' = i /\ inFlight' = inFlight
      /\ queued' = {y \in queued : y.id # i} \cup {x}
      /\ seq' = seq + 1 /\ now' = now /\ held' = held /\ gone' = gone
  BY DEF Enqueue, EnqueueOp, PutQueued
<1>2. /\ enqueued \in 0..MaxRecords /\ now \in Nat /\ seq \in Nat
      /\ queued \subseteq Queued /\ inFlight \subseteq Claims
      /\ gone \subseteq 1..enqueued
  BY DEF MemoryInv, MemoryTypeOK
<1>3. delay \in Nat /\ MaxRecords \in Nat
  BY QueueAssumption
<1>4. x \in Queued /\ x.id = i
  BY <1>1, <1>2, <1>3 DEF Queued
<1>5. \A y \in queued \cup inFlight : y.id \in Nat /\ y.id <= enqueued
  BY <1>2 DEF MemoryInv, Maps, Queued, Claims, Ids
<1> HIDE DEF x
<1>6. queued' = queued \cup {x}
  BY <1>1, <1>2, <1>5
<1>7. MemoryTypeOK'
  BY <1>1, <1>2, <1>3, <1>4, <1>6 DEF MemoryTypeOK, MemoryInv, Ids
<1>8. Maps'
  BY <1>1, <1>2, <1>4, <1>5, <1>6 DEF Maps, MemoryInv
<1>12. HeldKnown'
  BY <1>1, <1>2 DEF HeldKnown, MemoryInv, MemoryTypeOK, Claims, Ids
<1>9. IdsOf(queued)' = IdsOf(queued) \cup {i}
  BY <1>4, <1>6 DEF IdsOf
<1>10. (1..enqueued)' = (1..enqueued) \cup {i} /\ i \notin 1..enqueued
  BY <1>1, <1>2, <1>3
<1>11. MemoryContract!Enqueue(i)
  BY <1>1, <1>9, <1>10 DEF MemoryContract!Enqueue, IdsOf
<1> QED BY <1>1, <1>7, <1>8, <1>11, <1>12 DEF MemoryInv, MemoryContract!Next

(* What a dequeue at time now does to the two maps.                          *)
LEMMA DequeueStep ==
    ASSUME MemoryInv, NEW c \in Consumers, Dequeue(c)
    PROVE  MemoryInv' /\ MemoryContract!Next
<1>1. PICK Q \in AfterReclaim(now) :
         /\ DequeueOp(Q, now)
         /\ \/ HandsOut(Q, now) = {} /\ UNCHANGED held
            \/ \E x \in HandsOut(Q, now) : held' = [held EXCEPT ![c] = x]
  BY DEF Dequeue
<1>2. now' = now /\ enqueued' = enqueued /\ gone' = gone
  BY DEF Dequeue
<1>3. /\ enqueued \in 0..MaxRecords /\ now \in Nat /\ seq \in Nat
      /\ queued \subseteq Queued /\ inFlight \subseteq Claims
      /\ gone \subseteq 1..enqueued
      /\ held \in [Consumers -> Claims \cup {NoClaim}]
  BY DEF MemoryInv, MemoryTypeOK
<1> DEFINE E == Expired(now)
           D == DueFirst(Q, now)
           H == HandsOut(Q, now)
           I == inFlight \ E
<1>4. /\ Q \subseteq Queued
      /\ \A x, y \in Q : x.id = y.id => x = y
      /\ IdsOf(Q) = IdsOf(queued) \cup IdsOf(E)
      /\ \A x \in Q : x.id <= enqueued
  BY <1>3, ReclaimMoves
<1>5. D \subseteq Q /\ \A x, y \in D : x = y
  BY <1>3, <1>4, DueFirstUnique DEF DueFirst
<1>6. /\ queued' = Q \ D
      /\ inFlight' = {y \in I : y.id \notin IdsOf(D)} \cup H
      /\ seq' = seq + Cardinality(IdsOf(E))
  BY <1>1 DEF DequeueOp
<1>7. E \subseteq inFlight
  BY DEF Expired
<1>8. \A x \in Q : \A y \in I : x.id # y.id
  <2>1. TAKE x \in Q
  <2>2. TAKE y \in I
  <2>3. CASE x.id \in IdsOf(queued)
    BY <2>3 DEF IdsOf, MemoryInv, Maps
  <2>4. CASE x.id \in IdsOf(E)
    BY <2>4, <1>7 DEF IdsOf, MemoryInv, Maps
  <2>5. x.id \in IdsOf(Q)
    BY DEF IdsOf
  <2> QED BY <2>3, <2>4, <2>5, <1>4
<1>9. \A z \in H : \E x \in D : z = ClaimOf(x, now)
  BY DEF HandsOut
<1>10. \A x \in D : /\ ClaimOf(x, now) \in H
                    /\ ClaimOf(x, now) \in Claims
                    /\ ClaimOf(x, now).id = x.id
  <2>1. \A x \in D : x \in Queued
    BY <1>4, <1>5
  <2>2. now + MemoryTimeout \in Nat
    BY <1>3, MemoryTimeoutNat
  <2> QED BY <2>1, <2>2 DEF HandsOut, ClaimOf, Queued, Claims
<1>11. Cardinality(IdsOf(E)) \in Nat
  <2>1. IdsOf(E) \subseteq Ids
    BY <1>3, <1>7 DEF IdsOf, Claims
  <2> QED BY <2>1, CountNat
<1> HIDE DEF E, D, H
<1>12. inFlight' = I \cup H
  <2>1. \A y \in I : y.id \notin IdsOf(D)
    BY <1>5, <1>8 DEF IdsOf
  <2> QED BY <1>6, <2>1
<1>13. H \subseteq Claims
  BY <1>9, <1>10
<1>14. held' \in [Consumers -> Claims \cup {NoClaim}]
  BY <1>1, <1>3, <1>13 DEF H
<1>15. MemoryTypeOK'
  BY <1>2, <1>3, <1>4, <1>6, <1>7, <1>11, <1>12, <1>13, <1>14 DEF MemoryTypeOK
<1>16. Maps'
  <2>1. \A x, y \in queued' : x.id = y.id => x = y
    BY <1>4, <1>6
  <2>2. \A x \in H : \A y \in I : x.id # y.id
    BY <1>5, <1>8, <1>9, <1>10
  <2>3. \A x, y \in H : x = y
    BY <1>5, <1>9
  <2>4. \A x, y \in inFlight' : x.id = y.id => x = y
    BY <1>12, <2>2, <2>3 DEF MemoryInv, Maps
  <2>5. \A x \in queued' : \A y \in inFlight' : x.id # y.id
    <3>1. \A x \in queued' : \A y \in H : x.id # y.id
      BY <1>4, <1>5, <1>6, <1>9, <1>10
    <3> QED BY <1>6, <1>8, <1>12, <3>1
  <2>6. \A x \in inFlight' : x.id <= enqueued'
    BY <1>2, <1>4, <1>5, <1>9, <1>10, <1>12 DEF MemoryInv, Maps
  <2> QED BY <1>2, <1>4, <1>6, <2>1, <2>4, <2>5, <2>6 DEF Maps
<1>17. MemoryContract!Dequeue(IdsOf(E), IdsOf(D))
  <2>1. IdsOf(E) \subseteq IdsOf(inFlight)
    BY <1>7 DEF IdsOf
  <2>2. IdsOf(D) \subseteq IdsOf(queued) \cup IdsOf(E)
    BY <1>4, <1>5 DEF IdsOf
  <2>3. \A i, j \in IdsOf(D) : i = j
    BY <1>5 DEF IdsOf
  <2>4. IdsOf(queued)' = (IdsOf(queued) \cup IdsOf(E)) \ IdsOf(D)
    <3>1. IdsOf(Q \ D) = IdsOf(Q) \ IdsOf(D)
      BY <1>4, <1>5 DEF IdsOf
    <3> QED BY <1>4, <1>6, <3>1 DEF IdsOf
  <2>5. IdsOf(inFlight)' = (IdsOf(inFlight) \ IdsOf(E)) \cup IdsOf(D)
    <3>1. IdsOf(I) = IdsOf(inFlight) \ IdsOf(E)
      BY <1>7 DEF IdsOf, MemoryInv, Maps
    <3>2. IdsOf(H) = IdsOf(D)
      BY <1>9, <1>10 DEF IdsOf
    <3>3. IdsOf(I \cup H) = IdsOf(I) \cup IdsOf(H)
      BY DEF IdsOf
    <3>4. IdsOf(inFlight)' = IdsOf(I \cup H)
      BY <1>12 DEF IdsOf
    <3> QED BY <3>1, <3>2, <3>3, <3>4
  <2> QED BY <1>2, <2>1, <2>2, <2>3, <2>4, <2>5 DEF MemoryContract!Dequeue
<1>18. IdsOf(E) \in SUBSET IdsOf(inFlight) /\ IdsOf(D) \in SUBSET (IdsOf(queued) \cup IdsOf(E))
  BY <1>17 DEF MemoryContract!Dequeue
<1>19. HeldKnown'
  <2>1. \A z \in H : z.id <= enqueued
    BY <1>4, <1>5, <1>9, <1>10
  <2>2. held' = held \/ \E z \in H : held' = [held EXCEPT ![c] = z]
    BY <1>1 DEF H
  <2> QED BY <1>2, <1>3, <2>1, <2>2 DEF HeldKnown, MemoryInv
<1> QED BY <1>15, <1>16, <1>17, <1>18, <1>19 DEF MemoryInv, MemoryContract!Next

(* Removing a set of claims, or of queued records, by id.                    *)
LEMMA IdsWithout ==
    ASSUME NEW S, NEW i
    PROVE  IdsOf({y \in S : y.id # i}) = IdsOf(S) \ {i}
BY DEF IdsOf

(* A consumer that lets go of its claim keeps held well typed.               *)
LEMMA LetGoTyped ==
    ASSUME MemoryInv, NEW c \in Consumers, held' = [held EXCEPT ![c] = NoClaim]
    PROVE  held' \in [Consumers -> Claims \cup {NoClaim}]
BY DEF MemoryInv, MemoryTypeOK

(* ack is the contract's Ack, also when the claim has expired and the record *)
(* was reclaimed or settled by another consumer.                             *)
LEMMA AckStep ==
    ASSUME MemoryInv, NEW c \in Consumers, Ack(c)
    PROVE  MemoryInv' /\ (MemoryContract!Next \/ UNCHANGED MemoryContract!vars)
<1> DEFINE i == held[c].id
<1>1. /\ inFlight' = {x \in inFlight : x.id # i}
      /\ queued' = queued /\ seq' = seq /\ now' = now /\ enqueued' = enqueued
      /\ gone' = gone \cup {i}
      /\ held' = [held EXCEPT ![c] = NoClaim]
      /\ held[c] # NoClaim
  BY DEF Ack, Settles, AckOp
<1>2. i \in Ids
  BY <1>1 DEF MemoryInv, MemoryTypeOK, Claims
<1>3. i \in 1..enqueued
  BY <1>1, <1>2 DEF MemoryInv, MemoryTypeOK, HeldKnown, Ids
<1>4. MemoryTypeOK'
  BY <1>1, <1>3, LetGoTyped DEF MemoryInv, MemoryTypeOK
<1>5. Maps' /\ HeldKnown'
  BY <1>1 DEF MemoryInv, MemoryTypeOK, Maps, HeldKnown
<1>6. IdsOf(inFlight)' = IdsOf(inFlight) \ {i}
  <2>1. IdsOf(inFlight)' = IdsOf({x \in inFlight : x.id # i})
    BY <1>1 DEF IdsOf
  <2> QED BY <2>1, IdsWithout
<1>7. UNCHANGED <<1..enqueued, IdsOf(queued)>>
  BY <1>1 DEF IdsOf
<1> HIDE DEF i
<1>8. MemoryContract!Ack(i)
  BY <1>1, <1>3, <1>6, <1>7 DEF MemoryContract!Ack
<1> QED BY <1>2, <1>4, <1>5, <1>8 DEF MemoryInv, MemoryContract!Next

(* nack is the contract's Nack, or does nothing.                             *)
LEMMA NackStep ==
    ASSUME MemoryInv, NEW c \in Consumers, NEW delay \in Delays, Nack(c, delay)
    PROVE  MemoryInv' /\ (MemoryContract!Next \/ UNCHANGED MemoryContract!vars)
<1> DEFINE i == held[c].id
<1>1. /\ now' = now /\ enqueued' = enqueued /\ gone' = gone
      /\ held' = [held EXCEPT ![c] = NoClaim]
      /\ held[c] # NoClaim
      /\ NackOp(i, now + delay)
  BY DEF Nack, Settles
<1>2. i \in Ids
  BY <1>1 DEF MemoryInv, MemoryTypeOK, Claims
<1>3. now + delay \in Nat
  BY QueueAssumption DEF MemoryInv, MemoryTypeOK
<1>4. held' \in [Consumers -> Claims \cup {NoClaim}]
  BY <1>1, LetGoTyped
<1>7. HeldKnown'
  BY <1>1 DEF HeldKnown, MemoryInv, MemoryTypeOK
<1> HIDE DEF i
<1>5. CASE i \notin IdsOf(inFlight)
  <2>1. queued' = queued /\ inFlight' = inFlight /\ seq' = seq
    BY <1>1, <1>5 DEF NackOp, queueVars
  <2>2. MemoryInv'
    BY <1>1, <1>4, <1>7, <2>1 DEF MemoryInv, MemoryTypeOK, Maps
  <2>3. UNCHANGED MemoryContract!vars
    BY <1>1, <2>1 DEF MemoryContract!vars, IdsOf
  <2> QED BY <2>2, <2>3
<1>6. CASE i \in IdsOf(inFlight)
  <2>1. PICK x \in inFlight :
          /\ x.id = i
          /\ queued' = PutQueued(queued, [id |-> i, data |-> x.data, due |-> now + delay, seq |-> seq])
          /\ inFlight' = {y \in inFlight : y.id # i}
          /\ seq' = seq + 1
    BY <1>1, <1>6 DEF NackOp
  <2> DEFINE n == [id |-> i, data |-> x.data, due |-> now + delay, seq |-> seq]
  <2>2. n \in Queued /\ n.id = i
    BY <1>2, <1>3 DEF MemoryInv, MemoryTypeOK, Queued, Claims
  <2>3. queued' = {y \in queued : y.id # i} \cup {n}
    BY <2>1, <2>2 DEF PutQueued
  <2>4. i \notin IdsOf(queued) /\ i <= enqueued
    BY <2>1 DEF IdsOf, MemoryInv, Maps
  <2> HIDE DEF n
  <2>5. queued' = queued \cup {n}
    BY <2>3, <2>4 DEF IdsOf
  <2>6. MemoryTypeOK'
    BY <1>1, <1>4, <2>1, <2>2, <2>5 DEF MemoryInv, MemoryTypeOK
  <2>7. Maps'
    <3>1. \A y \in queued : y.id # i
      BY <2>4 DEF IdsOf
    <3> QED BY <1>1, <2>1, <2>2, <2>4, <2>5, <3>1 DEF MemoryInv, Maps
  <2>8. IdsOf(queued)' = IdsOf(queued) \cup {i}
    BY <2>2, <2>5 DEF IdsOf
  <2>9. IdsOf(inFlight)' = IdsOf(inFlight) \ {i}
    <3>1. IdsOf(inFlight)' = IdsOf({y \in inFlight : y.id # i})
      BY <2>1 DEF IdsOf
    <3> QED BY <3>1, IdsWithout
  <2>10. MemoryContract!Nack(i)
    BY <1>1, <1>6, <2>8, <2>9 DEF MemoryContract!Nack
  <2> QED BY <1>2, <1>7, <2>6, <2>7, <2>10 DEF MemoryInv, MemoryContract!Next
<1> QED BY <1>5, <1>6

(* evictNewest is the contract's EvictNewest, or finds the queue empty.      *)
LEMMA EvictStep ==
    ASSUME MemoryInv, EvictNewest
    PROVE  MemoryInv' /\ (MemoryContract!Next \/ UNCHANGED MemoryContract!vars)
<1>1. /\ queued' = queued \ Newest /\ inFlight' = inFlight /\ seq' = seq
      /\ now' = now /\ enqueued' = enqueued /\ held' = held
      /\ gone' = gone \cup IdsOf(Newest)
  BY DEF EvictNewest, EvictNewestOp
<1>2. MemoryInv'
  <2>1. \A x \in Newest : x.id \in 1..enqueued
    BY DEF Newest, MemoryInv, Maps, MemoryTypeOK, Queued, Ids
  <2>2. gone' \subseteq 1..enqueued
    BY <1>1, <2>1 DEF IdsOf, MemoryInv, MemoryTypeOK
  <2> QED BY <1>1, <2>2 DEF MemoryInv, MemoryTypeOK, Maps, HeldKnown
<1>3. \A x, y \in Newest : x = y
  <2>1. SUFFICES ASSUME NEW x \in Newest, NEW y \in Newest, x # y
                 PROVE  FALSE
    OBVIOUS
  <2>2. Earlier(x, y) /\ Earlier(y, x)
    BY <2>1 DEF Newest
  <2>3. x \in Queued /\ y \in Queued
    BY DEF Newest, MemoryInv, MemoryTypeOK
  <2> QED BY <2>2, <2>3 DEF Earlier, Queued
<1>4. CASE Newest = {}
  <2>1. UNCHANGED MemoryContract!vars
    BY <1>1, <1>4 DEF MemoryContract!vars, IdsOf
  <2> QED BY <1>2, <2>1
<1>5. CASE Newest # {}
  <2>1. PICK x \in Newest : TRUE
    BY <1>5
  <2>2. x \in queued /\ x.id \in Ids /\ queued' = {y \in queued : y # x}
    BY <1>1, <1>3, <2>1 DEF Newest, MemoryInv, MemoryTypeOK, Queued
  <2>7. gone' = gone \cup {x.id}
    BY <1>1, <1>3, <2>1 DEF IdsOf
  <2>3. queued' = {y \in queued : y.id # x.id}
    BY <2>2 DEF MemoryInv, Maps
  <2>4. IdsOf(queued)' = IdsOf(queued) \ {x.id}
    <3>1. IdsOf(queued)' = IdsOf({y \in queued : y.id # x.id})
      BY <2>3 DEF IdsOf
    <3> QED BY <3>1, IdsWithout
  <2>5. x.id \in IdsOf(queued)
    BY <2>2 DEF IdsOf
  <2>6. MemoryContract!EvictNewest(x.id)
    BY <1>1, <2>4, <2>5, <2>7 DEF MemoryContract!EvictNewest, IdsOf
  <2> QED BY <1>2, <2>2, <2>6 DEF MemoryContract!Next
<1> QED BY <1>4, <1>5

-----------------------------------------------------------------------------
(* The invariant holds at the start.                                         *)
LEMMA MemoryInitInv == MemoryInit => MemoryInv /\ MemoryContract!Init
<1> SUFFICES ASSUME MemoryInit PROVE MemoryInv /\ MemoryContract!Init
  OBVIOUS
<1>1. MemoryInv
  BY QueueAssumption DEF MemoryInit, MemoryInv, MemoryTypeOK, Maps, HeldKnown
<1>2. MemoryContract!Init
  BY DEF MemoryInit, MemoryContract!Init, IdsOf
<1> QED BY <1>1, <1>2

(* Every step keeps the invariant and is a step of the contract or none.     *)
LEMMA MemoryStepInv == MemoryInv /\ [MemoryNext]_memoryVars => MemoryInv' /\ [MemoryContract!Next]_(MemoryContract!vars)
<1> SUFFICES ASSUME MemoryInv, [MemoryNext]_memoryVars
             PROVE  MemoryInv' /\ (MemoryContract!Next \/ UNCHANGED MemoryContract!vars)
  OBVIOUS
<1>1. CASE \E d \in Records, delay \in Delays : Enqueue(d, delay)
  BY <1>1, EnqueueStep
<1>2. ASSUME NEW c \in Consumers, Dequeue(c)
      PROVE  MemoryInv' /\ (MemoryContract!Next \/ UNCHANGED MemoryContract!vars)
  BY <1>2, DequeueStep
<1>3. ASSUME NEW c \in Consumers, Ack(c)
      PROVE  MemoryInv' /\ (MemoryContract!Next \/ UNCHANGED MemoryContract!vars)
  BY <1>3, AckStep
<1>4. ASSUME NEW c \in Consumers, NEW delay \in Delays, Nack(c, delay)
      PROVE  MemoryInv' /\ (MemoryContract!Next \/ UNCHANGED MemoryContract!vars)
  BY <1>4, NackStep
<1>5. ASSUME NEW c \in Consumers, ConsumerDies(c)
      PROVE  MemoryInv' /\ (MemoryContract!Next \/ UNCHANGED MemoryContract!vars)
  <2>1. /\ queued' = queued /\ inFlight' = inFlight /\ seq' = seq
        /\ now' = now /\ enqueued' = enqueued /\ gone' = gone
        /\ held' = [held EXCEPT ![c] = NoClaim]
    BY <1>5 DEF ConsumerDies, queueVars
  <2>2. MemoryInv'
    BY <2>1, LetGoTyped DEF MemoryInv, MemoryTypeOK, Maps, HeldKnown
  <2>3. UNCHANGED MemoryContract!vars
    BY <2>1 DEF MemoryContract!vars, IdsOf
  <2> QED BY <2>2, <2>3
<1>6. CASE EvictNewest
  BY <1>6, EvictStep
<1>7. CASE MemoryTick \/ UNCHANGED memoryVars
  <2>1. /\ queued' = queued /\ inFlight' = inFlight /\ seq' = seq
        /\ enqueued' = enqueued /\ gone' = gone /\ held' = held
        /\ now' = now \/ now' = now + 1
    BY <1>7 DEF MemoryTick, ClockTicks, memoryVars, queueVars
  <2>2. MemoryInv'
    BY <2>1 DEF MemoryInv, MemoryTypeOK, Maps, HeldKnown
  <2>3. UNCHANGED MemoryContract!vars
    BY <2>1 DEF MemoryContract!vars, IdsOf
  <2> QED BY <2>2, <2>3
<1> QED BY <1>1, <1>2, <1>3, <1>4, <1>5, <1>6, <1>7 DEF MemoryNext

(* MemoryRetryQueue's state is always well typed.                            *)
THEOREM QueueTyped == MemorySpec => []MemoryTypeOK
<1>1. MemorySpec => []MemoryInv
  BY MemoryInitInv, MemoryStepInv, PTL DEF MemorySpec
<1>2. MemoryInv => MemoryTypeOK
  BY DEF MemoryInv
<1> QED BY <1>1, <1>2, PTL

(* MemoryRetryQueue implements the RetryQueue contract: every record stays   *)
(* in exactly one of the two maps until it is acked or evicted, however many *)
(* consumers there are, whenever they die and however late they settle.      *)
THEOREM QueueImplementsContract == MemorySpec => MemoryImplementsContract
<1>1. MemoryInv /\ [MemoryNext]_memoryVars => [MemoryContract!Next]_(MemoryContract!vars)
  BY MemoryStepInv
<1>2. MemorySpec => []MemoryInv
  BY MemoryInitInv, MemoryStepInv, PTL DEF MemorySpec
<1>3. MemoryInit => MemoryContract!Init
  BY MemoryInitInv
<1> QED BY <1>1, <1>2, <1>3, PTL DEF MemorySpec, MemoryImplementsContract, MemoryContract!Spec

-----------------------------------------------------------------------------
(* RedisRetryQueue.                                                          *)

(* The part of the invariant about the four keys.                            *)
Store ==
    /\ zqueue \subseteq Members
    /\ zflight \subseteq Scored
    /\ OneMemberPerRecord
    /\ IndexMirrorsSets
    /\ \A m \in zqueue : m.id <= added
    /\ \A f \in zflight : f.member.id <= added

(* The part about the rest: types, and workers hold only known records.      *)
Rest ==
    /\ now \in Nat
    /\ added \in 0..MaxRecords
    /\ settled \subseteq 1..added
    /\ work \in [Workers -> Work]
    /\ \A w \in Workers : \A f \in work[w].claim : f.member.id <= added

(* The claims an older build left without an index entry are of records no   *)
(* worker has been handed since.                                             *)
Unindexed == InFlightMembers \ hflight
HeldIndexed == \A w \in Workers : \A f \in work[w].claim : \A m \in Unindexed : m.id # f.member.id

RedisInv == Store /\ Rest /\ HeldIndexed

(* The invariant contains the type invariant.                                *)
LEMMA StoreTyped == RedisInv => RedisTypeOK
<1> SUFFICES ASSUME RedisInv PROVE RedisTypeOK
  OBVIOUS
<1>1. hqueue \subseteq Members
  BY DEF RedisInv, Store, IndexMirrorsSets
<1>2. hflight \subseteq Members
  BY DEF RedisInv, Store, IndexMirrorsSets, InFlightMembers, Scored
<1> QED BY <1>1, <1>2 DEF RedisInv, Store, Rest, RedisTypeOK

(* The clamped timeout is a number.                                          *)
LEMMA RedisTimeoutNat == RedisTimeout \in Nat
BY QueueAssumption, RedisAssumption DEF RedisTimeout

(* Members are records with these fields.                                    *)
LEMMA MemberTyped ==
    ASSUME NEW i \in Ids, NEW t \in Nat
    PROVE  Member(i, t) \in Members /\ Member(i, t).id = i
BY DEF Member, Members

(* What the queue looks like after PutMember of a member whose id was not in *)
(* the queue.                                                                *)
LEMMA PutFresh ==
    ASSUME Store, NEW m \in Members, \A n \in zqueue : n.id # m.id, PutMember(m)
    PROVE  zqueue' = zqueue \cup {m} /\ hqueue' = zqueue'
BY DEF Store, IndexMirrorsSets, PutMember, HSet

(* How the contract sees the sets.                                           *)
LEMMA IdsPlus ==
    ASSUME NEW S, NEW m
    PROVE  IdsOf(S \cup {m}) = IdsOf(S) \cup {m.id}
BY DEF IdsOf

-----------------------------------------------------------------------------
(* ENQUEUE of a new record is the contract's RedisEnqueue.                        *)
LEMMA EnqueueKeeps ==
    ASSUME RedisInv, NEW w \in Workers, NEW delay \in Delays, RedisEnqueue(w, delay)
    PROVE  RedisInv' /\ RedisContract!Next
<1> DEFINE i == added + 1
           m == Member(i, now + delay)
<1>1. /\ added < MaxRecords /\ added' = i /\ now' = now /\ settled' = settled /\ work' = work
      /\ zflight' = zflight /\ hflight' = hflight /\ PutMember(m)
  BY DEF RedisEnqueue, EnqueueScript
<1>2. /\ added \in Nat /\ i \in Ids /\ now + delay \in Nat /\ MaxRecords \in Nat
  BY <1>1, QueueAssumption, RedisAssumption DEF RedisInv, Rest, Ids
<1>3. m \in Members /\ m.id = i
  BY <1>2, MemberTyped
<1> HIDE DEF m
<1>4. \A n \in zqueue : n.id # i
  BY <1>2 DEF RedisInv, Store, Members, Ids
<1>5. \A f \in zflight : f.member.id # i
  BY <1>2 DEF RedisInv, Store, Members, Scored, Ids
<1>6. zqueue' = zqueue \cup {m} /\ hqueue' = zqueue'
  BY <1>1, <1>3, <1>4, PutFresh DEF RedisInv
<1>7. Store'
  <2>1. zqueue' \subseteq Members /\ zflight' \subseteq Scored
    BY <1>1, <1>3, <1>6 DEF RedisInv, Store
  <2>2. OneMemberPerRecord'
    BY <1>1, <1>3, <1>4, <1>5, <1>6 DEF RedisInv, Store, OneMemberPerRecord
  <2>3. IndexMirrorsSets'
    BY <1>1, <1>6 DEF RedisInv, Store, IndexMirrorsSets, InFlightMembers
  <2>4. (\A n \in zqueue' : n.id <= added') /\ (\A f \in zflight' : f.member.id <= added')
    BY <1>1, <1>2, <1>3, <1>6 DEF RedisInv, Store, Members, Scored, Ids
  <2> QED BY <2>1, <2>2, <2>3, <2>4 DEF Store
<1>8. Rest'
  <2>1. \A v \in Workers : \A f \in work[v].claim : f.member.id \in Nat
    BY DEF RedisInv, Rest, Work, Scored, Members, Ids
  <2> QED BY <1>1, <1>2, <2>1 DEF RedisInv, Rest
<1>9. RedisContract!Enqueue(i)
  <2>1. (1..added)' = (1..added) \cup {i} /\ i \notin 1..added
    BY <1>1, <1>2
  <2>2. IdsOf(zqueue)' = IdsOf(zqueue) \cup {i}
    BY <1>3, <1>6, IdsPlus DEF IdsOf
  <2>3. UNCHANGED <<IdsOf(InFlightMembers), settled>>
    BY <1>1 DEF IdsOf, InFlightMembers
  <2> QED BY <2>1, <2>2, <2>3 DEF RedisContract!Enqueue
<1>10. HeldIndexed'
  BY <1>1 DEF RedisInv, HeldIndexed, Unindexed, InFlightMembers
<1> QED BY <1>2, <1>7, <1>8, <1>9, <1>10 DEF RedisInv, RedisContract!Next

(* CLAIM of a queued member is the contract's Dequeue of one record.         *)
LEMMA ClaimKeeps ==
    ASSUME RedisInv, NEW m \in zqueue, NEW e \in Nat, ClaimScript(m, e),
           added' = added, settled' = settled
    PROVE  /\ Store' /\ RedisContract!Next
           /\ Unindexed' \subseteq Unindexed
           /\ \A n \in Unindexed' : n.id # m.id
<1> DEFINE g == [member |-> m, expiresAt |-> e]
<1>1. m \in Members /\ g \in Scored /\ g.member = m
  BY DEF RedisInv, Store, Scored
<1>2. \A f \in zflight : f.member.id # m.id /\ f.member # m
  BY DEF RedisInv, Store, OneMemberPerRecord
<1>3. \A n \in hflight : n.id # m.id
  BY <1>2 DEF RedisInv, Store, IndexMirrorsSets, InFlightMembers
<1>4. zqueue' = zqueue \ {m} /\ hqueue' = zqueue'
  BY DEF ClaimScript, ClaimIndex, RedisInv, Store, IndexMirrorsSets
<1>5. zflight' = zflight \cup {g}
  BY <1>2 DEF ClaimScript
<1>6. hflight' = hflight \cup {m}
  BY <1>3 DEF ClaimScript, HSet
<1> HIDE DEF g
<1>7. InFlightMembers' = InFlightMembers \cup {m}
  BY <1>1, <1>5 DEF InFlightMembers
<1>8. Store'
  <2>1. zqueue' \subseteq Members /\ zflight' \subseteq Scored
    BY <1>1, <1>4, <1>5 DEF RedisInv, Store
  <2>2. OneMemberPerRecord'
    BY <1>1, <1>2, <1>4, <1>5 DEF RedisInv, Store, OneMemberPerRecord
  <2>3. IndexMirrorsSets'
    BY <1>4, <1>6, <1>7 DEF RedisInv, Store, IndexMirrorsSets
  <2>4. (\A n \in zqueue' : n.id <= added') /\ (\A f \in zflight' : f.member.id <= added')
    BY <1>1, <1>4, <1>5 DEF RedisInv, Store
  <2> QED BY <2>1, <2>2, <2>3, <2>4 DEF Store
<1>9. IdsOf(zqueue)' = (IdsOf(zqueue) \cup {}) \ {m.id}
  BY <1>4 DEF IdsOf, RedisInv, Store, OneMemberPerRecord
<1>10. IdsOf(InFlightMembers)' = (IdsOf(InFlightMembers) \ {}) \cup {m.id}
  BY <1>7, IdsPlus DEF IdsOf
<1>11. m.id \in IdsOf(zqueue)
  BY DEF IdsOf
<1>12. RedisContract!Dequeue({}, {m.id})
  BY <1>9, <1>10, <1>11 DEF RedisContract!Dequeue
<1>13. {} \in SUBSET IdsOf(InFlightMembers) /\ {m.id} \in SUBSET (IdsOf(zqueue) \cup {})
  BY <1>11
<1>14. Unindexed' \subseteq Unindexed /\ \A n \in Unindexed' : n.id # m.id
  BY <1>2, <1>6, <1>7 DEF Unindexed, InFlightMembers
<1> QED BY <1>8, <1>12, <1>13, <1>14 DEF RedisContract!Next

(* What is left in flight when the member m leaves.                          *)
LEMMA FlightMinus ==
    ASSUME Store, NEW m \in InFlightMembers,
           zflight' = {f \in zflight : f.member # m}
    PROVE  /\ InFlightMembers' = InFlightMembers \ {m}
           /\ IdsOf(InFlightMembers)' = IdsOf(InFlightMembers) \ {m.id}
           /\ m \in Members /\ m.id <= added
           /\ \A n \in zqueue : n.id # m.id
           /\ \A f \in zflight' : f.member.id # m.id
           /\ m.id \in IdsOf(InFlightMembers)
<1>1. PICK g \in zflight : g.member = m
  BY DEF InFlightMembers
<1>2. m \in Members /\ m.id <= added /\ \A n \in zqueue : n.id # m.id
  BY <1>1 DEF Store, Scored, OneMemberPerRecord
<1>3. InFlightMembers' = InFlightMembers \ {m}
  BY DEF InFlightMembers
<1>4. \A n \in InFlightMembers : n.id = m.id => n = m
  BY <1>1 DEF InFlightMembers, Store, OneMemberPerRecord
<1>5. IdsOf(InFlightMembers)' = IdsOf(InFlightMembers \ {m})
  BY <1>3 DEF IdsOf
<1>6. IdsOf(InFlightMembers \ {m}) = IdsOf(InFlightMembers) \ {m.id}
  BY <1>4 DEF IdsOf
<1>7. \A f \in zflight' : f.member.id # m.id
  BY <1>4 DEF InFlightMembers
<1>8. m.id \in IdsOf(InFlightMembers)
  BY DEF IdsOf
<1> QED BY <1>2, <1>3, <1>5, <1>6, <1>7, <1>8

(* Leaving the in-flight set and its index keeps the store consistent.       *)
LEMMA LeaveKeeps ==
    ASSUME Store, NEW m \in InFlightMembers,
           zflight' = {f \in zflight : f.member # m}, hflight' = hflight \ {m},
           zqueue' = zqueue, hqueue' = hqueue, added' = added
    PROVE  Store' /\ Unindexed' \subseteq Unindexed
<1>1. InFlightMembers' = InFlightMembers \ {m}
  BY FlightMinus
<1>2. OneMemberPerRecord'
  BY DEF Store, OneMemberPerRecord
<1>3. IndexMirrorsSets'
  BY <1>1 DEF Store, IndexMirrorsSets
<1>4. Unindexed' \subseteq Unindexed
  BY <1>1 DEF Unindexed
<1> QED BY <1>2, <1>3, <1>4 DEF Store

(* Moving an in-flight member back to the queue under a new schedule is the  *)
(* contract's Nack: the tail of REQUEUE and of RECLAIM.                      *)
LEMMA MoveBackKeeps ==
    ASSUME RedisInv, NEW m \in InFlightMembers, NEW t \in Nat,
           zflight' = {f \in zflight : f.member # m}, hflight' = hflight \ {m},
           PutMember(Member(m.id, t)), added' = added, settled' = settled
    PROVE  Store' /\ RedisContract!Next /\ Unindexed' \subseteq Unindexed
<1> DEFINE b == Member(m.id, t)
<1>1. /\ InFlightMembers' = InFlightMembers \ {m}
      /\ IdsOf(InFlightMembers)' = IdsOf(InFlightMembers) \ {m.id}
      /\ m \in Members /\ m.id <= added
      /\ \A n \in zqueue : n.id # m.id
      /\ \A f \in zflight' : f.member.id # m.id
      /\ m.id \in IdsOf(InFlightMembers)
  BY FlightMinus DEF RedisInv
<1>2. m.id \in Ids /\ b \in Members /\ b.id = m.id
  BY <1>1, MemberTyped DEF Members
<1> HIDE DEF b
<1>3. zqueue' = zqueue \cup {b} /\ hqueue' = zqueue'
  BY <1>1, <1>2, PutFresh DEF RedisInv, b
<1>4. Store'
  <2>1. zqueue' \subseteq Members /\ zflight' \subseteq Scored
    BY <1>2, <1>3 DEF RedisInv, Store
  <2>2. OneMemberPerRecord'
    BY <1>1, <1>2, <1>3 DEF RedisInv, Store, OneMemberPerRecord
  <2>3. IndexMirrorsSets'
    BY <1>1, <1>3 DEF RedisInv, Store, IndexMirrorsSets
  <2>4. (\A n \in zqueue' : n.id <= added') /\ (\A f \in zflight' : f.member.id <= added')
    BY <1>1, <1>2, <1>3 DEF RedisInv, Store
  <2> QED BY <2>1, <2>2, <2>3, <2>4 DEF Store
<1>5. IdsOf(zqueue)' = IdsOf(zqueue) \cup {m.id}
  BY <1>2, <1>3, IdsPlus DEF IdsOf
<1>6. RedisContract!Nack(m.id)
  BY <1>1, <1>5 DEF RedisContract!Nack
<1>7. Unindexed' \subseteq Unindexed
  BY <1>1 DEF Unindexed
<1> QED BY <1>2, <1>4, <1>6, <1>7 DEF RedisContract!Next

(* The unique in-flight member of an indexed id.                             *)
LEMMA IndexedMember ==
    ASSUME RedisInv, NEW m \in hflight
    PROVE  /\ m \in InFlightMembers
           /\ {f \in zflight : f.member \notin {n \in hflight : n.id = m.id}}
                 = {f \in zflight : f.member # m}
           /\ HDel(hflight, m.id) = hflight \ {m}
<1>1. m \in InFlightMembers
  BY DEF RedisInv, Store, IndexMirrorsSets
<1>2. \A n \in InFlightMembers : n.id = m.id => n = m
  BY <1>1 DEF InFlightMembers, RedisInv, Store, OneMemberPerRecord
<1>3. {n \in hflight : n.id = m.id} = {m}
  BY <1>2 DEF RedisInv, Store, IndexMirrorsSets
<1> QED BY <1>1, <1>3 DEF HDel

(* ACK is the contract's RedisAck.                                                *)
LEMMA AckKeeps ==
    ASSUME RedisInv, NEW i \in 1..added, AckScript(i), \A m \in Unindexed : m.id # i,
           added' = added, settled' = settled \cup {i}
    PROVE  Store' /\ RedisContract!Next /\ Unindexed' \subseteq Unindexed
<1>1. zqueue' = zqueue /\ hqueue' = hqueue
  BY DEF AckScript
<1>2. i \in Ids
  BY QueueAssumption, RedisAssumption DEF RedisInv, Rest, Ids
<1>3. CASE \E m \in hflight : m.id = i
  <2>1. PICK m \in hflight : m.id = i
    BY <1>3
  <2>2. /\ m \in InFlightMembers
        /\ zflight' = {f \in zflight : f.member # m}
        /\ hflight' = hflight \ {m}
    BY <2>1, IndexedMember DEF AckScript
  <2>3. Store' /\ Unindexed' \subseteq Unindexed
    BY <1>1, <2>2, LeaveKeeps DEF RedisInv
  <2>4. IdsOf(InFlightMembers)' = IdsOf(InFlightMembers) \ {i}
    BY <2>1, <2>2, FlightMinus DEF RedisInv
  <2>5. RedisContract!Ack(i)
    BY <1>1, <2>4 DEF RedisContract!Ack, IdsOf
  <2> QED BY <1>2, <2>3, <2>5 DEF RedisContract!Next
<1>4. CASE \A m \in hflight : m.id # i
  <2>1. zflight' = zflight /\ hflight' = hflight
    BY <1>4 DEF AckScript, HDel
  <2>2. Store' /\ Unindexed' = Unindexed
    BY <1>1, <2>1 DEF RedisInv, Store, OneMemberPerRecord, IndexMirrorsSets, InFlightMembers, Unindexed
  <2>3. i \notin IdsOf(InFlightMembers)
    BY <1>4 DEF IdsOf, Unindexed
  <2>4. UNCHANGED <<1..added, IdsOf(zqueue), IdsOf(InFlightMembers)>>
    BY <1>1, <2>1 DEF IdsOf, InFlightMembers
  <2>5. RedisContract!Ack(i)
    BY <2>3, <2>4 DEF RedisContract!Ack
  <2> QED BY <1>2, <2>2, <2>5 DEF RedisContract!Next
<1> QED BY <1>3, <1>4

(* REQUEUE is the contract's Nack, or a stale requeue that does nothing.     *)
LEMMA RequeueKeeps ==
    ASSUME RedisInv, NEW m, NEW t \in Nat, RequeueScript(m, t),
           added' = added, settled' = settled
    PROVE  /\ Store' /\ Unindexed' \subseteq Unindexed
           /\ RedisContract!Next \/ UNCHANGED RedisContract!vars
<1>1. CASE m \in hflight
  <2>1. /\ m \in InFlightMembers
        /\ zflight' = {f \in zflight : f.member # m}
        /\ hflight' = hflight \ {m}
    BY <1>1, IndexedMember DEF RequeueScript, RequeueGuard
  <2>2. \E f \in zflight : f.member \in hflight /\ f.member.id = m.id
    BY <1>1, <2>1 DEF InFlightMembers
  <2>3. PutMember(Member(m.id, t))
    BY <1>1, <2>2 DEF RequeueScript, RequeueGuard
  <2> QED BY <2>1, <2>3, MoveBackKeeps
<1>2. CASE m \notin hflight
  <2>1. zqueue' = zqueue /\ hqueue' = hqueue /\ zflight' = zflight /\ hflight' = hflight
    BY <1>2 DEF RequeueScript, RequeueGuard, redisVars
  <2>2. Store' /\ Unindexed' = Unindexed
    BY <2>1 DEF RedisInv, Store, OneMemberPerRecord, IndexMirrorsSets, InFlightMembers, Unindexed
  <2>3. UNCHANGED RedisContract!vars
    BY <2>1 DEF RedisContract!vars, IdsOf, InFlightMembers
  <2> QED BY <2>2, <2>3
<1> QED BY <1>1, <1>2

(* RECLAIM is the contract's return to the queue, or does nothing.           *)
LEMMA ReclaimKeeps ==
    ASSUME RedisInv, NEW m, NEW t \in Nat, ReclaimScript(m, t),
           added' = added, settled' = settled
    PROVE  /\ Store' /\ Unindexed' \subseteq Unindexed
           /\ RedisContract!Next \/ UNCHANGED RedisContract!vars
<1>1. CASE m \in InFlightMembers
  <2>1. /\ zflight' = {f \in zflight : f.member # m}
        /\ hflight' = hflight \ {m}
        /\ PutMember(Member(m.id, t))
    BY <1>1 DEF ReclaimScript, Reclaims
  <2> QED BY <1>1, <2>1, MoveBackKeeps
<1>2. CASE m \notin InFlightMembers
  <2>1. zqueue' = zqueue /\ hqueue' = hqueue /\ zflight' = zflight /\ hflight' = hflight
    BY <1>2 DEF ReclaimScript, Reclaims, redisVars
  <2>2. Store' /\ Unindexed' = Unindexed
    BY <2>1 DEF RedisInv, Store, OneMemberPerRecord, IndexMirrorsSets, InFlightMembers, Unindexed
  <2>3. UNCHANGED RedisContract!vars
    BY <2>1 DEF RedisContract!vars, IdsOf, InFlightMembers
  <2> QED BY <2>2, <2>3
<1> QED BY <1>1, <1>2

(* EVICT is the contract's EvictNewest, or does nothing.                     *)
LEMMA EvictKeeps ==
    ASSUME RedisInv, NEW m, EvictScript(m), added' = added,
           settled' = IF m \in zqueue THEN settled \cup {m.id} ELSE settled
    PROVE  /\ Store' /\ Unindexed' \subseteq Unindexed
           /\ RedisContract!Next \/ UNCHANGED RedisContract!vars
<1>1. zflight' = zflight /\ hflight' = hflight
  BY DEF EvictScript
<1>2. zqueue' = zqueue \ {m} /\ hqueue' = zqueue'
  BY DEF EvictScript, RedisInv, Store, IndexMirrorsSets
<1>3. Store' /\ Unindexed' = Unindexed
  BY <1>1, <1>2 DEF RedisInv, Store, OneMemberPerRecord, IndexMirrorsSets, InFlightMembers, Unindexed
<1>4. UNCHANGED <<1..added, IdsOf(InFlightMembers)>>
  BY <1>1 DEF IdsOf, InFlightMembers
<1>5. CASE m \in zqueue
  <2>1. m.id \in Ids
    BY <1>5 DEF RedisInv, Store, Members
  <2>2. IdsOf(zqueue)' = IdsOf(zqueue) \ {m.id} /\ m.id \in IdsOf(zqueue)
    BY <1>2, <1>5 DEF IdsOf, RedisInv, Store, OneMemberPerRecord
  <2>3. settled' = settled \cup {m.id}
    BY <1>5
  <2>4. RedisContract!EvictNewest(m.id)
    BY <1>4, <2>2, <2>3 DEF RedisContract!EvictNewest
  <2> QED BY <1>3, <2>1, <2>4 DEF RedisContract!Next
<1>6. CASE m \notin zqueue
  <2>1. zqueue' = zqueue /\ settled' = settled
    BY <1>2, <1>6
  <2>2. UNCHANGED RedisContract!vars
    BY <1>4, <2>1 DEF RedisContract!vars, IdsOf
  <2> QED BY <1>3, <2>2
<1> QED BY <1>5, <1>6

-----------------------------------------------------------------------------
(* A worker moves to a well-typed place, holding nothing or what it held.    *)
LEMMA WorkerMoves ==
    ASSUME RedisInv, NEW w \in Workers, NEW x \in Work, Goes(w, x),
           now' = now, added' = added, settled' \subseteq 1..added,
           Unindexed' \subseteq Unindexed,
           \A f \in x.claim : /\ f.member.id <= added
                              /\ \A m \in Unindexed' : m.id # f.member.id
    PROVE  Rest' /\ HeldIndexed'
<1>1. work' \in [Workers -> Work]
  BY DEF Goes, RedisInv, Rest
<1>2. \A v \in Workers : work'[v] = IF v = w THEN x ELSE work[v]
  BY DEF Goes, RedisInv, Rest
<1>3. \A v \in Workers : \A f \in work'[v].claim : f.member.id <= added
  BY <1>2 DEF RedisInv, Rest
<1>4. HeldIndexed'
  BY <1>2 DEF RedisInv, HeldIndexed
<1> QED BY <1>1, <1>3, <1>4 DEF RedisInv, Rest

(* Idle is a place, and holds nothing.                                       *)
LEMMA IdleTyped == Idle \in Work /\ Idle.claim = {}
<1>1. {} \in SUBSET Members /\ {} \in SUBSET Scored /\ "idle" \in Places /\ 0 \in Nat
  BY DEF Places
<1> QED BY <1>1 DEF Idle, Work

(* What a held claim satisfies.                                              *)
LEMMA HeldFacts ==
    ASSUME RedisInv, NEW w \in Workers
    PROVE  /\ work[w] \in Work
           /\ \A f \in work[w].claim : /\ f.member.id \in 1..added
                                       /\ \A m \in Unindexed : m.id # f.member.id
<1>1. work[w] \in Work
  BY DEF RedisInv, Rest
<1>2. \A f \in work[w].claim : f.member.id \in Ids
  BY <1>1 DEF Work, Scored, Members
<1> QED BY <1>1, <1>2 DEF RedisInv, Rest, HeldIndexed, Ids

(* A step that only reads from Redis.                                        *)
LEMMA ReadKeeps ==
    ASSUME RedisInv, NEW w \in Workers, NEW x \in Work, Goes(w, x),
           x.claim = {} \/ x.claim = work[w].claim,
           UNCHANGED <<redisVars, now, added, settled>>
    PROVE  RedisInv' /\ UNCHANGED RedisContract!vars
<1>1. /\ zqueue' = zqueue /\ hqueue' = hqueue /\ zflight' = zflight /\ hflight' = hflight
      /\ now' = now /\ added' = added /\ settled' = settled
  BY DEF redisVars
<1>2. Store' /\ Unindexed' = Unindexed
  BY <1>1 DEF RedisInv, Store, OneMemberPerRecord, IndexMirrorsSets, InFlightMembers, Unindexed
<1>3. settled \subseteq 1..added
  BY DEF RedisInv, Rest
<1>4. \A f \in x.claim : f.member.id <= added /\ \A m \in Unindexed' : m.id # f.member.id
  BY <1>2, HeldFacts
<1>5. Rest' /\ HeldIndexed'
  BY <1>1, <1>2, <1>3, <1>4, WorkerMoves
<1>6. UNCHANGED RedisContract!vars
  BY <1>1 DEF RedisContract!vars, IdsOf, InFlightMembers
<1> QED BY <1>2, <1>5, <1>6 DEF RedisInv

(* The reading round trips, and the death of a worker.                       *)
LEMMA QuietStep ==
    ASSUME RedisInv, NEW w \in Workers,
           \/ DequeueCalled(w) \/ ReclaimRead(w) \/ Scan(w)
           \/ NackRead(w) \/ EvictRead(w) \/ WorkerDies(w)
    PROVE  RedisInv' /\ UNCHANGED RedisContract!vars
<1> USE IdleTyped
<1>1. work[w] \in Work
  BY HeldFacts
<1>2. CASE DequeueCalled(w)
  <2> DEFINE x == [Idle EXCEPT !.at = "reclaim", !.t = now]
  <2>1. x \in Work /\ x.claim = {}
    <3>1. now \in Nat
      BY DEF RedisInv, Rest
    <3> QED BY <3>1, IdleTyped DEF Work, Places
  <2> QED BY <1>2, <2>1, ReadKeeps DEF DequeueCalled
<1>3. CASE ReclaimRead(w)
  <2>1. PICK B \in SUBSET ExpiredMembers(work[w].t) :
          Goes(w, IF B = {} THEN [work[w] EXCEPT !.at = "scan"]
                 ELSE [work[w] EXCEPT !.at = "reclaiming", !.todo = B, !.progressed = FALSE])
    BY <1>3 DEF ReclaimRead, Lowest
  <2>2. B \in SUBSET Members
    BY DEF ExpiredMembers, RedisInv, Store, Scored
  <2>3. [work[w] EXCEPT !.at = "scan"] \in Work
    BY <1>1 DEF Work, Places
  <2>4. [work[w] EXCEPT !.at = "reclaiming", !.todo = B, !.progressed = FALSE] \in Work
    BY <1>1, <2>2 DEF Work, Places
  <2>5. /\ [work[w] EXCEPT !.at = "scan"].claim = work[w].claim
        /\ [work[w] EXCEPT !.at = "reclaiming", !.todo = B, !.progressed = FALSE].claim = work[w].claim
    BY <1>1 DEF Work
  <2>6. UNCHANGED <<redisVars, now, added, settled>>
    BY <1>3 DEF ReclaimRead
  <2>7. CASE B = {}
    BY <2>1, <2>3, <2>5, <2>6, <2>7, ReadKeeps
  <2>8. CASE B # {}
    BY <2>1, <2>4, <2>5, <2>6, <2>8, ReadKeeps
  <2> QED BY <2>7, <2>8
<1>4. CASE Scan(w)
  <2>1. PICK B \in SUBSET zqueue :
          Goes(w, IF B = {} THEN Idle ELSE [work[w] EXCEPT !.at = "claiming", !.todo = B])
    BY <1>4 DEF Scan, Lowest
  <2>2. B \in SUBSET Members
    BY DEF RedisInv, Store
  <2>3. /\ [work[w] EXCEPT !.at = "claiming", !.todo = B] \in Work
        /\ [work[w] EXCEPT !.at = "claiming", !.todo = B].claim = work[w].claim
    BY <1>1, <2>2 DEF Work, Places
  <2>4. UNCHANGED <<redisVars, now, added, settled>>
    BY <1>4 DEF Scan
  <2>5. CASE B = {}
    BY <2>1, <2>4, <2>5, ReadKeeps
  <2>6. CASE B # {}
    BY <2>1, <2>3, <2>4, <2>6, ReadKeeps
  <2> QED BY <2>5, <2>6
<1>5. CASE NackRead(w)
  <2>1. PICK B \in SUBSET hflight :
          Goes(w, IF B = {} THEN Idle ELSE [work[w] EXCEPT !.at = "nacking", !.todo = B])
    BY <1>5 DEF NackRead
  <2>2. B \in SUBSET Members
    BY StoreTyped DEF RedisTypeOK
  <2>3. /\ [work[w] EXCEPT !.at = "nacking", !.todo = B] \in Work
        /\ [work[w] EXCEPT !.at = "nacking", !.todo = B].claim = work[w].claim
    BY <1>1, <2>2 DEF Work, Places
  <2>4. UNCHANGED <<redisVars, now, added, settled>>
    BY <1>5 DEF NackRead
  <2>5. CASE B = {}
    BY <2>1, <2>4, <2>5, ReadKeeps
  <2>6. CASE B # {}
    BY <2>1, <2>3, <2>4, <2>6, ReadKeeps
  <2> QED BY <2>5, <2>6
<1>6. CASE EvictRead(w)
  <2>1. PICK m \in zqueue : Goes(w, [Idle EXCEPT !.at = "evicting", !.todo = {m}])
    BY <1>6 DEF EvictRead
  <2> DEFINE x == [Idle EXCEPT !.at = "evicting", !.todo = {m}]
  <2>2. x \in Work /\ x.claim = {}
    <3>1. {m} \in SUBSET Members
      BY DEF RedisInv, Store
    <3> QED BY <3>1, IdleTyped DEF Work, Places
  <2> QED BY <1>6, <2>1, <2>2, ReadKeeps DEF EvictRead
<1>7. CASE WorkerDies(w)
  BY <1>7, ReadKeeps DEF WorkerDies
<1> QED BY <1>2, <1>3, <1>4, <1>5, <1>6, <1>7

(* One RECLAIM of a pass.                                                    *)
LEMMA ReclaimStep ==
    ASSUME RedisInv, NEW w \in Workers, ReclaimOne(w)
    PROVE  RedisInv' /\ (RedisContract!Next \/ UNCHANGED RedisContract!vars)
<1>1. work[w] \in Work /\ work[w].t \in Nat /\ work[w].todo \in SUBSET Members
  BY HeldFacts DEF Work
<1>2. PICK m \in work[w].todo :
        LET left == work[w].todo \ {m}
            prog == work[w].progressed \/ Reclaims(m)
        IN  /\ ReclaimScript(m, work[w].t)
            /\ Goes(w, [work[w] EXCEPT !.todo = left, !.progressed = prog,
                           !.at = IF left # {} THEN "reclaiming"
                                  ELSE IF prog THEN "reclaim" ELSE "scan"])
  BY DEF ReclaimOne
<1> DEFINE left == work[w].todo \ {m}
           prog == work[w].progressed \/ Reclaims(m)
           at == IF left # {} THEN "reclaiming" ELSE IF prog THEN "reclaim" ELSE "scan"
           x == [work[w] EXCEPT !.todo = left, !.progressed = prog, !.at = at]
<1>3. left \in SUBSET Members /\ prog \in BOOLEAN /\ at \in Places
  BY <1>1 DEF Work, Places, Reclaims
<1>4. ReclaimScript(m, work[w].t) /\ Goes(w, x)
  BY <1>2
<1> HIDE DEF left, prog, at
<1>5. x \in Work /\ x.claim = work[w].claim
  BY <1>1, <1>3 DEF Work
<1> HIDE DEF x
<1>6. now' = now /\ added' = added /\ settled' = settled /\ settled \subseteq 1..added
  BY DEF ReclaimOne, RedisInv, Rest
<1>7. /\ Store' /\ Unindexed' \subseteq Unindexed
      /\ RedisContract!Next \/ UNCHANGED RedisContract!vars
  BY <1>1, <1>4, <1>6, ReclaimKeeps
<1>8. \A f \in x.claim : f.member.id <= added /\ \A n \in Unindexed' : n.id # f.member.id
  BY <1>5, <1>7, HeldFacts
<1>9. Rest' /\ HeldIndexed'
  BY <1>4, <1>5, <1>6, <1>7, <1>8, WorkerMoves
<1> QED BY <1>7, <1>9 DEF RedisInv

(* One CLAIM: won, or lost to another worker.                                *)
LEMMA ClaimStep ==
    ASSUME RedisInv, NEW w \in Workers, ClaimOne(w)
    PROVE  RedisInv' /\ (RedisContract!Next \/ UNCHANGED RedisContract!vars)
<1>1. work[w] \in Work /\ work[w].t \in Nat /\ work[w].todo \in SUBSET Members
  BY HeldFacts DEF Work
<1> DEFINE e == work[w].t + RedisTimeout
<1>2. e \in Nat
  BY <1>1, RedisTimeoutNat
<1>3. now' = now /\ added' = added /\ settled' = settled /\ settled \subseteq 1..added
  BY DEF ClaimOne, RedisInv, Rest
<1>4. PICK m \in work[w].todo :
        \/ /\ m \in zqueue
           /\ ClaimScript(m, e)
           /\ Goes(w, [Idle EXCEPT !.at = "holding", !.claim = {[member |-> m, expiresAt |-> e]}])
        \/ /\ Goes(w, IF work[w].todo \ {m} = {} THEN Idle
                      ELSE [work[w] EXCEPT !.todo = work[w].todo \ {m}])
           /\ UNCHANGED redisVars
  BY DEF ClaimOne
<1> HIDE DEF e
<1>5. CASE /\ m \in zqueue
           /\ ClaimScript(m, e)
           /\ Goes(w, [Idle EXCEPT !.at = "holding", !.claim = {[member |-> m, expiresAt |-> e]}])
  <2> DEFINE C == {[member |-> m, expiresAt |-> e]}
             x == [Idle EXCEPT !.at = "holding", !.claim = C]
  <2>1. Goes(w, x)
    BY <1>5
  <2>2. C \in SUBSET Scored /\ \A f \in C : f.member = m
    BY <1>1, <1>2 DEF Scored
  <2> HIDE DEF C
  <2>3. x \in Work /\ x.claim = C
    BY <2>2, IdleTyped DEF Work, Places
  <2> HIDE DEF x
  <2>4. /\ Store' /\ RedisContract!Next
        /\ Unindexed' \subseteq Unindexed
        /\ \A n \in Unindexed' : n.id # m.id
    BY <1>2, <1>3, <1>5, ClaimKeeps
  <2>5. m.id <= added
    BY <1>5 DEF RedisInv, Store
  <2>6. Rest' /\ HeldIndexed'
    BY <1>3, <2>1, <2>2, <2>3, <2>4, <2>5, WorkerMoves
  <2> QED BY <2>4, <2>6 DEF RedisInv
<1>6. CASE /\ Goes(w, IF work[w].todo \ {m} = {} THEN Idle
                      ELSE [work[w] EXCEPT !.todo = work[w].todo \ {m}])
           /\ UNCHANGED redisVars
  <2>1. /\ [work[w] EXCEPT !.todo = work[w].todo \ {m}] \in Work
        /\ [work[w] EXCEPT !.todo = work[w].todo \ {m}].claim = work[w].claim
    BY <1>1 DEF Work
  <2>2. UNCHANGED <<redisVars, now, added, settled>>
    BY <1>3, <1>6
  <2>3. CASE work[w].todo \ {m} = {}
    BY <1>6, <2>2, <2>3, IdleTyped, ReadKeeps
  <2>4. CASE work[w].todo \ {m} # {}
    BY <1>6, <2>1, <2>2, <2>4, ReadKeeps
  <2> QED BY <2>3, <2>4
<1> QED BY <1>4, <1>5, <1>6

(* The settling scripts: ACK, REQUEUE and EVICT leave the worker idle.       *)
LEMMA SettleStep ==
    ASSUME RedisInv, NEW w \in Workers,
           RedisAck(w) \/ (\E delay \in Delays : NackRequeue(w, delay)) \/ Evict(w)
    PROVE  RedisInv' /\ (RedisContract!Next \/ UNCHANGED RedisContract!vars)
<1>1. Goes(w, Idle) /\ now' = now /\ added' = added
  BY DEF RedisAck, NackRequeue, Evict
<1>2. settled \subseteq 1..added /\ now \in Nat
  BY DEF RedisInv, Rest
<1>3. work[w] \in Work /\ work[w].todo \in SUBSET Members
  BY HeldFacts DEF Work
<1>4. /\ Store' /\ Unindexed' \subseteq Unindexed /\ settled' \subseteq 1..added
      /\ RedisContract!Next \/ UNCHANGED RedisContract!vars
  <2>1. CASE RedisAck(w)
    <3>1. PICK f \in work[w].claim : AckScript(f.member.id) /\ settled' = settled \cup {f.member.id}
      BY <2>1 DEF RedisAck
    <3>2. f.member.id \in 1..added /\ \A m \in Unindexed : m.id # f.member.id
      BY HeldFacts
    <3>3. Store' /\ RedisContract!Next /\ Unindexed' \subseteq Unindexed
      BY <1>1, <3>1, <3>2, AckKeeps
    <3> QED BY <1>2, <3>1, <3>2, <3>3
  <2>2. ASSUME NEW delay \in Delays, NackRequeue(w, delay)
        PROVE  /\ Store' /\ Unindexed' \subseteq Unindexed /\ settled' \subseteq 1..added
               /\ RedisContract!Next \/ UNCHANGED RedisContract!vars
    <3>1. PICK m \in work[w].todo : RequeueScript(m, now + delay)
      BY <2>2 DEF NackRequeue
    <3>2. settled' = settled /\ now + delay \in Nat
      BY <1>2, <2>2, QueueAssumption, RedisAssumption DEF NackRequeue
    <3> QED BY <1>1, <1>2, <3>1, <3>2, RequeueKeeps
  <2>3. CASE Evict(w)
    <3>1. PICK m \in work[w].todo :
            EvictScript(m) /\ settled' = IF m \in zqueue THEN settled \cup {m.id} ELSE settled
      BY <2>3 DEF Evict
    <3>2. m \in zqueue => m.id \in 1..added
      BY <1>3 DEF RedisInv, Store, Members, Ids
    <3> QED BY <1>1, <1>2, <3>1, <3>2, EvictKeeps
  <2> QED BY <2>1, <2>2, <2>3
<1>5. Rest' /\ HeldIndexed'
  BY <1>1, <1>4, IdleTyped, WorkerMoves
<1> QED BY <1>4, <1>5 DEF RedisInv

-----------------------------------------------------------------------------
(* The initial states, with the claims of an older build, are consistent.    *)
LEMMA RedisInitInv == RedisInit => RedisInv /\ RedisContract!Init
<1> SUFFICES ASSUME RedisInit PROVE RedisInv /\ RedisContract!Init
  OBVIOUS
<1>1. 1..NumLegacy \subseteq Ids /\ RedisTimeout \in Nat /\ NumLegacy \in Nat /\ MaxRecords \in Nat
  BY QueueAssumption, RedisAssumption, RedisTimeoutNat DEF Ids
<1>2. \A f \in zflight : \E i \in 1..NumLegacy : f = [member |-> Member(i, 0), expiresAt |-> RedisTimeout]
  BY DEF RedisInit
<1>3. \A i \in 1..NumLegacy : Member(i, 0) \in Members /\ Member(i, 0).id = i
  BY <1>1, MemberTyped
<1>4. \A f \in zflight : /\ f \in Scored /\ f.member.id \in 1..NumLegacy
                         /\ f = [member |-> Member(f.member.id, 0), expiresAt |-> RedisTimeout]
  BY <1>1, <1>2, <1>3 DEF Scored
<1>5. OneMemberPerRecord
  BY <1>4 DEF RedisInit, OneMemberPerRecord
<1>6. IndexMirrorsSets
  BY <1>4 DEF RedisInit, IndexMirrorsSets, InFlightMembers
<1>7. Store
  BY <1>1, <1>4, <1>5, <1>6 DEF RedisInit, Store
<1>8. Rest
  BY <1>1, IdleTyped, QueueAssumption, RedisAssumption DEF RedisInit, Rest
<1>9. HeldIndexed
  BY IdleTyped DEF RedisInit, HeldIndexed
<1>10. IdsOf(InFlightMembers) = 1..NumLegacy
  <2>1. \A i \in 1..NumLegacy : Member(i, 0) \in InFlightMembers
    <3>1. TAKE i \in 1..NumLegacy
    <3>2. [member |-> Member(i, 0), expiresAt |-> RedisTimeout] \in zflight
      BY DEF RedisInit
    <3>3. [member |-> Member(i, 0), expiresAt |-> RedisTimeout].member = Member(i, 0)
      OBVIOUS
    <3> QED BY <3>2, <3>3 DEF InFlightMembers
  <2>2. \A m \in InFlightMembers : m.id \in 1..NumLegacy
    BY <1>4 DEF InFlightMembers
  <2> QED BY <1>3, <2>1, <2>2 DEF IdsOf
<1>11. RedisContract!Init
  BY <1>10 DEF RedisInit, RedisContract!Init, IdsOf
<1> QED BY <1>7, <1>8, <1>9, <1>11 DEF RedisInv

(* Every step keeps the invariant and is a step of the contract or none.     *)
LEMMA RedisStepInv == RedisInv /\ [RedisNext]_redisAll => RedisInv' /\ [RedisContract!Next]_(RedisContract!vars)
<1> SUFFICES ASSUME RedisInv, [RedisNext]_redisAll
             PROVE  RedisInv' /\ (RedisContract!Next \/ UNCHANGED RedisContract!vars)
  OBVIOUS
<1>1. CASE RedisTick \/ UNCHANGED redisAll
  <2>1. /\ zqueue' = zqueue /\ hqueue' = hqueue /\ zflight' = zflight /\ hflight' = hflight
        /\ added' = added /\ settled' = settled /\ work' = work
        /\ now' = now \/ now' = now + 1
    BY <1>1 DEF RedisTick, ClockTicks, redisAll, redisVars
  <2>2. Store'
    BY <2>1 DEF RedisInv, Store, OneMemberPerRecord, IndexMirrorsSets, InFlightMembers
  <2>3. Rest'
    BY <2>1 DEF RedisInv, Rest
  <2>4. HeldIndexed'
    BY <2>1 DEF RedisInv, HeldIndexed, Unindexed, InFlightMembers
  <2>5. UNCHANGED RedisContract!vars
    BY <2>1 DEF RedisContract!vars, IdsOf, InFlightMembers
  <2> QED BY <2>2, <2>3, <2>4, <2>5 DEF RedisInv
<1>2. ASSUME NEW w \in Workers, WorkerStep(w)
      PROVE  RedisInv' /\ (RedisContract!Next \/ UNCHANGED RedisContract!vars)
  <2>1. CASE \E delay \in Delays : RedisEnqueue(w, delay)
    BY <2>1, EnqueueKeeps
  <2>2. CASE RedisAck(w) \/ (\E delay \in Delays : NackRequeue(w, delay)) \/ Evict(w)
    BY <2>2, SettleStep
  <2>3. CASE ReclaimOne(w)
    BY <2>3, ReclaimStep
  <2>4. CASE ClaimOne(w)
    BY <2>4, ClaimStep
  <2>5. CASE \/ DequeueCalled(w) \/ ReclaimRead(w) \/ Scan(w)
             \/ NackRead(w) \/ EvictRead(w) \/ WorkerDies(w)
    BY <2>5, QuietStep
  <2> QED BY <1>2, <2>1, <2>2, <2>3, <2>4, <2>5 DEF WorkerStep
<1> QED BY <1>1, <1>2 DEF RedisNext

(* The invariant holds in every reachable state.                             *)
LEMMA RedisInvariance == RedisSpec => []RedisInv
BY RedisInitInv, RedisStepInv, PTL DEF RedisSpec

(* The four keys and the workers' state are always well typed.               *)
THEOREM RedisTyped == RedisSpec => []RedisTypeOK
BY RedisInvariance, StoreTyped, PTL

(* A record is never in both sets and never twice in one: the scripts'       *)
(* promise, for any number of workers acting on stale reads.                 *)
THEOREM RedisOneMember == RedisSpec => []OneMemberPerRecord
<1>1. RedisInv => OneMemberPerRecord
  BY DEF RedisInv, Store
<1> QED BY <1>1, RedisInvariance, PTL

(* The index hashes never drift from the sorted sets they index.             *)
THEOREM RedisIndex == RedisSpec => []IndexMirrorsSets
<1>1. RedisInv => IndexMirrorsSets
  BY DEF RedisInv, Store
<1> QED BY <1>1, RedisInvariance, PTL

(* The sorted sets and the index hashes agree after every script.            *)
THEOREM RedisKeysAgree == RedisSpec => []KeysConsistent
<1>1. OneMemberPerRecord /\ IndexMirrorsSets => KeysConsistent
  BY DEF KeysConsistent
<1> QED BY <1>1, RedisOneMember, RedisIndex, PTL

(* RedisRetryQueue implements the RetryQueue contract: no worker's death and *)
(* no stale read loses or resurrects a record.                               *)
THEOREM RedisMeetsContract == RedisSpec => RedisImplementsContract
<1>1. RedisInv /\ [RedisNext]_redisAll => [RedisContract!Next]_(RedisContract!vars)
  BY RedisStepInv
<1>2. RedisInit => RedisContract!Init
  BY RedisInitInv
<1> QED BY <1>1, <1>2, RedisInvariance, PTL DEF RedisSpec, RedisImplementsContract, RedisContract!Spec

-----------------------------------------------------------------------------
(* PostgresRetryQueue.                                                       *)

(* A row, and a row a consumer thinks it holds, are of a record that was     *)
(* enqueued.                                                                 *)
PgKnown ==
    /\ \A r \in rows : r.id <= inserted
    /\ \A s \in Sessions : pgHeld[s] # PgNone => pgHeld[s].id <= inserted

PgInv == PgTypeOK /\ PgKnown

(* The ids of the table by whether the row is locked, as the contract sees   *)
(* them.                                                                     *)
PgQueued == IdsOf({r \in rows : r.lockedUntil = Null})
PgFlight == IdsOf({r \in rows : r.lockedUntil # Null})

(* What the configured timeout becomes.                                      *)
LEMMA PgTimeoutNat == PgTimeout \in Nat /\ PgTimeout > 0
BY QueueAssumption DEF PgTimeout

(* What a session holds.                                                     *)
LEMMA PgHeldFacts ==
    ASSUME PgInv, NEW s \in Sessions, pgHeld[s] # PgNone
    PROVE  /\ pgHeld[s].id \in Ids /\ pgHeld[s].id \in 1..inserted
           /\ pgHeld[s].expiresAt \in Nat
<1>1. pgHeld[s] \in PgClaims
  BY DEF PgInv, PgTypeOK
<1> QED BY <1>1, QueueAssumption DEF PgInv, PgKnown, PgTypeOK, PgClaims, Ids

(* INSERT of a new record is the contract's Enqueue.                         *)
LEMMA PgEnqueueStep ==
    ASSUME PgInv, NEW delay \in Delays, PgEnqueue(delay)
    PROVE  PgInv' /\ PgContract!Next
<1> DEFINE i == inserted + 1
           x == [id |-> i, due |-> now + delay, lockedUntil |-> Null]
<1>1. /\ inserted \in Nat /\ inserted < MaxRecords /\ inserted' = i /\ i \in Ids
      /\ now + delay \in Nat
      /\ rows' = {r \in rows : r.id # i} \cup {x}
      /\ pgHeld' = pgHeld /\ now' = now /\ pgGone' = pgGone
  BY QueueAssumption DEF PgEnqueue, Upsert, PgInv, PgTypeOK, Ids
<1>2. \A r \in rows : r.id \in Nat /\ r.id <= inserted
  BY DEF PgInv, PgKnown, PgTypeOK, Rows, Ids
<1>3. rows' = rows \cup {x} /\ x \in Rows /\ x.id = i /\ x.lockedUntil = Null
  BY <1>1, <1>2 DEF Rows
<1>4. PgTypeOK'
  <2>1. \A r, q \in rows' : r.id = q.id => r = q
    BY <1>1, <1>2, <1>3 DEF PgInv, PgTypeOK
  <2>2. inserted' \in 0..MaxRecords /\ pgGone' \subseteq 1..inserted'
    BY <1>1, QueueAssumption DEF PgInv, PgTypeOK
  <2> QED BY <1>1, <1>3, <2>1, <2>2 DEF PgInv, PgTypeOK
<1>5. PgKnown'
  <2>1. \A s \in Sessions : pgHeld[s] # PgNone => pgHeld[s].id \in 1..inserted
    BY PgHeldFacts
  <2> QED BY <1>1, <1>2, <1>3, <2>1 DEF PgKnown
<1>6. PgContract!Enqueue(i)
  <2>1. i \notin 1..inserted /\ 1..inserted' = 1..inserted \cup {i}
    BY <1>1
  <2>2. IdsOf({r \in rows' : r.lockedUntil = Null}) = PgQueued \cup {i}
    BY <1>3 DEF IdsOf, PgQueued
  <2>3. IdsOf({r \in rows' : r.lockedUntil # Null}) = PgFlight
    BY <1>3 DEF IdsOf, PgFlight
  <2> QED BY <1>1, <2>1, <2>2, <2>3 DEF PgContract!Enqueue, PgQueued, PgFlight
<1> QED BY <1>1, <1>4, <1>5, <1>6 DEF PgInv, PgContract!Next

(* A dequeue hands out one queued row, or one whose lock has expired.        *)
LEMMA PgDequeueStep ==
    ASSUME PgInv, NEW s \in Sessions, PgDequeue(s)
    PROVE  PgInv' /\ PgContract!Next
<1> DEFINE u == now + PgTimeout
<1>1. PICK r \in Claimable(now) :
        /\ rows' = (rows \ {r}) \cup {[r EXCEPT !.lockedUntil = u]}
        /\ pgHeld' = [pgHeld EXCEPT ![s] = [id |-> r.id, expiresAt |-> u]]
  BY DEF PgDequeue, Unskipped, FirstDue, Relocked, PgHolds
<1> DEFINE x == [r EXCEPT !.lockedUntil = u]
<1>2. now' = now /\ inserted' = inserted /\ pgGone' = pgGone /\ u \in Nat
  BY PgTimeoutNat DEF PgDequeue, PgInv, PgTypeOK
<1>3. /\ r \in rows /\ r \in Rows /\ x \in Rows /\ x.id = r.id /\ x.lockedUntil = u
      /\ u # Null /\ r.id \in Ids /\ r.id <= inserted
  BY <1>2, PgTimeoutNat DEF Claimable, PgInv, PgTypeOK, PgKnown, Rows, Null
<1>4. PgTypeOK'
  <2>1. \A q, p \in rows' : q.id = p.id => q = p
    <3>1. rows' = (rows \ {r}) \cup {x}
      BY <1>1
    <3>2. \A q, p \in rows : q.id = p.id => q = p
      BY DEF PgInv, PgTypeOK
    <3> HIDE DEF x
    <3> QED BY <1>3, <3>1, <3>2
  <2>2. [id |-> r.id, expiresAt |-> u] \in PgClaims
    BY <1>2, <1>3 DEF PgClaims
  <2>3. pgHeld' \in [Sessions -> PgClaims \cup {PgNone}]
    BY <1>1, <2>2 DEF PgInv, PgTypeOK
  <2> QED BY <1>1, <1>2, <1>3, <2>1, <2>3 DEF PgInv, PgTypeOK
<1>5. PgKnown'
  BY <1>1, <1>2, <1>3 DEF PgInv, PgTypeOK, PgKnown
<1>6. /\ IdsOf({q \in rows' : q.lockedUntil = Null}) = PgQueued \ {r.id}
      /\ IdsOf({q \in rows' : q.lockedUntil # Null}) = PgFlight \cup {r.id}
      /\ r.id \in PgQueued \cup PgFlight
  <2>1. \A q \in rows : q.id = r.id => q = r
    BY <1>3 DEF PgInv, PgTypeOK
  <2> QED BY <1>1, <1>3, <2>1 DEF IdsOf, PgQueued, PgFlight
<1>7. PgContract!Dequeue(PgFlight \cap {r.id}, {r.id})
  BY <1>2, <1>6 DEF PgContract!Dequeue, PgQueued, PgFlight
<1>8. PgContract!Next
  <2>1. PgFlight \cap {r.id} \in SUBSET PgFlight
    OBVIOUS
  <2>2. {r.id} \in SUBSET (PgQueued \cup (PgFlight \cap {r.id}))
    BY <1>6
  <2> QED BY <1>7, <2>1, <2>2 DEF PgContract!Next, PgQueued, PgFlight
<1> QED BY <1>4, <1>5, <1>8 DEF PgInv

(* A session that lets go of its claim, whatever happens to the row.         *)
LEMMA PgLetGo ==
    ASSUME PgInv, NEW s \in Sessions, PgHolds(s, PgNone), now' = now, inserted' = inserted,
           rows' \subseteq Rows, \A r, q \in rows' : r.id = q.id => r = q,
           \A r \in rows' : r.id <= inserted, pgGone' \subseteq 1..inserted
    PROVE  PgInv'
<1>1. pgHeld' \in [Sessions -> PgClaims \cup {PgNone}]
  BY DEF PgInv, PgTypeOK, PgHolds
<1>2. \A q \in Sessions : pgHeld'[q] # PgNone => pgHeld'[q].id <= inserted'
  BY DEF PgInv, PgTypeOK, PgKnown, PgHolds
<1> QED BY <1>1, <1>2 DEF PgInv, PgTypeOK, PgKnown

(* DELETE is the contract's Ack, whoever holds the row by now.               *)
LEMMA PgAckStep ==
    ASSUME PgInv, NEW s \in Sessions, PgAck(s)
    PROVE  PgInv' /\ PgContract!Next
<1> DEFINE i == pgHeld[s].id
<1>1. /\ rows' = {r \in rows : r.id # i} /\ pgGone' = pgGone \cup {i}
      /\ PgHolds(s, PgNone) /\ now' = now /\ inserted' = inserted
  BY DEF PgAck, DeleteRow
<1>2. i \in Ids /\ i \in 1..inserted
  BY PgHeldFacts DEF PgAck
<1>3. PgInv'
  BY <1>1, <1>2, PgLetGo DEF PgInv, PgTypeOK, PgKnown
<1>4. /\ IdsOf({q \in rows' : q.lockedUntil = Null}) = PgQueued \ {i}
      /\ IdsOf({q \in rows' : q.lockedUntil # Null}) = PgFlight \ {i}
  BY <1>1 DEF IdsOf, PgQueued, PgFlight
<1>5. PgContract!Ack(i)
  BY <1>1, <1>2, <1>4 DEF PgContract!Ack, PgQueued, PgFlight
<1> QED BY <1>2, <1>3, <1>5 DEF PgContract!Next

(* The UPDATE of nack is the contract's Nack of a row in flight, and changes *)
(* only the due time of one that is queued or gone.                          *)
LEMMA PgNackStep ==
    ASSUME PgInv, NEW s \in Sessions, NEW delay \in Delays, PgNack(s, delay)
    PROVE  PgInv' /\ (PgContract!Next \/ UNCHANGED PgContract!vars)
<1> DEFINE i == pgHeld[s].id
           t == now + delay
<1>1. /\ rows' = {r \in rows : r.id # i}
                   \cup {[r EXCEPT !.due = t, !.lockedUntil = Null] : r \in {q \in rows : q.id = i}}
      /\ PgHolds(s, PgNone) /\ now' = now /\ inserted' = inserted /\ pgGone' = pgGone
  BY DEF PgNack, Unlocked
<1>2. i \in Ids /\ i \in 1..inserted /\ i <= inserted /\ t \in Nat
  BY PgHeldFacts, QueueAssumption DEF PgNack, PgInv, PgTypeOK
<1>3. CASE \A r \in rows : r.id # i
  <2>1. rows' = rows
    BY <1>1, <1>3
  <2>2. PgInv'
    BY <1>1, <2>1, PgLetGo DEF PgInv, PgTypeOK, PgKnown
  <2> QED BY <1>1, <2>1, <2>2 DEF PgContract!vars
<1>4. CASE \E r \in rows : r.id = i
  <2>1. PICK r \in rows : r.id = i
    BY <1>4
  <2> DEFINE x == [r EXCEPT !.due = t, !.lockedUntil = Null]
  <2>2. r \in Rows /\ \A q \in rows : q.id = i => q = r
    BY <2>1 DEF PgInv, PgTypeOK
  <2>3. x \in Rows /\ x.id = i /\ x.lockedUntil = Null
    BY <1>2, <2>1, <2>2 DEF Rows
  <2>4. rows' = {q \in rows : q.id # i} \cup {x}
    BY <1>1, <2>1, <2>2
  <2>5. PgInv'
    <3>1. rows' \subseteq Rows /\ \A q \in rows' : q.id <= inserted
      <4> HIDE DEF x, i
      <4> QED BY <1>2, <2>3, <2>4 DEF PgInv, PgTypeOK, PgKnown
    <3>2. \A p, q \in rows' : p.id = q.id => p = q
      BY <2>3, <2>4 DEF PgInv, PgTypeOK
    <3> QED BY <1>1, <3>1, <3>2, PgLetGo DEF PgInv, PgTypeOK
  <2>6. /\ IdsOf({q \in rows' : q.lockedUntil = Null}) = PgQueued \cup {i}
        /\ IdsOf({q \in rows' : q.lockedUntil # Null}) = PgFlight \ {i}
    <3> HIDE DEF x, i
    <3>1. {q \in rows' : q.lockedUntil # Null} = {q \in rows : q.lockedUntil # Null /\ q.id # i}
      BY <2>3, <2>4
    <3>2. {q \in rows' : q.lockedUntil = Null} = {q \in rows : q.lockedUntil = Null /\ q.id # i} \cup {x}
      BY <2>3, <2>4
    <3>3. IdsOf({q \in rows' : q.lockedUntil # Null}) = PgFlight \ {i}
      BY <3>1 DEF IdsOf, PgFlight
    <3>4. IdsOf({q \in rows' : q.lockedUntil = Null}) = PgQueued \cup {i}
      BY <2>3, <3>2 DEF IdsOf, PgQueued
    <3> QED BY <3>3, <3>4
  <2>7. CASE r.lockedUntil = Null
    <3>1. i \in PgQueued /\ i \notin PgFlight
      BY <2>1, <2>2, <2>7 DEF IdsOf, PgQueued, PgFlight
    <3>2. UNCHANGED PgContract!vars
      BY <1>1, <2>6, <3>1 DEF PgContract!vars, PgQueued, PgFlight
    <3> QED BY <2>5, <3>2
  <2>8. CASE r.lockedUntil # Null
    <3>1. i \in PgFlight
      BY <2>1, <2>8 DEF IdsOf, PgFlight
    <3>2. PgContract!Nack(i)
      BY <1>1, <2>6, <3>1 DEF PgContract!Nack, PgQueued, PgFlight
    <3> QED BY <1>2, <2>5, <3>2 DEF PgContract!Next
  <2> QED BY <2>7, <2>8
<1> QED BY <1>3, <1>4

(* The DELETE of evictNewest takes a row nobody holds a lock on.             *)
LEMMA PgEvictStep ==
    ASSUME PgInv, PgEvictNewest
    PROVE  PgInv' /\ PgContract!Next
<1>1. PICK r \in Evictable : rows' = rows \ {r} /\ pgGone' = pgGone \cup {r.id}
  BY DEF PgEvictNewest, Unskipped, LastDue
<1>2. pgHeld' = pgHeld /\ now' = now /\ inserted' = inserted
  BY DEF PgEvictNewest
<1>3. /\ r \in rows /\ r.id \in Ids /\ r.id \in 1..inserted /\ r.lockedUntil = Null
      /\ \A q \in rows : q.id = r.id => q = r
  BY QueueAssumption DEF Evictable, PgInv, PgTypeOK, PgKnown, Rows, Ids
<1>4. PgInv'
  BY <1>1, <1>2, <1>3 DEF PgInv, PgTypeOK, PgKnown
<1>5. /\ IdsOf({q \in rows' : q.lockedUntil = Null}) = PgQueued \ {r.id}
      /\ IdsOf({q \in rows' : q.lockedUntil # Null}) = PgFlight
      /\ r.id \in PgQueued
  BY <1>1, <1>3 DEF IdsOf, PgQueued, PgFlight
<1>6. PgContract!EvictNewest(r.id)
  BY <1>1, <1>2, <1>5 DEF PgContract!EvictNewest, PgQueued, PgFlight
<1> QED BY <1>3, <1>4, <1>6 DEF PgContract!Next

(* A step that leaves the table alone, or only lets time pass.               *)
LEMMA PgQuietStep ==
    ASSUME PgInv, \/ PgTick
                  \/ UNCHANGED pgVars
                  \/ \E s \in Sessions : PgConsumerDies(s)
    PROVE  PgInv' /\ UNCHANGED PgContract!vars
<1>1. rows' = rows /\ inserted' = inserted /\ pgGone' = pgGone
  BY DEF PgTick, pgVars, PgConsumerDies
<1>2. CASE PgTick \/ UNCHANGED pgVars
  <2>1. now' \in Nat /\ pgHeld' = pgHeld
    BY <1>2 DEF PgTick, ClockTicks, pgVars, PgInv, PgTypeOK
  <2> QED BY <1>1, <2>1 DEF PgInv, PgTypeOK, PgKnown, PgContract!vars
<1>3. CASE \E s \in Sessions : PgConsumerDies(s)
  <2>1. PICK s \in Sessions : PgHolds(s, PgNone) /\ now' = now
    BY <1>3 DEF PgConsumerDies
  <2>2. PgInv'
    BY <1>1, <2>1, PgLetGo DEF PgInv, PgTypeOK, PgKnown
  <2> QED BY <1>1, <2>2 DEF PgContract!vars
<1> QED BY <1>2, <1>3

(* The initial state satisfies the invariant and the contract's Init.        *)
LEMMA PgInitInv == PgInit => PgInv /\ PgContract!Init
<1> SUFFICES ASSUME PgInit PROVE PgInv /\ PgContract!Init
  OBVIOUS
<1>1. PgInv
  BY QueueAssumption DEF PgInit, PgInv, PgTypeOK, PgKnown
<1>2. PgContract!Init
  BY DEF PgInit, PgContract!Init, IdsOf
<1> QED BY <1>1, <1>2

(* Every step keeps the invariant and is a step of the contract.             *)
LEMMA PgStepInv == PgInv /\ [PgNext]_pgVars => PgInv' /\ [PgContract!Next]_(PgContract!vars)
<1> SUFFICES ASSUME PgInv, [PgNext]_pgVars
             PROVE  PgInv' /\ (PgContract!Next \/ UNCHANGED PgContract!vars)
  OBVIOUS
<1>1. ASSUME NEW delay \in Delays, PgEnqueue(delay) \/ \E s \in Sessions : PgNack(s, delay)
      PROVE  PgInv' /\ (PgContract!Next \/ UNCHANGED PgContract!vars)
  BY <1>1, PgEnqueueStep, PgNackStep
<1>2. ASSUME NEW s \in Sessions, PgDequeue(s) \/ PgAck(s) \/ PgConsumerDies(s)
      PROVE  PgInv' /\ (PgContract!Next \/ UNCHANGED PgContract!vars)
  BY <1>2, PgDequeueStep, PgAckStep, PgQuietStep
<1>3. CASE PgEvictNewest
  BY <1>3, PgEvictStep
<1>4. CASE PgTick \/ UNCHANGED pgVars
  BY <1>4, PgQuietStep
<1> QED BY <1>1, <1>2, <1>3, <1>4 DEF PgNext

(* PostgresRetryQueue's table is always well typed, with one row per id.     *)
THEOREM PgTyped == PgSpec => []PgTypeOK
<1>1. PgSpec => []PgInv
  BY PgInitInv, PgStepInv, PTL DEF PgSpec
<1>2. PgInv => PgTypeOK
  BY DEF PgInv
<1> QED BY <1>1, <1>2, PTL

(* PostgresRetryQueue implements the RetryQueue contract, for any number of  *)
(* sessions: whatever late acks and nacks do, a row leaves the table only    *)
(* through ack, or through evictNewest while it is not locked.               *)
THEOREM PgMeetsContract == PgSpec => PgImplementsContract
<1>1. PgInv /\ [PgNext]_pgVars => [PgContract!Next]_(PgContract!vars)
  BY PgStepInv
<1>2. PgSpec => []PgInv
  BY PgInitInv, PgStepInv, PTL DEF PgSpec
<1>3. PgInit => PgContract!Init
  BY PgInitInv
<1> QED BY <1>1, <1>2, <1>3, PTL DEF PgSpec, PgImplementsContract, PgContract!Spec

-----------------------------------------------------------------------------
(* The leases.  What keeps two consumers apart is that the queue still has   *)
(* the claim of whoever is in time: ack and nack name the record only, so    *)
(* this is lost for a record once a consumer was late with it.               *)

(* MemoryRetryQueue: a claim in time is in the map.                          *)
MemoryClaimsKept ==
    \A c \in Consumers :
        held[c] # NoClaim /\ held[c].id \notin late /\ now < held[c].expiresAt
            => held[c] \in inFlight

MemoryLeases == MemoryClaimsKept /\ MemoryLeaseExclusive

(* PostgresRetryQueue: the row of a claim in time is locked as long as it.   *)
PgClaimsKept ==
    \A s \in Sessions :
        pgHeld[s] # PgNone /\ pgHeld[s].id \notin late /\ now < pgHeld[s].expiresAt
            => \E r \in rows : r.id = pgHeld[s].id /\ r.lockedUntil = pgHeld[s].expiresAt

PgLeases == PgClaimsKept /\ PgLeaseExclusive

(* RedisRetryQueue.  A member is claimed when it is due, so before its claim *)
(* expires, and no worker's nowMs is ahead of the clock.                     *)
FlightTimes == \A f \in zflight : f.member.due < f.expiresAt /\ f.member.due <= now

WorkTimes(x) == x.t <= now /\ (x.at = "claiming" => \A m \in x.todo : m.due <= x.t)

RedisTimes == FlightTimes /\ \A w \in Workers : WorkTimes(work[w])

(* Every member a record has now.                                            *)
MembersNow == zqueue \cup InFlightMembers

(* A claim in time is in the in-flight set; one that is not there any more   *)
(* has been reclaimed, and then every member of its record is due no earlier *)
(* than the claim's expiry, so that none of them is the member it names.     *)
ClaimKept(f) ==
    f.member.id \notin late =>
        /\ f.member.due < f.expiresAt
        /\ now < f.expiresAt => f \in zflight
        /\ \/ f \in zflight
           \/ \A n \in MembersNow : n.id = f.member.id => f.expiresAt <= n.due

RedisClaimsKept == \A w \in Workers : \A f \in work[w].claim : ClaimKept(f)

(* Of two workers with a claim on a record at most one has it in the set.    *)
RedisNotShared ==
    \A v, w \in Workers : \A f \in work[v].claim : \A g \in work[w].claim :
        v # w /\ f.member.id = g.member.id /\ f.member.id \notin late
            => f \notin zflight \/ g \notin zflight

(* Only a worker that holds or nacks has a claim, one at most; and one       *)
(* between the two round trips of nack has read the member of its own claim. *)
OwnMember(x) ==
    /\ x.at \notin {"holding", "nacking"} => x.claim = {}
    /\ \A f, g \in x.claim : f = g
    /\ x.at = "nacking" =>
         \E f \in x.claim : \A m \in x.todo :
             m.id = f.member.id /\ (m.id \notin late => m = f.member)

RedisOwnMember == \A w \in Workers : OwnMember(work[w])

(* A member a worker is about to reclaim has a claim that is expired by the  *)
(* worker's nowMs, or is not a member any more.                              *)
StaleMember(m, t) ==
    /\ m.id <= added
    /\ m.id \notin late =>
         \/ \E f \in zflight : f.member = m /\ f.expiresAt <= t
         \/ \A n \in MembersNow : n.id = m.id => m.due < n.due

RedisStaleReclaim ==
    \A w \in Workers : work[w].at = "reclaiming" =>
        \A m \in work[w].todo : StaleMember(m, work[w].t)

RedisLeases ==
    RedisTimes /\ RedisClaimsKept /\ RedisNotShared /\ RedisOwnMember /\ RedisStaleReclaim

(* The invariant of the composition: the queue of this behaviour keeps its   *)
(* own, and nobody holds anything of the others.                             *)
LeaseInv ==
    /\ IF backend = "memory" THEN MemoryInv /\ MemoryLeases
       ELSE held = [c \in Consumers |-> NoClaim]
    /\ IF backend = "redis" THEN RedisInv /\ RedisLeases
       ELSE work = [w \in Workers |-> Idle]
    /\ IF backend = "postgres" THEN PgInv /\ PgLeases
       ELSE pgHeld = [s \in Sessions |-> PgNone]

-----------------------------------------------------------------------------
(* A consumer of MemoryRetryQueue that settles or dies: the entries of its   *)
(* record may leave the map, and it was in time or the record is late.       *)
LEMMA MemorySettleLeases ==
    ASSUME MemoryInv, MemoryLeases, NEW c \in Consumers, held[c] # NoClaim,
           held' = [held EXCEPT ![c] = NoClaim], now' = now, late' = late \cup MemoryLate,
           \A x \in inFlight : x.id # held[c].id => x \in inFlight'
    PROVE  MemoryLeases'
<1>1. held \in [Consumers -> Claims \cup {NoClaim}] /\ now \in Nat
  BY DEF MemoryInv, MemoryTypeOK
<1>2. \A d \in Consumers : held'[d] # NoClaim => d # c /\ held'[d] = held[d]
  BY <1>1
<1>3. now >= held[c].expiresAt => held[c].id \in late'
  BY <1>1 DEF MemoryLate
<1>4. held[c] \in Claims /\ held[c].expiresAt \in Nat
  BY <1>1 DEF Claims
<1>5. MemoryClaimsKept'
  <2> SUFFICES ASSUME NEW d \in Consumers, held'[d] # NoClaim, held'[d].id \notin late',
                      now' < held'[d].expiresAt
               PROVE  held'[d] \in inFlight'
    BY DEF MemoryClaimsKept
  <2>1. d # c /\ held'[d] = held[d] /\ held[d].id \notin late /\ now < held[d].expiresAt
    BY <1>2
  <2>2. held[d] \in inFlight
    BY <1>2, <2>1 DEF MemoryLeases, MemoryClaimsKept
  <2>3. held[d] \in Claims /\ held[d].expiresAt \in Nat
    BY <1>1, <1>2 DEF Claims
  <2>4. held[d].id # held[c].id
    <3> SUFFICES ASSUME held[d].id = held[c].id PROVE FALSE
      OBVIOUS
    <3>1. ~(now >= held[c].expiresAt)
      BY <1>3, <2>1
    <3>2. now >= held[d].expiresAt
      BY <1>2, <2>1, <3>1 DEF MemoryLeases, MemoryLeaseExclusive
    <3> QED BY <1>1, <2>1, <2>3, <3>2
  <2> QED BY <2>1, <2>2, <2>4
<1>6. MemoryLeaseExclusive'
  BY <1>2 DEF MemoryLeases, MemoryLeaseExclusive
<1> QED BY <1>5, <1>6 DEF MemoryLeases

(* A dequeue hands out a record that nobody holds in time.                   *)
LEMMA MemoryDequeueLeases ==
    ASSUME MemoryInv, MemoryLeases, NEW c \in Consumers, Dequeue(c), late' = late \cup MemoryLate
    PROVE  MemoryLeases'
<1>1. PICK Q \in AfterReclaim(now) :
         /\ DequeueOp(Q, now)
         /\ \/ HandsOut(Q, now) = {} /\ UNCHANGED held
            \/ \E x \in HandsOut(Q, now) : held' = [held EXCEPT ![c] = x]
  BY DEF Dequeue
<1>2. now' = now /\ now \in Nat /\ held \in [Consumers -> Claims \cup {NoClaim}]
      /\ held[c] = NoClaim
  BY DEF Dequeue, MemoryInv, MemoryTypeOK
<1>3. IdsOf(Q) = IdsOf(queued) \cup IdsOf(Expired(now))
  BY <1>2, ReclaimMoves
<1>4. \A x \in inFlight : x.expiresAt > now => x.id \notin IdsOf(Q)
  <2> SUFFICES ASSUME NEW x \in inFlight, x.expiresAt > now, x.id \in IdsOf(Q) PROVE FALSE
    OBVIOUS
  <2>1. x.expiresAt \in Nat
    BY DEF MemoryInv, MemoryTypeOK, Claims
  <2>2. x.id \notin IdsOf(queued)
    BY DEF MemoryInv, Maps, IdsOf
  <2>3. PICK y \in Expired(now) : y.id = x.id
    BY <1>3, <2>2 DEF IdsOf
  <2>4. y \in inFlight /\ y.expiresAt <= now
    BY <2>3 DEF Expired
  <2>5. y = x
    BY <2>3, <2>4 DEF MemoryInv, Maps
  <2> QED BY <1>2, <2>1, <2>4, <2>5
<1>5. \A x \in inFlight : x.expiresAt > now => x \in inFlight'
  <2> SUFFICES ASSUME NEW x \in inFlight, x.expiresAt > now PROVE x \in inFlight'
    OBVIOUS
  <2>1. x.expiresAt \in Nat /\ x \notin Expired(now)
    BY <1>2 DEF MemoryInv, MemoryTypeOK, Claims, Expired
  <2>2. x.id \notin IdsOf(DueFirst(Q, now))
    BY <1>4 DEF IdsOf, DueFirst
  <2> QED BY <1>1, <2>1, <2>2 DEF DequeueOp
<1>6. \A x \in HandsOut(Q, now) : x \in inFlight' /\ x.id \in IdsOf(Q)
  <2> SUFFICES ASSUME NEW x \in HandsOut(Q, now) PROVE x \in inFlight' /\ x.id \in IdsOf(Q)
    OBVIOUS
  <2>1. PICK y \in DueFirst(Q, now) : x = ClaimOf(y, now)
    BY DEF HandsOut
  <2>2. y \in Q /\ x.id = y.id
    BY <2>1 DEF DueFirst, ClaimOf
  <2> QED BY <1>1, <2>2 DEF DequeueOp, IdsOf
<1>7. \A d \in Consumers : held[d] # NoClaim => d # c /\ held'[d] = held[d]
  BY <1>1, <1>2
<1>8. \A d \in Consumers : held'[d] # NoClaim => held'[d] = held[d] \/ (d = c /\ held'[c] \in HandsOut(Q, now))
  BY <1>1, <1>2
<1>9. \A d \in Consumers : held[d] # NoClaim => held[d].expiresAt \in Nat
  BY <1>2 DEF Claims
<1>10. MemoryClaimsKept'
  <2> SUFFICES ASSUME NEW d \in Consumers, held'[d] # NoClaim, held'[d].id \notin late',
                      now' < held'[d].expiresAt
               PROVE  held'[d] \in inFlight'
    BY DEF MemoryClaimsKept
  <2>1. CASE held'[d] = held[d]
    <3>1. held[d] \in inFlight
      BY <1>2, <2>1 DEF MemoryLeases, MemoryClaimsKept
    <3> QED BY <1>2, <1>5, <1>9, <2>1, <3>1
  <2>2. CASE d = c /\ held'[c] \in HandsOut(Q, now)
    BY <1>6, <2>2
  <2> QED BY <1>8, <2>1, <2>2
<1>11. \A d \in Consumers : d # c /\ held[d] # NoClaim /\ held'[c] \in HandsOut(Q, now)
          /\ held[d].id = held'[c].id => held[d].id \in late \/ now >= held[d].expiresAt
  <2> SUFFICES ASSUME NEW d \in Consumers, held[d] # NoClaim, held'[c] \in HandsOut(Q, now),
                      held[d].id = held'[c].id, held[d].id \notin late,
                      ~(now >= held[d].expiresAt)
               PROVE  FALSE
    OBVIOUS
  <2>1. now < held[d].expiresAt /\ held[d].expiresAt > now
    BY <1>2, <1>9
  <2>2. held[d] \in inFlight
    BY <2>1 DEF MemoryLeases, MemoryClaimsKept
  <2> QED BY <1>4, <1>6, <2>1, <2>2
<1>12. MemoryLeaseExclusive'
  BY <1>2, <1>7, <1>8, <1>11 DEF MemoryLeases, MemoryLeaseExclusive
<1> QED BY <1>10, <1>12 DEF MemoryLeases

(* A step that changes no consumer and takes nothing from the map.           *)
LEMMA MemoryQuietLeases ==
    ASSUME MemoryInv, MemoryLeases, held' = held, late' = late \cup MemoryLate, now' \in Nat,
           now <= now', inFlight \subseteq inFlight'
    PROVE  MemoryLeases'
<1>1. \A c \in Consumers : held[c] # NoClaim => held[c].expiresAt \in Nat
  BY DEF MemoryInv, MemoryTypeOK, Claims
<1>2. now \in Nat
  BY DEF MemoryInv, MemoryTypeOK
<1>3. MemoryClaimsKept'
  BY <1>1, <1>2 DEF MemoryLeases, MemoryClaimsKept
<1>4. MemoryLeaseExclusive'
  BY <1>1, <1>2 DEF MemoryLeases, MemoryLeaseExclusive
<1> QED BY <1>3, <1>4 DEF MemoryLeases

(* Every step of MemoryRetryQueue keeps the leases.                          *)
LEMMA MemoryLeaseStep ==
    ASSUME MemoryInv, MemoryLeases, MemoryNext, late' = late \cup MemoryLate
    PROVE  MemoryLeases'
<1>0. now \in Nat /\ \A c \in Consumers : held[c] # NoClaim => held[c] \in Claims
  BY DEF MemoryInv, MemoryTypeOK
<1>1. CASE \E d \in Records, delay \in Delays : Enqueue(d, delay)
  <2>1. held' = held /\ now' = now /\ inFlight' = inFlight
    BY <1>1 DEF Enqueue, EnqueueOp
  <2> QED BY <1>0, <2>1, MemoryQuietLeases
<1>2. CASE EvictNewest \/ MemoryTick
  <2>1. held' = held /\ now <= now' /\ now' \in Nat /\ inFlight' = inFlight
    BY <1>0, <1>2 DEF EvictNewest, EvictNewestOp, MemoryTick, ClockTicks, queueVars
  <2> QED BY <2>1, MemoryQuietLeases
<1>3. ASSUME NEW c \in Consumers, Ack(c) \/ (\E delay \in Delays : Nack(c, delay)) \/ ConsumerDies(c)
      PROVE  MemoryLeases'
  <2>1. held[c] # NoClaim /\ held' = [held EXCEPT ![c] = NoClaim] /\ now' = now
    BY <1>3 DEF Ack, Nack, ConsumerDies, Settles
  <2>2. \A x \in inFlight : x.id # held[c].id => x \in inFlight'
    BY <1>3 DEF Ack, AckOp, Nack, NackOp, ConsumerDies, queueVars
  <2> QED BY <2>1, <2>2, MemorySettleLeases
<1>4. ASSUME NEW c \in Consumers, Dequeue(c)
      PROVE  MemoryLeases'
  BY <1>4, MemoryDequeueLeases
<1> QED BY <1>1, <1>2, <1>3, <1>4 DEF MemoryNext

-----------------------------------------------------------------------------
(* A session of PostgresRetryQueue that lets go: rows of other records stay  *)
(* locked as they were, and it was in time or the record is late.            *)
LEMMA PgSettleLeases ==
    ASSUME PgInv, PgLeases, NEW s \in Sessions, pgHeld[s] # PgNone, PgHolds(s, PgNone),
           now' = now, late' = late \cup PgLate,
           \A r \in rows : r.id # pgHeld[s].id => r \in rows'
    PROVE  PgLeases'
<1>1. pgHeld \in [Sessions -> PgClaims \cup {PgNone}] /\ now \in Nat
  BY DEF PgInv, PgTypeOK
<1>2. \A q \in Sessions : pgHeld'[q] # PgNone => q # s /\ pgHeld'[q] = pgHeld[q]
  BY <1>1 DEF PgHolds
<1>3. now >= pgHeld[s].expiresAt => pgHeld[s].id \in late'
  BY <1>1 DEF PgLate, PgHolds
<1>4. PgClaimsKept'
  <2> SUFFICES ASSUME NEW q \in Sessions, pgHeld'[q] # PgNone, pgHeld'[q].id \notin late',
                      now' < pgHeld'[q].expiresAt
               PROVE  \E r \in rows' : r.id = pgHeld'[q].id /\ r.lockedUntil = pgHeld'[q].expiresAt
    BY DEF PgClaimsKept
  <2>1. q # s /\ pgHeld'[q] = pgHeld[q] /\ pgHeld[q].id \notin late /\ now < pgHeld[q].expiresAt
        /\ pgHeld[q].expiresAt \in Nat
    BY <1>2, PgHeldFacts
  <2>2. PICK r \in rows : r.id = pgHeld[q].id /\ r.lockedUntil = pgHeld[q].expiresAt
    BY <1>2, <2>1 DEF PgLeases, PgClaimsKept
  <2>3. pgHeld[q].id # pgHeld[s].id
    <3> SUFFICES ASSUME pgHeld[q].id = pgHeld[s].id PROVE FALSE
      OBVIOUS
    <3>1. ~(now >= pgHeld[s].expiresAt)
      BY <1>3, <2>1
    <3>2. now >= pgHeld[q].expiresAt
      BY <1>2, <2>1, <3>1 DEF PgLeases, PgLeaseExclusive
    <3> QED BY <1>1, <2>1, <3>2
  <2> QED BY <2>1, <2>2, <2>3
<1>5. PgLeaseExclusive'
  BY <1>2 DEF PgLeases, PgLeaseExclusive
<1> QED BY <1>4, <1>5 DEF PgLeases

(* A dequeue of PostgresRetryQueue takes a row that nobody holds in time.    *)
LEMMA PgDequeueLeases ==
    ASSUME PgInv, PgLeases, NEW s \in Sessions, PgDequeue(s), late' = late \cup PgLate
    PROVE  PgLeases'
<1> DEFINE u == now + PgTimeout
<1>1. PICK r \in Claimable(now) :
        /\ rows' = (rows \ {r}) \cup {[r EXCEPT !.lockedUntil = u]}
        /\ pgHeld' = [pgHeld EXCEPT ![s] = [id |-> r.id, expiresAt |-> u]]
  BY DEF PgDequeue, Unskipped, FirstDue, Relocked, PgHolds
<1>2. /\ now' = now /\ now \in Nat /\ u \in Nat /\ pgHeld[s] = PgNone
      /\ pgHeld \in [Sessions -> PgClaims \cup {PgNone}]
  BY PgTimeoutNat DEF PgDequeue, PgInv, PgTypeOK
<1>3. /\ r \in rows /\ r \in Rows /\ [r EXCEPT !.lockedUntil = u].id = r.id
      /\ [r EXCEPT !.lockedUntil = u].lockedUntil = u
      /\ r.lockedUntil = Null \/ r.lockedUntil <= now
  BY DEF Claimable, PgInv, PgTypeOK, Rows
<1>4. /\ pgHeld'[s].id = r.id /\ pgHeld'[s].expiresAt = u
      /\ \A q \in Sessions : q # s => pgHeld'[q] = pgHeld[q]
  BY <1>1, <1>2
<1>5. \A q \in Sessions : pgHeld[q] # PgNone /\ pgHeld[q].id \notin late /\ now < pgHeld[q].expiresAt
         => pgHeld[q].id # r.id
  <2> SUFFICES ASSUME NEW q \in Sessions, pgHeld[q] # PgNone, pgHeld[q].id \notin late,
                      now < pgHeld[q].expiresAt, pgHeld[q].id = r.id
               PROVE  FALSE
    OBVIOUS
  <2>1. PICK y \in rows : y.id = r.id /\ y.lockedUntil = pgHeld[q].expiresAt
    BY DEF PgLeases, PgClaimsKept
  <2>2. y = r
    BY <1>3, <2>1 DEF PgInv, PgTypeOK
  <2>3. pgHeld[q].expiresAt \in Nat
    BY PgHeldFacts
  <2> QED BY <1>2, <1>3, <2>1, <2>2, <2>3 DEF Null
<1>6. PgClaimsKept'
  <2> SUFFICES ASSUME NEW q \in Sessions, pgHeld'[q] # PgNone, pgHeld'[q].id \notin late',
                      now' < pgHeld'[q].expiresAt
               PROVE  \E y \in rows' : y.id = pgHeld'[q].id /\ y.lockedUntil = pgHeld'[q].expiresAt
    BY DEF PgClaimsKept
  <2>1. CASE q = s
    BY <1>1, <1>3, <1>4, <2>1
  <2>2. CASE q # s
    <3>1. PICK y \in rows : y.id = pgHeld[q].id /\ y.lockedUntil = pgHeld[q].expiresAt
      BY <1>2, <1>4, <2>2 DEF PgLeases, PgClaimsKept
    <3>2. y.id # r.id
      BY <1>2, <1>4, <1>5, <2>2, <3>1
    <3> QED BY <1>1, <1>4, <2>2, <3>1, <3>2
  <2> QED BY <2>1, <2>2
<1>7. \A q \in Sessions : q # s /\ pgHeld[q] # PgNone /\ pgHeld[q].id = r.id
         => pgHeld[q].id \in late \/ now >= pgHeld[q].expiresAt
  BY <1>2, <1>5, PgHeldFacts
<1>8. PgLeaseExclusive'
  BY <1>2, <1>4, <1>7 DEF PgLeases, PgLeaseExclusive
<1> QED BY <1>6, <1>8 DEF PgLeases

(* A step that changes no session and no locked row.                         *)
LEMMA PgQuietLeases ==
    ASSUME PgInv, PgLeases, pgHeld' = pgHeld, late' = late \cup PgLate, now' \in Nat, now <= now',
           \A r \in rows : r.lockedUntil # Null => r \in rows'
    PROVE  PgLeases'
<1>1. \A s \in Sessions : pgHeld[s] # PgNone => pgHeld[s].expiresAt \in Nat /\ pgHeld[s].expiresAt # Null
  BY PgHeldFacts DEF Null
<1>2. now \in Nat
  BY DEF PgInv, PgTypeOK
<1>3. PgClaimsKept'
  BY <1>1, <1>2 DEF PgLeases, PgClaimsKept
<1>4. PgLeaseExclusive'
  BY <1>1, <1>2 DEF PgLeases, PgLeaseExclusive
<1> QED BY <1>3, <1>4 DEF PgLeases

(* Every step of PostgresRetryQueue keeps the leases.                        *)
LEMMA PgLeaseStep ==
    ASSUME PgInv, PgLeases, PgNext, late' = late \cup PgLate
    PROVE  PgLeases'
<1>0. now \in Nat
  BY DEF PgInv, PgTypeOK
<1>1. CASE PgEvictNewest \/ PgTick \/ \E delay \in Delays : PgEnqueue(delay)
  <2>1. pgHeld' = pgHeld /\ now <= now' /\ now' \in Nat
    BY <1>0, <1>1 DEF PgEvictNewest, PgTick, ClockTicks, PgEnqueue
  <2>2. \A r \in rows : r.lockedUntil # Null => r \in rows'
    <3>1. CASE PgEvictNewest
      BY <3>1 DEF PgEvictNewest, Unskipped, LastDue, Evictable
    <3>2. CASE PgTick
      BY <3>2 DEF PgTick
    <3>3. CASE \E delay \in Delays : PgEnqueue(delay)
      <4>1. \A r \in rows : r.id # inserted + 1
        BY DEF PgInv, PgKnown, PgTypeOK, Rows, Ids
      <4> QED BY <3>3, <4>1 DEF PgEnqueue, Upsert
    <3> QED BY <1>1, <3>1, <3>2, <3>3
  <2> QED BY <2>1, <2>2, PgQuietLeases
<1>2. ASSUME NEW s \in Sessions,
             PgAck(s) \/ (\E delay \in Delays : PgNack(s, delay)) \/ PgConsumerDies(s)
      PROVE  PgLeases'
  <2>1. pgHeld[s] # PgNone /\ PgHolds(s, PgNone) /\ now' = now
    BY <1>2 DEF PgAck, PgNack, PgConsumerDies
  <2>2. \A r \in rows : r.id # pgHeld[s].id => r \in rows'
    BY <1>2 DEF PgAck, DeleteRow, PgNack, Unlocked, PgConsumerDies
  <2> QED BY <2>1, <2>2, PgSettleLeases
<1>3. ASSUME NEW s \in Sessions, PgDequeue(s)
      PROVE  PgLeases'
  BY <1>3, PgDequeueLeases
<1> QED BY <1>1, <1>2, <1>3 DEF PgNext

-----------------------------------------------------------------------------
(* What a script may do to the keys without breaking the lease of a worker   *)
(* other than the w that runs it: due times grow; what leaves the in-flight  *)
(* set was expired, and its record is due no earlier now, or is held by no   *)
(* other; and what enters it is a claim no other has.                        *)
DuesGrow ==
    \A n \in MembersNow' :
        /\ n.due \in Nat
        /\ \/ n.id > added \/ n.id \in late'
           \/ \E o \in MembersNow : o.id = n.id /\ o.due <= n.due

FlightLeaves(w) ==
    \A f \in zflight \ zflight' : f.member.id \notin late' =>
        /\ f.expiresAt <= now =>
             \A n \in MembersNow' : n.id = f.member.id => f.expiresAt <= n.due
        /\ now < f.expiresAt => \A v \in Workers \ {w} : f \notin work[v].claim

FlightEnters(w) ==
    \A f \in zflight' \ zflight : f.member.id \notin late' =>
        \A v \in Workers \ {w} : f \notin work[v].claim

KeysMove(w) == DuesGrow /\ FlightLeaves(w) /\ FlightEnters(w) /\ FlightTimes'

(* Types of what the keys hold.                                              *)
LEMMA RedisKeyTypes ==
    ASSUME RedisInv
    PROVE  /\ zqueue \subseteq Members /\ zflight \subseteq Scored /\ now \in Nat /\ added \in Nat
           /\ InFlightMembers \subseteq Members /\ MembersNow \subseteq Members
           /\ \A m \in MembersNow : m.id \in Nat /\ m.due \in Nat /\ m.id <= added
           /\ \A f \in zflight : /\ f.member \in InFlightMembers /\ f.member \in Members
                                 /\ f.expiresAt \in Nat
<1>1. zqueue \subseteq Members /\ zflight \subseteq Scored /\ now \in Nat /\ added \in Nat
  BY QueueAssumption DEF RedisInv, Store, Rest
<1>2. InFlightMembers \subseteq Members
  BY <1>1 DEF InFlightMembers, Scored
<1>3. \A m \in InFlightMembers : m.id <= added
  BY DEF RedisInv, Store, InFlightMembers
<1>4. \A m \in zqueue : m.id <= added
  BY DEF RedisInv, Store
<1> QED BY <1>1, <1>2, <1>3, <1>4 DEF MembersNow, InFlightMembers, Scored, Members, Ids

(* Types of what a worker is doing.                                          *)
LEMMA RedisWorkTypes ==
    ASSUME RedisInv, NEW w \in Workers
    PROVE  /\ work[w] \in Work /\ work[w].t \in Nat /\ work[w].todo \subseteq Members
           /\ \A m \in work[w].todo : m.id \in Nat /\ m.due \in Nat
           /\ \A f \in work[w].claim : /\ f \in Scored /\ f.member \in Members
                                       /\ f.member.id \in Nat /\ f.member.due \in Nat
                                       /\ f.member.id <= added /\ f.expiresAt \in Nat
<1>1. work[w] \in Work /\ \A f \in work[w].claim : f.member.id <= added
  BY DEF RedisInv, Rest
<1> QED BY <1>1 DEF Work, Scored, Members, Ids

(* A claim of another worker stays what it was.                              *)
LEMMA OtherClaimKept ==
    ASSUME RedisInv, RedisLeases, NEW w \in Workers, KeysMove(w), late \subseteq late', now' = now,
           NEW v \in Workers, v # w, NEW f \in work[v].claim
    PROVE  ClaimKept(f)'
<1> SUFFICES ASSUME f.member.id \notin late'
             PROVE  /\ f.member.due < f.expiresAt
                    /\ now < f.expiresAt => f \in zflight'
                    /\ \/ f \in zflight'
                       \/ \A n \in MembersNow' : n.id = f.member.id => f.expiresAt <= n.due
  BY DEF ClaimKept
<1>1. /\ f.member.due < f.expiresAt
      /\ now < f.expiresAt => f \in zflight
      /\ \/ f \in zflight
         \/ \A n \in MembersNow : n.id = f.member.id => f.expiresAt <= n.due
  BY DEF RedisLeases, RedisClaimsKept, ClaimKept
<1>2. f.member.id \in Nat /\ f.member.id <= added /\ f.expiresAt \in Nat /\ now \in Nat /\ added \in Nat
  BY RedisWorkTypes, RedisKeyTypes
<1>3. CASE f \in zflight
  BY <1>1, <1>2, <1>3 DEF KeysMove, FlightLeaves
<1>4. CASE f \notin zflight
  <2>1. ~(now < f.expiresAt) /\ \A n \in MembersNow : n.id = f.member.id => f.expiresAt <= n.due
    BY <1>1, <1>4
  <2>2. ASSUME NEW n \in MembersNow', n.id = f.member.id PROVE f.expiresAt <= n.due
    <3>1. PICK o \in MembersNow : o.id = n.id /\ o.due <= n.due
      BY <1>2, <2>2 DEF KeysMove, DuesGrow
    <3>2. f.expiresAt <= o.due /\ o.due \in Nat
      BY <2>1, <2>2, <3>1, RedisKeyTypes
    <3> QED BY <1>2, <3>1, <3>2 DEF KeysMove, DuesGrow
  <2> QED BY <1>1, <2>1, <2>2
<1> QED BY <1>3, <1>4

(* A member another worker is about to reclaim stays stale.                  *)
LEMMA OtherStaleKept ==
    ASSUME RedisInv, RedisLeases, NEW w \in Workers, KeysMove(w), late \subseteq late', now' = now,
           added' \in Nat, added <= added', NEW v \in Workers, NEW m \in Members, NEW t \in Nat,
           t <= now, StaleMember(m, t)
    PROVE  StaleMember(m, t)'
<1>0. m.id \in Nat /\ m.due \in Nat /\ added \in Nat /\ now \in Nat
  BY RedisKeyTypes DEF Members, Ids
<1>1. m.id <= added /\ m.id <= added'
  BY <1>0 DEF StaleMember
<1> SUFFICES ASSUME m.id \notin late'
             PROVE  \/ \E f \in zflight' : f.member = m /\ f.expiresAt <= t
                    \/ \A n \in MembersNow' : n.id = m.id => m.due < n.due
  BY <1>1 DEF StaleMember
<1>2. \/ \E f \in zflight : f.member = m /\ f.expiresAt <= t
      \/ \A n \in MembersNow : n.id = m.id => m.due < n.due
  BY DEF StaleMember
<1>3. ASSUME NEW f \in zflight, f.member = m, f.expiresAt <= t, f \notin zflight'
      PROVE  \A n \in MembersNow' : n.id = m.id => m.due < n.due
  <2>1. f.expiresAt \in Nat /\ m.due < f.expiresAt /\ f.expiresAt <= now
    BY <1>0, <1>3, RedisKeyTypes DEF RedisLeases, RedisTimes, FlightTimes
  <2>2. \A n \in MembersNow' : n.id = m.id => f.expiresAt <= n.due
    BY <1>3, <2>1 DEF KeysMove, FlightLeaves
  <2>3. \A n \in MembersNow' : n.due \in Nat
    BY DEF KeysMove, DuesGrow
  <2> QED BY <1>0, <2>1, <2>2, <2>3
<1>4. ASSUME \A n \in MembersNow : n.id = m.id => m.due < n.due,
             NEW n \in MembersNow', n.id = m.id
      PROVE  m.due < n.due
  <2>1. PICK o \in MembersNow : o.id = n.id /\ o.due <= n.due
    BY <1>0, <1>1, <1>4 DEF KeysMove, DuesGrow
  <2>2. m.due < o.due /\ o.due \in Nat /\ n.due \in Nat
    BY <1>4, <2>1, RedisKeyTypes DEF KeysMove, DuesGrow
  <2> QED BY <1>0, <2>1, <2>2
<1> QED BY <1>2, <1>3, <1>4

(* A worker moves on to x while a script changes the keys.                   *)
LEMMA RedisMoves ==
    ASSUME RedisInv, RedisLeases, NEW w \in Workers, NEW x \in Work, Goes(w, x), KeysMove(w),
           late \subseteq late', now' = now, added' \in Nat, added <= added',
           WorkTimes(x)', OwnMember(x)', \A f \in x.claim : ClaimKept(f)',
           \A v \in Workers \ {w} : \A f \in work[v].claim : \A g \in x.claim :
               f.member.id = g.member.id /\ f.member.id \notin late'
                   => f \notin zflight' \/ g \notin zflight',
           x.at = "reclaiming" => \A m \in x.todo : StaleMember(m, x.t)'
    PROVE  RedisLeases'
<1>1. work \in [Workers -> Work]
  BY DEF RedisInv, Rest
<1>2. work'[w] = x /\ \A v \in Workers : v # w => work'[v] = work[v]
  BY <1>1 DEF Goes
<1>3. RedisTimes'
  <2>1. \A v \in Workers : v # w => WorkTimes(work[v])'
    BY <1>2 DEF RedisLeases, RedisTimes, WorkTimes
  <2> QED BY <1>2, <2>1 DEF RedisTimes, KeysMove, WorkTimes
<1>4. RedisClaimsKept'
  <2> SUFFICES ASSUME NEW v \in Workers, NEW f \in work'[v].claim
               PROVE  ClaimKept(f)'
    BY DEF RedisClaimsKept
  <2>1. CASE v = w
    BY <1>2, <2>1
  <2>2. CASE v # w
    BY <1>2, <2>2, OtherClaimKept
  <2> QED BY <2>1, <2>2
<1>5. RedisNotShared'
  <2> SUFFICES ASSUME NEW u \in Workers, NEW v \in Workers,
                      NEW f \in work'[u].claim, NEW g \in work'[v].claim,
                      u # v, f.member.id = g.member.id, f.member.id \notin late',
                      f \in zflight', g \in zflight'
               PROVE  FALSE
    BY DEF RedisNotShared
  <2>1. CASE u = w \/ v = w
    BY <1>2, <2>1
  <2>2. CASE u # w /\ v # w
    <3>1. f \in work[u].claim /\ g \in work[v].claim
      BY <1>2, <2>2
    <3>2. f \in zflight /\ g \in zflight
      BY <2>2, <3>1 DEF KeysMove, FlightEnters
    <3> QED BY <3>1, <3>2 DEF RedisLeases, RedisNotShared
  <2> QED BY <2>1, <2>2
<1>6. RedisOwnMember'
  <2>1. \A v \in Workers : v # w => OwnMember(work[v])'
    BY <1>2 DEF RedisLeases, RedisOwnMember, OwnMember
  <2> QED BY <1>2, <2>1 DEF RedisOwnMember, OwnMember
<1>7. RedisStaleReclaim'
  <2> SUFFICES ASSUME NEW v \in Workers, work'[v].at = "reclaiming", NEW m \in work'[v].todo
               PROVE  StaleMember(m, work[v].t)'
    BY DEF RedisStaleReclaim
  <2>1. CASE v = w
    BY <1>2, <2>1 DEF StaleMember
  <2>2. CASE v # w
    <3>1. work'[v] = work[v] /\ m \in Members /\ work[v].t \in Nat
      BY <1>2, <2>2, RedisWorkTypes
    <3>2. StaleMember(m, work[v].t) /\ work[v].t <= now
      BY <3>1 DEF RedisLeases, RedisStaleReclaim, RedisTimes, WorkTimes
    <3>3. \A t \in Nat : t <= now /\ StaleMember(m, t) => StaleMember(m, t)'
      BY <3>1, OtherStaleKept
    <3> QED BY <3>1, <3>2, <3>3 DEF StaleMember
  <2> QED BY <2>1, <2>2
<1> QED BY <1>3, <1>4, <1>5, <1>6, <1>7 DEF RedisLeases

(* A worker that comes away without a claim.                                 *)
LEMMA RedisEmptyHanded ==
    ASSUME RedisInv, RedisLeases, NEW w \in Workers, NEW x \in Work, Goes(w, x), KeysMove(w),
           late \subseteq late', now' = now, added' \in Nat, added <= added',
           x.claim = {}, x.at # "nacking", WorkTimes(x),
           x.at = "reclaiming" => \A m \in x.todo : StaleMember(m, x.t)'
    PROVE  RedisLeases'
<1>1. WorkTimes(x)' /\ OwnMember(x)'
  BY DEF WorkTimes, OwnMember
<1> QED BY <1>1, RedisMoves

(* The state of a worker that is idle.                                       *)
LEMMA IdleTimes ==
    ASSUME RedisInv
    PROVE  WorkTimes(Idle) /\ Idle.at = "idle" /\ Idle.claim = {} /\ Idle \in Work
BY IdleTyped, RedisKeyTypes DEF WorkTimes, Idle

(* No key changes.                                                           *)
LEMMA RedisKeysStill ==
    ASSUME RedisInv, RedisLeases, NEW w \in Workers, UNCHANGED redisVars, now' = now
    PROVE  KeysMove(w) /\ MembersNow' = MembersNow
<1>1. zflight' = zflight /\ zqueue' = zqueue /\ MembersNow' = MembersNow
  BY DEF redisVars, MembersNow, InFlightMembers
<1>2. DuesGrow
  BY <1>1, RedisKeyTypes DEF DuesGrow
<1> QED BY <1>1, <1>2 DEF KeysMove, FlightLeaves, FlightEnters, FlightTimes, RedisLeases, RedisTimes

(* A worker that drops a claim after its time is counted as late.            *)
LEMMA RedisLateCounted ==
    ASSUME RedisInv, NEW w \in Workers, work[w].at = "holding", work'[w].at # "holding",
           late' = late \cup RedisLate, NEW f \in work[w].claim, now >= f.expiresAt
    PROVE  f.member.id \in late'
<1>1. w \in {v \in Workers : work[v].at = "holding" /\ work'[v].at # "holding"}
  OBVIOUS
<1>2. f \in {g \in work[w].claim : now >= g.expiresAt}
  OBVIOUS
<1> QED BY <1>1, <1>2 DEF RedisLate

(* The members there are once one has left the in-flight set and another     *)
(* takes its place in the queue.                                             *)
LEMMA MembersMoveBack ==
    ASSUME RedisInv, RedisInv', NEW m \in InFlightMembers, NEW b, b.id = m.id,
           zflight' = {f \in zflight : f.member # m}, PutMember(b)
    PROVE  /\ \A n \in MembersNow' : n = b \/ (n \in MembersNow /\ n.id # m.id)
           /\ b \in MembersNow'
<1>1. \A n \in zqueue : n.id # m.id
  BY DEF RedisInv, Store, OneMemberPerRecord, InFlightMembers
<1>2. hqueue = zqueue
  BY DEF RedisInv, Store, IndexMirrorsSets
<1>3. zqueue' = zqueue \cup {b}
  BY <1>1, <1>2 DEF PutMember
<1>4. \A n \in InFlightMembers' : n \in InFlightMembers /\ n.id # m.id
  BY DEF RedisInv, Store, OneMemberPerRecord, InFlightMembers
<1> QED BY <1>1, <1>3, <1>4 DEF MembersNow

(* ENQUEUE of a new record.                                                  *)
LEMMA RedisEnqueueLeases ==
    ASSUME RedisInv, RedisLeases, RedisInv', NEW w \in Workers, NEW delay \in Delays,
           RedisEnqueue(w, delay), late' = late \cup RedisLate
    PROVE  RedisLeases'
<1> DEFINE b == Member(added + 1, now + delay)
<1>1. /\ work[w].at = "idle" /\ added' = added + 1 /\ now' = now /\ work' = work
      /\ zflight' = zflight /\ PutMember(b)
  BY DEF RedisEnqueue, EnqueueScript
<1>2. added \in Nat /\ now \in Nat /\ b.id = added + 1 /\ b.due = now + delay /\ now + delay \in Nat
  BY QueueAssumption, RedisKeyTypes DEF Member
<1>3. \A n \in MembersNow' : n = b \/ n \in MembersNow
  BY <1>1 DEF PutMember, MembersNow, InFlightMembers
<1>4. DuesGrow
  <2> SUFFICES ASSUME NEW n \in MembersNow'
               PROVE  /\ n.due \in Nat
                      /\ \/ n.id > added
                         \/ \E o \in MembersNow : o.id = n.id /\ o.due <= n.due
    BY DEF DuesGrow
  <2>1. CASE n = b
    BY <1>2, <2>1
  <2>2. CASE n \in MembersNow
    <3>1. n.due \in Nat /\ n.due <= n.due
      BY <2>2, RedisKeyTypes
    <3> QED BY <2>2, <3>1
  <2> QED BY <1>3, <2>1, <2>2
<1>5. KeysMove(w)
  BY <1>1, <1>4 DEF KeysMove, FlightLeaves, FlightEnters, FlightTimes, RedisLeases, RedisTimes
<1>6. work[w] \in Work /\ Goes(w, work[w])
  BY <1>1, RedisWorkTypes DEF Goes, RedisInv, Rest
<1>7. work[w].claim = {} /\ WorkTimes(work[w])
  BY <1>1 DEF RedisLeases, RedisOwnMember, OwnMember, RedisTimes
<1> QED
  <2> DEFINE x == work[w]
  <2>1. x \in Work /\ Goes(w, x) /\ x.claim = {} /\ x.at = "idle" /\ WorkTimes(x)
    BY <1>1, <1>6, <1>7
  <2>2. \A y \in Work : Goes(w, y) /\ y.claim = {} /\ y.at = "idle" /\ WorkTimes(y) => RedisLeases'
    BY <1>1, <1>2, <1>5, RedisEmptyHanded
  <2> QED BY <2>1, <2>2

(* The reads that leave the worker without a claim.                          *)
LEMMA RedisReadLeases ==
    ASSUME RedisInv, RedisLeases, NEW w \in Workers, late' = late \cup RedisLate,
           DequeueCalled(w) \/ ReclaimRead(w) \/ Scan(w) \/ EvictRead(w) \/ WorkerDies(w)
    PROVE  RedisLeases'
<1> USE IdleTimes
<1>1. UNCHANGED redisVars /\ now' = now /\ added' = added /\ added \in Nat /\ now \in Nat
  BY RedisKeyTypes DEF DequeueCalled, ReclaimRead, Scan, EvictRead, WorkerDies
<1>2. KeysMove(w) /\ MembersNow' = MembersNow /\ zflight' = zflight
  BY <1>1, RedisKeysStill DEF redisVars
<1>3. /\ work[w] \in Work /\ work[w].t \in Nat /\ work[w].t <= now
      /\ work[w].at \notin {"holding", "nacking"} => work[w].claim = {}
  BY RedisWorkTypes DEF RedisLeases, RedisTimes, WorkTimes, RedisOwnMember, OwnMember
<1>4. \A x \in Work : /\ Goes(w, x) /\ x.claim = {} /\ x.at # "nacking" /\ WorkTimes(x)
                      /\ x.at = "reclaiming" => \A m \in x.todo : StaleMember(m, x.t)'
                      => RedisLeases'
  BY <1>1, <1>2, RedisEmptyHanded
<1>5. CASE DequeueCalled(w)
  <2> DEFINE x == [Idle EXCEPT !.at = "reclaim", !.t = now]
  <2>1. x \in Work /\ x.claim = {} /\ x.at = "reclaim" /\ x.t = now
    BY <1>1 DEF Idle, Work, Places
  <2>2. Goes(w, x) /\ WorkTimes(x)
    BY <1>1, <1>5, <2>1 DEF DequeueCalled, WorkTimes
  <2> HIDE DEF x
  <2> QED BY <1>4, <2>1, <2>2
<1>6. CASE ReclaimRead(w)
  <2>1. PICK B \in Lowest(ExpiredMembers(work[w].t), ExpiryOf) :
          Goes(w, IF B = {} THEN [work[w] EXCEPT !.at = "scan"]
                  ELSE [work[w] EXCEPT !.at = "reclaiming", !.todo = B, !.progressed = FALSE])
    BY <1>6 DEF ReclaimRead
  <2>2. B \subseteq ExpiredMembers(work[w].t)
    BY DEF Lowest
  <2>3. work[w].at = "reclaim" /\ work[w].claim = {}
    BY <1>3, <1>6 DEF ReclaimRead
  <2>4. CASE B = {}
    <3> DEFINE x == [work[w] EXCEPT !.at = "scan"]
    <3>1. x \in Work /\ x.claim = {} /\ x.at = "scan" /\ x.t = work[w].t
      BY <1>3, <2>3 DEF Work, Places
    <3>2. Goes(w, x) /\ WorkTimes(x)
      BY <1>3, <2>1, <2>4, <3>1 DEF WorkTimes
    <3> HIDE DEF x
    <3> QED BY <1>4, <3>1, <3>2
  <2>5. CASE B # {}
    <3>1. B \subseteq Members
      BY <2>2, RedisKeyTypes DEF ExpiredMembers
    <3>2. PICK x \in Work :
            /\ x = [work[w] EXCEPT !.at = "reclaiming", !.todo = B, !.progressed = FALSE]
            /\ x.claim = {} /\ x.at = "reclaiming" /\ x.t = work[w].t /\ x.todo = B
      <4> DEFINE y == [work[w] EXCEPT !.at = "reclaiming", !.todo = B, !.progressed = FALSE]
      <4>1. y \in Work /\ y.claim = {} /\ y.at = "reclaiming" /\ y.t = work[w].t /\ y.todo = B
        BY <1>3, <2>3, <3>1 DEF Work, Places
      <4> QED BY <4>1
    <3>3. Goes(w, x) /\ WorkTimes(x)
      BY <1>3, <2>1, <2>5, <3>2 DEF WorkTimes
    <3>4. ASSUME NEW m \in B PROVE StaleMember(m, x.t)'
      <4>1. PICK f \in zflight : f.expiresAt <= work[w].t /\ m = f.member
        BY <2>2, <3>4 DEF ExpiredMembers
      <4>2. m.id <= added
        BY <4>1 DEF RedisInv, Store
      <4> QED BY <1>1, <1>2, <3>2, <4>1, <4>2 DEF StaleMember
    <3> QED BY <1>4, <3>2, <3>3, <3>4
  <2> QED BY <2>4, <2>5
<1>7. CASE Scan(w)
  <2>1. PICK B \in Lowest({m \in zqueue : m.due <= work[w].t}, Due) :
          Goes(w, IF B = {} THEN Idle ELSE [work[w] EXCEPT !.at = "claiming", !.todo = B])
    BY <1>7 DEF Scan
  <2>2. B \subseteq {m \in zqueue : m.due <= work[w].t} /\ B \subseteq Members
    BY RedisKeyTypes DEF Lowest
  <2>3. work[w].claim = {}
    BY <1>3, <1>7 DEF Scan
  <2>4. CASE B = {}
    BY <1>4, <2>1, <2>4
  <2>5. CASE B # {}
    <3> DEFINE x == [work[w] EXCEPT !.at = "claiming", !.todo = B]
    <3>1. x \in Work /\ x.claim = {} /\ x.at = "claiming" /\ x.t = work[w].t /\ x.todo = B
      BY <1>3, <2>2, <2>3 DEF Work, Places
    <3>2. Goes(w, x) /\ WorkTimes(x)
      BY <1>3, <2>1, <2>2, <2>5, <3>1 DEF WorkTimes
    <3> HIDE DEF x
    <3> QED BY <1>4, <3>1, <3>2
  <2> QED BY <2>4, <2>5
<1>8. CASE EvictRead(w)
  <2>1. PICK m \in zqueue : Goes(w, [Idle EXCEPT !.at = "evicting", !.todo = {m}])
    BY <1>8 DEF EvictRead
  <2> DEFINE x == [Idle EXCEPT !.at = "evicting", !.todo = {m}]
  <2>2. {m} \in SUBSET Members
    BY RedisKeyTypes
  <2>3. x \in Work /\ x.claim = {} /\ x.at = "evicting" /\ x.t = 0
    BY <2>2 DEF Idle, Work, Places
  <2>4. Goes(w, x) /\ WorkTimes(x)
    BY <1>1, <2>1, <2>3 DEF WorkTimes
  <2> HIDE DEF x
  <2> QED BY <1>4, <2>3, <2>4
<1>9. CASE WorkerDies(w)
  BY <1>4, <1>9 DEF WorkerDies
<1> QED BY <1>5, <1>6, <1>7, <1>8, <1>9

(* The first round trip of nack: in time it reads the claim's own member.    *)
LEMMA RedisNackReadLeases ==
    ASSUME RedisInv, RedisLeases, NEW w \in Workers, late' = late \cup RedisLate, NackRead(w)
    PROVE  RedisLeases'
<1>1. UNCHANGED redisVars /\ now' = now /\ added' = added /\ added \in Nat /\ now \in Nat
  BY RedisKeyTypes DEF NackRead
<1>2. KeysMove(w) /\ MembersNow' = MembersNow /\ zflight' = zflight /\ late \subseteq late'
  BY <1>1, RedisKeysStill DEF redisVars
<1>3. work[w] \in Work /\ work \in [Workers -> Work]
  BY DEF RedisInv, Rest
<1>4. PICK f \in work[w].claim :
        LET read == {n \in hflight : n.id = f.member.id}
        IN  Goes(w, IF read = {} THEN Idle ELSE [work[w] EXCEPT !.at = "nacking", !.todo = read])
  BY DEF NackRead
<1> DEFINE read == {n \in hflight : n.id = f.member.id}
<1>5. CASE read = {}
  BY <1>1, <1>2, <1>4, <1>5, IdleTimes, RedisEmptyHanded
<1>6. CASE read # {}
  <2>1. read \subseteq Members
    BY RedisKeyTypes DEF RedisInv, Store, IndexMirrorsSets
  <2>2. PICK x \in Work :
          /\ x = [work[w] EXCEPT !.at = "nacking", !.todo = read]
          /\ x.at = "nacking" /\ x.t = work[w].t /\ x.todo = read /\ x.claim = work[w].claim
    <3> DEFINE y == [work[w] EXCEPT !.at = "nacking", !.todo = read]
    <3>1. /\ y \in Work /\ y.at = "nacking" /\ y.t = work[w].t /\ y.todo = read
          /\ y.claim = work[w].claim
      BY <1>3, <2>1 DEF Work, Places
    <3> QED BY <3>1
  <2>3. Goes(w, x) /\ work'[w] = x /\ work[w].at = "holding"
    BY <1>3, <1>4, <1>6, <2>2 DEF Goes, NackRead
  <2>4. WorkTimes(x)'
    BY <1>1, <2>2 DEF WorkTimes, RedisLeases, RedisTimes
  <2>5. \A g \in x.claim : ClaimKept(g)'
    BY <1>1, <1>2, <2>2 DEF ClaimKept, RedisLeases, RedisClaimsKept
  <2>6. ASSUME NEW m \in read, m.id \notin late' PROVE m = f.member
    <3>1. m.id = f.member.id /\ m \in InFlightMembers
      BY <2>6 DEF RedisInv, Store, IndexMirrorsSets
    <3>2. ~(now >= f.expiresAt)
      BY <2>2, <2>3, <2>6, <3>1, RedisLateCounted
    <3>3. f.expiresAt \in Nat
      BY RedisWorkTypes
    <3>4. f \in zflight
      BY <1>1, <1>2, <2>6, <3>1, <3>2, <3>3 DEF RedisLeases, RedisClaimsKept, ClaimKept
    <3> QED BY <3>1, <3>4 DEF RedisInv, Store, OneMemberPerRecord, InFlightMembers
  <2>7. OwnMember(x)'
    BY <2>2, <2>6 DEF OwnMember, RedisLeases, RedisOwnMember
  <2>8. \A v \in Workers \ {w} : \A h \in work[v].claim : \A g \in x.claim :
           h.member.id = g.member.id /\ h.member.id \notin late'
               => h \notin zflight' \/ g \notin zflight'
    BY <1>2, <2>2 DEF RedisLeases, RedisNotShared
  <2>9. added' \in Nat /\ added <= added' /\ x.at # "reclaiming"
    BY <1>1, <2>2
  <2> QED BY <1>1, <1>2, <2>3, <2>4, <2>5, <2>7, <2>8, <2>9, RedisMoves
<1> QED BY <1>5, <1>6

(* CLAIM of a member that is still queued: no other claim on the record is   *)
(* in the set, and none equals the new one.                                  *)
LEMMA RedisClaimLeases ==
    ASSUME RedisInv, RedisLeases, RedisInv', NEW w \in Workers, late' = late \cup RedisLate,
           NEW m \in zqueue, NEW e \in Nat, m.due < e, m.due <= now, ClaimScript(m, e),
           now' = now, added' = added,
           Goes(w, [Idle EXCEPT !.at = "holding", !.claim = {[member |-> m, expiresAt |-> e]}])
    PROVE  RedisLeases'
<1>1. PICK g \in Scored : g = [member |-> m, expiresAt |-> e] /\ g.member = m /\ g.expiresAt = e
  <2> DEFINE y == [member |-> m, expiresAt |-> e]
  <2>1. y \in Scored /\ y.member = m /\ y.expiresAt = e
    BY RedisKeyTypes DEF Scored
  <2> QED BY <2>1
<1>2. m \in Members /\ m.due \in Nat /\ m.id \in Nat /\ now \in Nat /\ added \in Nat
  BY RedisKeyTypes DEF MembersNow
<1>3. PICK x \in Work :
        /\ x = [Idle EXCEPT !.at = "holding", !.claim = {g}]
        /\ x.at = "holding" /\ x.claim = {g} /\ x.t = 0
  <2>1. {g} \in SUBSET Scored /\ "holding" \in Places
    BY DEF Places
  <2> DEFINE y == [Idle EXCEPT !.at = "holding", !.claim = {g}]
  <2>2. y \in Work /\ y.at = "holding" /\ y.claim = {g} /\ y.t = 0
    BY <2>1 DEF Idle, Work
  <2> QED BY <2>2
<1>4. Goes(w, x)
  BY <1>1, <1>3
<1>5. \A f \in zflight : f.member.id # m.id
  BY DEF RedisInv, Store, OneMemberPerRecord
<1>6. zflight' = zflight \cup {g} /\ zqueue' = zqueue \ {m}
  BY <1>1, <1>5 DEF ClaimScript
<1>7. MembersNow' = MembersNow
  BY <1>1, <1>6 DEF MembersNow, InFlightMembers
<1>8. ASSUME NEW v \in Workers, NEW f \in work[v].claim, f.member.id = m.id, f.member.id \notin late'
      PROVE  f \notin zflight'
  <2>1. f \notin zflight /\ f.member.id \notin late
    BY <1>5, <1>8
  <2>2. f.member.due < f.expiresAt /\ f.expiresAt <= m.due
    BY <1>8, <2>1 DEF RedisLeases, RedisClaimsKept, ClaimKept, MembersNow
  <2>3. f.member.due \in Nat /\ f.expiresAt \in Nat
    BY RedisWorkTypes
  <2>4. f # g
    BY <1>1, <1>2, <2>2, <2>3
  <2> QED BY <1>6, <2>1, <2>4
<1>9. KeysMove(w)
  <2>1. DuesGrow
    BY <1>7, RedisKeyTypes DEF DuesGrow
  <2>2. FlightLeaves(w)
    BY <1>6 DEF FlightLeaves
  <2>3. FlightEnters(w)
    BY <1>1, <1>6, <1>8 DEF FlightEnters
  <2>4. FlightTimes'
    BY <1>1, <1>6 DEF FlightTimes, RedisLeases, RedisTimes
  <2> QED BY <2>1, <2>2, <2>3, <2>4 DEF KeysMove
<1>10. WorkTimes(x)' /\ OwnMember(x)'
  BY <1>2, <1>3 DEF WorkTimes, OwnMember
<1>11. \A f \in x.claim : ClaimKept(f)'
  BY <1>1, <1>3, <1>6 DEF ClaimKept
<1>12. \A v \in Workers \ {w} : \A f \in work[v].claim : \A h \in x.claim :
          f.member.id = h.member.id /\ f.member.id \notin late'
              => f \notin zflight' \/ h \notin zflight'
  BY <1>1, <1>3, <1>8
<1>13. added' \in Nat /\ added <= added' /\ late \subseteq late' /\ x.at # "reclaiming"
  BY <1>2, <1>3
<1> QED BY <1>4, <1>9, <1>10, <1>11, <1>12, <1>13, RedisMoves

(* One CLAIM of the loop, of a member that is queued or is not any more.     *)
LEMMA RedisClaimOneLeases ==
    ASSUME RedisInv, RedisLeases, RedisInv', NEW w \in Workers, late' = late \cup RedisLate,
           ClaimOne(w)
    PROVE  RedisLeases'
<1> DEFINE e == work[w].t + RedisTimeout
<1>1. PICK m \in work[w].todo :
        \/ /\ m \in zqueue /\ ClaimScript(m, e)
           /\ Goes(w, [Idle EXCEPT !.at = "holding", !.claim = {[member |-> m, expiresAt |-> e]}])
        \/ /\ Goes(w, IF work[w].todo \ {m} = {} THEN Idle
                      ELSE [work[w] EXCEPT !.todo = work[w].todo \ {m}])
           /\ UNCHANGED redisVars
  BY DEF ClaimOne
<1>2. now' = now /\ added' = added /\ added \in Nat /\ now \in Nat /\ work[w].at = "claiming"
  BY RedisKeyTypes DEF ClaimOne
<1>3. /\ work[w] \in Work /\ work[w].t \in Nat /\ work[w].t <= now /\ m.due \in Nat
      /\ m.due <= work[w].t /\ work[w].claim = {}
      /\ \A n \in work[w].todo : n.due <= work[w].t
  BY <1>2, RedisWorkTypes DEF RedisLeases, RedisTimes, WorkTimes, RedisOwnMember, OwnMember
<1>4. RedisTimeout \in Nat /\ RedisTimeout > 0
  BY QueueAssumption DEF RedisTimeout
<1>5. CASE m \in zqueue /\ ClaimScript(m, e)
           /\ Goes(w, [Idle EXCEPT !.at = "holding", !.claim = {[member |-> m, expiresAt |-> e]}])
  <2>1. e \in Nat /\ m.due < e /\ m.due <= now
    BY <1>2, <1>3, <1>4
  <2> HIDE DEF e
  <2> QED BY <1>2, <1>5, <2>1, RedisClaimLeases
<1>6. CASE /\ Goes(w, IF work[w].todo \ {m} = {} THEN Idle
                      ELSE [work[w] EXCEPT !.todo = work[w].todo \ {m}])
           /\ UNCHANGED redisVars
  <2>1. KeysMove(w) /\ late \subseteq late'
    BY <1>2, <1>6, RedisKeysStill
  <2>2. CASE work[w].todo \ {m} = {}
    BY <1>2, <1>6, <2>1, <2>2, IdleTimes, RedisEmptyHanded
  <2>3. CASE work[w].todo \ {m} # {}
    <3>1. PICK x \in Work :
            /\ x = [work[w] EXCEPT !.todo = work[w].todo \ {m}]
            /\ x.at = "claiming" /\ x.claim = {} /\ x.t = work[w].t
            /\ x.todo = work[w].todo \ {m}
      <4> DEFINE y == [work[w] EXCEPT !.todo = work[w].todo \ {m}]
      <4>1. /\ y \in Work /\ y.at = "claiming" /\ y.claim = {} /\ y.t = work[w].t
            /\ y.todo = work[w].todo \ {m}
        BY <1>2, <1>3 DEF Work
      <4> QED BY <4>1
    <3>2. Goes(w, x) /\ WorkTimes(x)
      BY <1>3, <1>6, <2>3, <3>1 DEF WorkTimes
    <3>3. added' \in Nat /\ added <= added' /\ x.claim = {} /\ x.at # "nacking" /\ x.at # "reclaiming"
      BY <1>2, <3>1
    <3> QED BY <1>2, <2>1, <3>2, <3>3, RedisEmptyHanded
  <2> QED BY <2>2, <2>3
<1> QED BY <1>1, <1>5, <1>6

(* RECLAIM, and the second half of REQUEUE: a member goes back to the queue  *)
(* under a due time no earlier than its own; if its claim is over, no        *)
(* earlier than the end of it; and if not, no other worker has the claim.    *)
LEMMA MoveBackLeases ==
    ASSUME RedisInv, RedisLeases, RedisInv', NEW w \in Workers, now' = now,
           NEW m \in InFlightMembers, NEW t \in Nat,
           zflight' = {f \in zflight : f.member # m}, PutMember(Member(m.id, t)),
           m.id \notin late' =>
               /\ m.due <= t
               /\ \A f \in zflight : f.member = m =>
                     /\ f.expiresAt <= now => f.expiresAt <= t
                     /\ now < f.expiresAt => \A v \in Workers \ {w} : f \notin work[v].claim
    PROVE  KeysMove(w)
<1> DEFINE b == Member(m.id, t)
<1>1. b.id = m.id /\ b.due = t /\ m \in MembersNow
  BY DEF Member, MembersNow
<1>2. \A n \in MembersNow' : n = b \/ (n \in MembersNow /\ n.id # m.id)
  BY <1>1, MembersMoveBack
<1> HIDE DEF b
<1>3. DuesGrow
  <2> SUFFICES ASSUME NEW n \in MembersNow'
               PROVE  /\ n.due \in Nat
                      /\ \/ n.id > added \/ n.id \in late'
                         \/ \E o \in MembersNow : o.id = n.id /\ o.due <= n.due
    BY DEF DuesGrow
  <2>1. CASE n = b
    BY <1>1, <2>1
  <2>2. CASE n \in MembersNow
    <3>1. n.due \in Nat /\ n.due <= n.due
      BY <2>2, RedisKeyTypes
    <3> QED BY <2>2, <3>1
  <2> QED BY <1>2, <2>1, <2>2
<1>4. FlightLeaves(w)
  <2> SUFFICES ASSUME NEW f \in zflight, f \notin zflight', f.member.id \notin late'
               PROVE  /\ f.expiresAt <= now =>
                           \A n \in MembersNow' : n.id = f.member.id => f.expiresAt <= n.due
                      /\ now < f.expiresAt => \A v \in Workers \ {w} : f \notin work[v].claim
    BY DEF FlightLeaves
  <2>1. f.member = m
    OBVIOUS
  <2> QED BY <1>1, <1>2, <2>1
<1>5. FlightEnters(w) /\ FlightTimes'
  BY DEF FlightEnters, FlightTimes, RedisLeases, RedisTimes
<1> QED BY <1>3, <1>4, <1>5 DEF KeysMove

(* One RECLAIM: the member's claim is over, also when the read is stale.     *)
LEMMA RedisReclaimLeases ==
    ASSUME RedisInv, RedisLeases, RedisInv', NEW w \in Workers, late' = late \cup RedisLate,
           ReclaimOne(w)
    PROVE  RedisLeases'
<1>1. PICK m \in work[w].todo, prog \in BOOLEAN :
        /\ ReclaimScript(m, work[w].t)
        /\ Goes(w, [work[w] EXCEPT !.todo = work[w].todo \ {m}, !.progressed = prog,
                       !.at = IF work[w].todo \ {m} # {} THEN "reclaiming"
                              ELSE IF prog THEN "reclaim" ELSE "scan"])
  <2>1. PICK m \in work[w].todo :
          /\ ReclaimScript(m, work[w].t)
          /\ Goes(w, [work[w] EXCEPT !.todo = work[w].todo \ {m},
                         !.progressed = work[w].progressed \/ Reclaims(m),
                         !.at = IF work[w].todo \ {m} # {} THEN "reclaiming"
                                ELSE IF work[w].progressed \/ Reclaims(m) THEN "reclaim" ELSE "scan"])
    BY DEF ReclaimOne
  <2>2. (work[w].progressed \/ Reclaims(m)) \in BOOLEAN
    OBVIOUS
  <2> QED BY <2>1, <2>2
<1>2. now' = now /\ added' = added /\ added \in Nat /\ now \in Nat /\ work[w].at = "reclaiming"
  BY RedisKeyTypes DEF ReclaimOne
<1>3. /\ work[w] \in Work /\ work[w].t \in Nat /\ work[w].t <= now /\ work[w].claim = {}
      /\ work[w].todo \subseteq Members
  BY <1>2, RedisWorkTypes DEF RedisLeases, RedisTimes, WorkTimes, RedisOwnMember, OwnMember
<1>4. m \in Members /\ StaleMember(m, work[w].t)
  BY <1>2, <1>3 DEF RedisLeases, RedisStaleReclaim
<1>5. KeysMove(w)
  <2>1. CASE m \notin InFlightMembers
    <3>1. UNCHANGED redisVars
      BY <1>1, <2>1 DEF ReclaimScript, Reclaims
    <3> QED BY <1>2, <3>1, RedisKeysStill
  <2>2. CASE m \in InFlightMembers
    <3>1. zflight' = {f \in zflight : f.member # m} /\ PutMember(Member(m.id, work[w].t))
      BY <1>1, <2>2 DEF ReclaimScript, Reclaims
    <3>2. ASSUME m.id \notin late'
          PROVE  /\ m.due <= work[w].t
                 /\ \A f \in zflight : f.member = m => f.expiresAt <= work[w].t
      <4>1. m \in MembersNow /\ m.due \in Nat /\ m.id \notin late
        BY <2>2, <3>2, RedisKeyTypes DEF MembersNow
      <4>2. PICK f \in zflight : f.member = m /\ f.expiresAt <= work[w].t
        BY <1>4, <4>1 DEF StaleMember
      <4>3. f.expiresAt \in Nat /\ m.due < f.expiresAt
        BY <4>2, RedisKeyTypes DEF RedisLeases, RedisTimes, FlightTimes
      <4>4. \A g \in zflight : g.member = m => g = f
        BY <4>2 DEF RedisInv, Store, OneMemberPerRecord
      <4> QED BY <1>3, <4>1, <4>2, <4>3, <4>4
    <3>3. m.id \notin late' =>
               /\ m.due <= work[w].t
               /\ \A f \in zflight : f.member = m =>
                     /\ f.expiresAt <= now => f.expiresAt <= work[w].t
                     /\ now < f.expiresAt => \A v \in Workers \ {w} : f \notin work[v].claim
      <4>1. \A f \in zflight : f.expiresAt \in Nat
        BY RedisKeyTypes
      <4> QED BY <1>2, <1>3, <3>2, <4>1
    <3> QED BY <1>2, <1>3, <2>2, <3>1, <3>3, MoveBackLeases
  <2> QED BY <2>1, <2>2
<1>6. PICK x \in Work :
        /\ Goes(w, x)
        /\ x.claim = {} /\ x.t = work[w].t /\ x.todo \subseteq work[w].todo
        /\ x.at \in {"reclaiming", "reclaim", "scan"}
  <2> DEFINE y == [work[w] EXCEPT !.todo = work[w].todo \ {m}, !.progressed = prog,
                      !.at = IF work[w].todo \ {m} # {} THEN "reclaiming"
                             ELSE IF prog THEN "reclaim" ELSE "scan"]
  <2>1. (IF work[w].todo \ {m} # {} THEN "reclaiming" ELSE IF prog THEN "reclaim" ELSE "scan")
           \in {"reclaiming", "reclaim", "scan"}
    OBVIOUS
  <2>2. y \in Work /\ y.claim = {} /\ y.t = work[w].t /\ y.todo \subseteq work[w].todo
        /\ y.at \in {"reclaiming", "reclaim", "scan"}
    BY <1>3, <2>1 DEF Work, Places
  <2> HIDE DEF y
  <2>3. Goes(w, y)
    BY <1>1 DEF y
  <2> QED BY <2>2, <2>3
<1>7. x.at = "reclaiming" => \A n \in x.todo : StaleMember(n, x.t)'
  <2> SUFFICES ASSUME NEW n \in x.todo PROVE StaleMember(n, x.t)'
    OBVIOUS
  <2>1. n \in Members /\ x.t \in Nat /\ x.t <= now /\ StaleMember(n, x.t)
    BY <1>2, <1>3, <1>6 DEF RedisLeases, RedisStaleReclaim
  <2> QED BY <1>2, <1>5, <2>1, OtherStaleKept
<1>8. WorkTimes(x) /\ x.at # "nacking" /\ added' \in Nat /\ added <= added' /\ late \subseteq late'
  BY <1>2, <1>3, <1>6 DEF WorkTimes
<1> QED BY <1>2, <1>5, <1>6, <1>7, <1>8, RedisEmptyHanded

(* The second round trip of nack: REQUEUE moves the member only if it is     *)
(* still the one of the worker's own claim, whose time may be over.          *)
LEMMA RedisRequeueLeases ==
    ASSUME RedisInv, RedisLeases, RedisInv', NEW w \in Workers, NEW delay \in Delays,
           late' = late \cup RedisLate, NackRequeue(w, delay)
    PROVE  RedisLeases'
<1>1. PICK m \in work[w].todo : RequeueScript(m, now + delay)
  BY DEF NackRequeue
<1>2. /\ Goes(w, Idle) /\ now' = now /\ added' = added /\ work[w].at = "nacking"
      /\ added \in Nat /\ now \in Nat /\ now + delay \in Nat /\ now <= now + delay
  BY RedisKeyTypes, QueueAssumption DEF NackRequeue
<1>3. KeysMove(w)
  <2>1. CASE m \notin hflight
    <3>1. UNCHANGED redisVars
      BY <1>1, <2>1 DEF RequeueScript, RequeueGuard
    <3> QED BY <1>2, <3>1, RedisKeysStill
  <2>2. CASE m \in hflight
    <3>1. /\ m \in InFlightMembers
          /\ {f \in zflight : f.member \notin {n \in hflight : n.id = m.id}}
                = {f \in zflight : f.member # m}
      BY <2>2, IndexedMember
    <3>2. \E f \in zflight : f.member \in hflight /\ f.member.id = m.id
      BY <2>2, <3>1 DEF InFlightMembers
    <3>3. zflight' = {f \in zflight : f.member # m} /\ PutMember(Member(m.id, now + delay))
      BY <1>1, <2>2, <3>1, <3>2 DEF RequeueScript, RequeueGuard
    <3>4. m \in MembersNow /\ m.due \in Nat /\ m.due <= now
      BY <3>1, RedisKeyTypes DEF MembersNow, InFlightMembers, RedisLeases, RedisTimes, FlightTimes
    <3>5. ASSUME m.id \notin late', NEW f \in zflight, f.member = m, NEW v \in Workers \ {w}
          PROVE  f \notin work[v].claim
      <4>1. PICK g \in work[w].claim : m.id = g.member.id /\ (m.id \notin late => m = g.member)
        BY <1>2 DEF RedisLeases, RedisOwnMember, OwnMember
      <4>2. m = g.member /\ m.id \notin late
        BY <3>5, <4>1
      <4>3. g \in zflight
        <5>1. g.member.due < g.expiresAt /\ g.expiresAt \in Nat
          BY <4>2, RedisWorkTypes DEF RedisLeases, RedisClaimsKept, ClaimKept
        <5>2. g \in zflight \/ g.expiresAt <= m.due
          BY <3>4, <4>2 DEF RedisLeases, RedisClaimsKept, ClaimKept
        <5> QED BY <3>4, <4>2, <5>1, <5>2
      <4> QED BY <3>5, <4>2, <4>3 DEF RedisLeases, RedisNotShared
    <3>6. \A f \in zflight : f.expiresAt \in Nat
      BY RedisKeyTypes
    <3>7. m.id \notin late' =>
               /\ m.due <= now + delay
               /\ \A f \in zflight : f.member = m =>
                     /\ f.expiresAt <= now => f.expiresAt <= now + delay
                     /\ now < f.expiresAt => \A v \in Workers \ {w} : f \notin work[v].claim
      BY <1>2, <3>4, <3>5, <3>6
    <3> QED BY <1>2, <3>1, <3>3, <3>7, MoveBackLeases
  <2> QED BY <2>1, <2>2
<1>4. added' \in Nat /\ added <= added' /\ late \subseteq late'
  BY <1>2
<1> QED BY <1>2, <1>3, <1>4, IdleTimes, RedisEmptyHanded

(* ACK takes out the worker's own claim, or the record is late.              *)
LEMMA RedisAckLeases ==
    ASSUME RedisInv, RedisLeases, RedisInv', NEW w \in Workers, late' = late \cup RedisLate,
           RedisAck(w)
    PROVE  RedisLeases'
<1>1. PICK f \in work[w].claim : AckScript(f.member.id)
  BY DEF RedisAck
<1>2. /\ Goes(w, Idle) /\ now' = now /\ added' = added /\ work[w].at = "holding"
      /\ added \in Nat /\ now \in Nat /\ work'[w] = Idle /\ Idle.at = "idle"
  BY RedisKeyTypes, IdleTimes DEF RedisAck, Goes, RedisInv, Rest
<1>3. zqueue' = zqueue /\ zflight' \subseteq zflight
      /\ \A g \in zflight : g \notin zflight' => g.member.id = f.member.id
  BY <1>1 DEF AckScript
<1>4. DuesGrow
  <2>1. MembersNow' \subseteq MembersNow
    BY <1>3 DEF MembersNow, InFlightMembers
  <2>2. \A n \in MembersNow : n.due \in Nat /\ n.due <= n.due
    BY RedisKeyTypes
  <2> QED BY <2>1, <2>2 DEF DuesGrow
<1>5. FlightLeaves(w)
  <2> SUFFICES ASSUME NEW g \in zflight, g \notin zflight', g.member.id \notin late'
               PROVE  ~(g.expiresAt <= now) /\ \A v \in Workers \ {w} : g \notin work[v].claim
    BY DEF FlightLeaves
  <2>1. g.member.id = f.member.id /\ f.expiresAt \in Nat
    BY <1>3, RedisWorkTypes
  <2>2. ~(now >= f.expiresAt)
    BY <1>2, <2>1, RedisLateCounted
  <2>3. f \in zflight /\ f.member.id \notin late
    BY <1>2, <2>1, <2>2 DEF RedisLeases, RedisClaimsKept, ClaimKept
  <2>4. g = f
    BY <2>1, <2>3 DEF RedisInv, Store, OneMemberPerRecord
  <2>5. \A v \in Workers \ {w} : g \notin work[v].claim
    BY <2>3, <2>4 DEF RedisLeases, RedisNotShared
  <2> QED BY <1>2, <2>1, <2>2, <2>4, <2>5
<1>6. KeysMove(w)
  BY <1>2, <1>3, <1>4, <1>5 DEF KeysMove, FlightEnters, FlightTimes, RedisLeases, RedisTimes
<1>7. added' \in Nat /\ added <= added' /\ late \subseteq late'
  BY <1>2
<1> QED BY <1>2, <1>6, <1>7, IdleTimes, RedisEmptyHanded

(* EVICT touches the queue only.                                             *)
LEMMA RedisEvictLeases ==
    ASSUME RedisInv, RedisLeases, NEW w \in Workers, late' = late \cup RedisLate, Evict(w)
    PROVE  RedisLeases'
<1>1. /\ Goes(w, Idle) /\ now' = now /\ added' = added /\ added \in Nat /\ now \in Nat
      /\ zflight' = zflight /\ zqueue' \subseteq zqueue
  BY RedisKeyTypes DEF Evict, EvictScript
<1>2. DuesGrow
  <2>1. MembersNow' \subseteq MembersNow
    BY <1>1 DEF MembersNow, InFlightMembers
  <2>2. \A n \in MembersNow : n.due \in Nat /\ n.due <= n.due
    BY RedisKeyTypes
  <2> QED BY <2>1, <2>2 DEF DuesGrow
<1>3. KeysMove(w)
  BY <1>1, <1>2 DEF KeysMove, FlightLeaves, FlightEnters, FlightTimes, RedisLeases, RedisTimes
<1>4. added' \in Nat /\ added <= added' /\ late \subseteq late'
  BY <1>1
<1> QED BY <1>1, <1>3, <1>4, IdleTimes, RedisEmptyHanded

(* Time passes.                                                              *)
LEMMA RedisTickLeases ==
    ASSUME RedisInv, RedisLeases, late' = late \cup RedisLate, RedisTick
    PROVE  RedisLeases'
<1>1. /\ now \in Nat /\ now' = now + 1 /\ zqueue' = zqueue /\ zflight' = zflight
      /\ added' = added /\ work' = work
  BY RedisKeyTypes DEF RedisTick, ClockTicks, redisVars
<1>2. MembersNow' = MembersNow /\ late \subseteq late'
  BY <1>1 DEF MembersNow, InFlightMembers
<1>3. RedisTimes'
  <2>1. FlightTimes'
    BY <1>1, RedisKeyTypes DEF RedisLeases, RedisTimes, FlightTimes, Members
  <2>2. \A w \in Workers : WorkTimes(work[w])'
    BY <1>1, RedisWorkTypes DEF RedisLeases, RedisTimes, WorkTimes
  <2> QED BY <2>1, <2>2 DEF RedisTimes
<1>4. RedisClaimsKept'
  BY <1>1, <1>2, RedisWorkTypes DEF RedisLeases, RedisClaimsKept, ClaimKept
<1>5. RedisNotShared'
  BY <1>1, <1>2 DEF RedisLeases, RedisNotShared
<1>6. RedisOwnMember'
  BY <1>1, <1>2 DEF RedisLeases, RedisOwnMember, OwnMember
<1>7. RedisStaleReclaim'
  BY <1>1, <1>2 DEF RedisLeases, RedisStaleReclaim, StaleMember
<1> QED BY <1>3, <1>4, <1>5, <1>6, <1>7 DEF RedisLeases

(* Every step of RedisRetryQueue keeps the leases.                           *)
LEMMA RedisLeaseStep ==
    ASSUME RedisInv, RedisLeases, RedisInv', RedisNext, late' = late \cup RedisLate
    PROVE  RedisLeases'
<1>1. CASE RedisTick
  BY <1>1, RedisTickLeases
<1>2. ASSUME NEW w \in Workers, WorkerStep(w)
      PROVE  RedisLeases'
  <2>1. CASE \E delay \in Delays : RedisEnqueue(w, delay) \/ NackRequeue(w, delay)
    BY <2>1, RedisEnqueueLeases, RedisRequeueLeases
  <2>2. CASE DequeueCalled(w) \/ ReclaimRead(w) \/ Scan(w) \/ EvictRead(w) \/ WorkerDies(w)
    BY <2>2, RedisReadLeases
  <2>3. CASE ReclaimOne(w) \/ ClaimOne(w)
    BY <2>3, RedisReclaimLeases, RedisClaimOneLeases
  <2>4. CASE RedisAck(w) \/ NackRead(w) \/ Evict(w)
    BY <2>4, RedisAckLeases, RedisNackReadLeases, RedisEvictLeases
  <2> QED BY <1>2, <2>1, <2>2, <2>3, <2>4 DEF WorkerStep
<1> QED BY <1>1, <1>2 DEF RedisNext

-----------------------------------------------------------------------------
(* At the start nobody holds anything, and an older build's claims are in    *)
(* the in-flight set.                                                        *)
LEMMA LeaseInit == MCInit => LeaseInv
<1> SUFFICES ASSUME MCInit PROVE LeaseInv
  OBVIOUS
<1>1. MemoryInv /\ RedisInv /\ PgInv
  BY MemoryInitInv, RedisInitInv, PgInitInv DEF MCInit
<1>2. MemoryLeases
  BY DEF MCInit, MemoryInit, MemoryLeases, MemoryClaimsKept, MemoryLeaseExclusive
<1>3. PgLeases
  BY DEF MCInit, PgInit, PgLeases, PgClaimsKept, PgLeaseExclusive
<1>4. RedisLeases
  <2>1. \A w \in Workers : work[w] = Idle
    BY DEF MCInit, RedisInit
  <2>2. now = 0 /\ RedisTimeout \in Nat /\ RedisTimeout > 0
    BY QueueAssumption DEF MCInit, RedisInit, RedisTimeout
  <2>3. FlightTimes
    BY <2>2 DEF FlightTimes, MCInit, RedisInit, Member
  <2>4. \A w \in Workers : WorkTimes(work[w])
    BY <1>1, <2>1, IdleTimes
  <2>5. Idle.claim = {} /\ Idle.at = "idle"
    BY DEF Idle
  <2>6. RedisClaimsKept /\ RedisNotShared
    BY <2>1, <2>5 DEF RedisClaimsKept, RedisNotShared
  <2>7. RedisOwnMember /\ RedisStaleReclaim
    BY <2>1, <2>5 DEF RedisOwnMember, OwnMember, RedisStaleReclaim
  <2> QED BY <2>3, <2>4, <2>6, <2>7 DEF RedisLeases, RedisTimes
<1>5. /\ held = [c \in Consumers |-> NoClaim] /\ work = [w \in Workers |-> Idle]
      /\ pgHeld = [s \in Sessions |-> PgNone]
  BY DEF MCInit, MemoryInit, RedisInit, PgInit
<1> QED BY <1>1, <1>2, <1>3, <1>4, <1>5 DEF LeaseInv

(* What a step of the composition may change.                                *)
mcQueueVars == <<memoryOwn, redisOwn, postgresOwn, sqsOwn, now, backend, late>>

(* Every step keeps the invariant of the queue that takes it.                *)
LEMMA LeaseStep == LeaseInv /\ [MCNext]_mcQueueVars => LeaseInv'
<1> SUFFICES ASSUME LeaseInv, [MCNext]_mcQueueVars PROVE LeaseInv'
  OBVIOUS
<1>1. CASE /\ backend = "memory" /\ MemoryNext
           /\ late' = late \cup MemoryLate
           /\ UNCHANGED <<backend, redisOwn, postgresOwn, sqsOwn>>
  <2>1. MemoryInv /\ MemoryLeases
    BY <1>1 DEF LeaseInv
  <2>2. MemoryInv' /\ MemoryLeases'
    BY <1>1, <2>1, MemoryStepInv, MemoryLeaseStep
  <2>3. backend' = "memory" /\ work' = work /\ pgHeld' = pgHeld
    BY <1>1 DEF redisOwn, postgresOwn
  <2> QED BY <1>1, <2>2, <2>3 DEF LeaseInv
<1>2. CASE /\ backend = "redis" /\ RedisNext
           /\ late' = late \cup RedisLate
           /\ UNCHANGED <<backend, memoryOwn, postgresOwn, sqsOwn>>
  <2>1. RedisInv /\ RedisLeases
    BY <1>2 DEF LeaseInv
  <2>2. RedisInv'
    BY <1>2, <2>1, RedisStepInv
  <2>3. RedisLeases'
    BY <1>2, <2>1, <2>2, RedisLeaseStep
  <2>4. backend' = "redis" /\ held' = held /\ pgHeld' = pgHeld
    BY <1>2 DEF memoryOwn, postgresOwn
  <2> QED BY <1>2, <2>2, <2>3, <2>4 DEF LeaseInv
<1>3. CASE /\ backend = "postgres" /\ PgNext
           /\ late' = late \cup PgLate
           /\ UNCHANGED <<backend, memoryOwn, redisOwn, sqsOwn>>
  <2>1. PgInv /\ PgLeases
    BY <1>3 DEF LeaseInv
  <2>2. PgInv' /\ PgLeases'
    BY <1>3, <2>1, PgStepInv, PgLeaseStep
  <2>3. backend' = "postgres" /\ held' = held /\ work' = work
    BY <1>3 DEF memoryOwn, redisOwn
  <2> QED BY <1>3, <2>2, <2>3 DEF LeaseInv
<1>4. CASE backend = "sqs" /\ UNCHANGED <<late, backend, memoryOwn, redisOwn, postgresOwn>>
  <2>1. backend' = "sqs" /\ held' = held /\ work' = work /\ pgHeld' = pgHeld
    BY <1>4 DEF memoryOwn, redisOwn, postgresOwn
  <2> QED BY <1>4, <2>1 DEF LeaseInv
<1>5. CASE UNCHANGED mcQueueVars
  <2>1. UNCHANGED <<memoryOwn, now, late, backend>> /\ UNCHANGED memoryVars
    BY <1>5 DEF mcQueueVars, memoryOwn, memoryVars
  <2>2. UNCHANGED redisAll /\ UNCHANGED pgVars
    BY <1>5 DEF mcQueueVars, redisOwn, postgresOwn, redisAll, pgVars
  <2>3. MemoryInv /\ MemoryLeases => MemoryInv' /\ MemoryLeases'
    <3>1. MemoryInv => MemoryInv'
      BY <2>1, MemoryStepInv
    <3>2. MemoryLeases => MemoryLeases'
      BY <2>1 DEF memoryVars, queueVars, MemoryLeases, MemoryClaimsKept, MemoryLeaseExclusive
    <3> QED BY <3>1, <3>2
  <2>4. PgInv /\ PgLeases => PgInv' /\ PgLeases'
    <3>1. PgInv => PgInv'
      BY <2>2, PgStepInv
    <3>2. PgLeases => PgLeases'
      BY <2>1, <2>2 DEF pgVars, PgLeases, PgClaimsKept, PgLeaseExclusive
    <3> QED BY <3>1, <3>2
  <2>5. RedisInv /\ RedisLeases => RedisInv' /\ RedisLeases'
    <3>1. RedisInv => RedisInv'
      BY <2>2, RedisStepInv
    <3>2. RedisLeases => RedisLeases'
      BY <2>1, <2>2 DEF redisAll, redisVars, RedisLeases, RedisTimes, FlightTimes, WorkTimes,
             RedisClaimsKept, ClaimKept, RedisNotShared, RedisOwnMember, OwnMember,
             RedisStaleReclaim, StaleMember, MembersNow, InFlightMembers
    <3> QED BY <3>1, <3>2
  <2>6. backend' = backend /\ held' = held /\ work' = work /\ pgHeld' = pgHeld
    BY <2>1, <2>2 DEF memoryVars, redisAll, pgVars
  <2> QED BY <2>3, <2>4, <2>5, <2>6 DEF LeaseInv
<1> QED BY <1>1, <1>2, <1>3, <1>4, <1>5 DEF MCNext

(* The invariant of whichever queue runs gives the leases of all three.      *)
LEMMA LeasesFollow == LeaseInv => LeasesExclusive
<1> SUFFICES ASSUME LeaseInv PROVE LeasesExclusive
  OBVIOUS
<1>1. MemoryLeaseExclusive
  <2>1. CASE backend = "memory"
    BY <2>1 DEF LeaseInv, MemoryLeases
  <2>2. CASE backend # "memory"
    BY <2>2 DEF LeaseInv, MemoryLeaseExclusive
  <2> QED BY <2>1, <2>2
<1>2. PgLeaseExclusive
  <2>1. CASE backend = "postgres"
    BY <2>1 DEF LeaseInv, PgLeases
  <2>2. CASE backend # "postgres"
    BY <2>2 DEF LeaseInv, PgLeaseExclusive
  <2> QED BY <2>1, <2>2
<1>3. RedisLeaseExclusive
  <2>1. CASE backend # "redis"
    <3>1. \A w \in Workers : work[w].claim = {}
      BY <2>1 DEF LeaseInv, Idle
    <3> QED BY <3>1 DEF RedisLeaseExclusive
  <2>2. CASE backend = "redis"
    <3> SUFFICES ASSUME NEW v \in Workers, NEW w \in Workers, NEW f \in work[v].claim,
                        NEW g \in work[w].claim, v # w, f.member.id = g.member.id,
                        f.member.id \notin late, ~(now >= f.expiresAt), ~(now >= g.expiresAt)
                 PROVE  FALSE
      BY DEF RedisLeaseExclusive
    <3>1. RedisInv /\ RedisLeases
      BY <2>2 DEF LeaseInv
    <3>2. f.expiresAt \in Nat /\ g.expiresAt \in Nat /\ now \in Nat
      BY <3>1, RedisWorkTypes, RedisKeyTypes
    <3>3. f \in zflight /\ g \in zflight
      BY <3>1, <3>2 DEF RedisLeases, RedisClaimsKept, ClaimKept
    <3> QED BY <3>1, <3>3 DEF RedisLeases, RedisNotShared
  <2> QED BY <2>1, <2>2
<1> QED BY <1>1, <1>2, <1>3 DEF LeasesExclusive

(* The visibility timeout of the memory, Redis and Postgres queues is a      *)
(* lease, for any number of consumers: while a claim has not expired nobody  *)
(* else is handed the record, as long as no consumer settled it late.        *)
THEOREM LeasesAreExclusive == MCSpec => []LeasesExclusive
<1>1. MCInit /\ [][MCNext]_mcQueueVars => []LeaseInv
  BY LeaseInit, LeaseStep, PTL
<1>2. MCSpec => MCInit /\ [][MCNext]_mcQueueVars
  BY DEF MCSpec, mcQueueVars
<1> QED BY <1>1, <1>2, LeasesFollow, PTL

-----------------------------------------------------------------------------
(* SqsRetryQueue on a standard queue.                                        *)
Polls == [at : Calls, t : Nat, todo : Seq(Receipts), on : SUBSET Receipts]

SqsTyped ==
    /\ messages \subseteq Messages
    /\ sent \in 0..MaxMessages
    /\ stored \in 0..MaxStored
    /\ tracked \subseteq Receipts
    /\ poller \in [Pollers -> Polls]
    /\ now \in Nat

(* A receipt is of a message that was sent, and of that message's record.    *)
ReceiptOfRecord(r) == r.mid <= sent /\ \A m \in messages : m.mid = r.mid => m.id = r.id

(* The receipts of a call, wherever it has them.                             *)
ReceiptsIn(x) == x.on \cup {x.todo[n] : n \in DOMAIN x.todo}

SqsReceipts ==
    /\ \A m \in messages : m.mid <= sent
    /\ \A m, n \in messages : m.mid = n.mid => m.id = n.id
    /\ \A r \in tracked : ReceiptOfRecord(r)
    /\ \A p \in Pollers : \A r \in ReceiptsIn(poller[p]) : ReceiptOfRecord(r)

(* Where a call is: what dequeue looked at was due or is sent again.         *)
CallSound(x) ==
    /\ x.t <= now
    /\ \A r, q \in x.on : r = q
    /\ x.at = "examine" => x.todo # <<>>
    /\ x.at = "hold" => \A r \in x.on : r.due <= now
    /\ x.at = "resend" => \A r \in x.on : x.t <= r.due

SqsCalls == \A p \in Pollers : CallSound(poller[p])

(* A message no consumer is about to delete.                                 *)
Spared(m) == \A p \in Pollers : poller[p].at = "delete" => \A r \in poller[p].on : r.mid # m.mid

(* A record that nobody acked or evicted has such a message: nack has sent   *)
(* another before it deletes.                                                *)
SqsSpared == \A i \in (1..stored) \ sqsGone : \E m \in messages : m.id = i /\ Spared(m)

SqsInv == SqsTyped /\ SqsReceipts /\ SqsCalls /\ SqsSpared

(* What a step may do to the messages: it sends new ones, and forgets or     *)
(* hides old ones.                                                           *)
MessagesGo ==
    /\ messages' \subseteq Messages
    /\ sent' \in 0..MaxMessages /\ sent <= sent'
    /\ \A m \in messages' : m.mid <= sent'
    /\ \A m, n \in messages' : m.mid = n.mid => m.id = n.id
    /\ \A m \in messages' : m.mid > sent \/ \E o \in messages : o.mid = m.mid /\ o.id = m.id

(* Rounding up to SQS seconds gives a number.                                *)
LEMMA CeilNat ==
    ASSUME NEW t \in Nat
    PROVE  CeilSeconds(t) \in Nat
<1>1. Second \in Nat /\ Second > 0
  BY SqsAssumption
<1> DEFINE q == (t + Second - 1) \div Second
<1>2. q \in Int /\ q >= 0
  BY <1>1
<1> HIDE DEF q
<1>3. Second * q \in Nat
  BY <1>1, <1>2
<1> QED BY <1>3 DEF CeilSeconds, q

(* The visibility timeout and the delay of a message are numbers.            *)
LEMMA SqsTimesNat ==
    ASSUME now \in Nat, NEW t \in Nat
    PROVE  SqsTimeout \in Nat /\ DelayOf(t) \in Nat
<1>1. SqsTimeout \in Nat
  <2>1. CASE VisibilityTimeout < 1
    BY <2>1, SqsAssumption DEF SqsTimeout
  <2>2. CASE ~(VisibilityTimeout < 1)
    <3>1. VisibilityTimeout \in Nat
      BY <2>2, QueueAssumption
    <3> QED BY <2>2, <3>1, CeilNat DEF SqsTimeout
  <2> QED BY <2>1, <2>2
<1>2. NonNegative(t - now) \in Nat
  BY DEF NonNegative
<1>3. CeilSeconds(NonNegative(t - now)) \in Nat
  BY <1>2, CeilNat
<1>4. MaxDelay * Second \in Nat
  BY SqsAssumption
<1>5. DelayOf(t) \in Nat
  <2> DEFINE c == CeilSeconds(NonNegative(t - now))
             d == MaxDelay * Second
  <2>1. DelayOf(t) = IF d < c THEN d ELSE c
    BY DEF DelayOf, Lowest2
  <2>2. c \in Nat /\ d \in Nat
    BY <1>3, <1>4
  <2> HIDE DEF c, d
  <2> QED BY <2>1, <2>2
<1> QED BY <1>1, <1>5

(* A receipt stays a receipt of its record.                                  *)
LEMMA ReceiptStays ==
    ASSUME SqsInv, MessagesGo, NEW r \in Receipts, ReceiptOfRecord(r)
    PROVE  ReceiptOfRecord(r)'
<1>1. r.mid \in Nat /\ sent \in Nat /\ sent' \in Nat
  BY SqsAssumption DEF Receipts, SqsInv, SqsTyped, MessagesGo
<1>2. r.mid <= sent /\ r.mid <= sent'
  BY <1>1 DEF ReceiptOfRecord, MessagesGo
<1>3. ASSUME NEW m \in messages', m.mid = r.mid PROVE m.id = r.id
  BY <1>1, <1>2, <1>3 DEF MessagesGo, ReceiptOfRecord
<1> QED BY <1>2, <1>3 DEF ReceiptOfRecord

(* What is known of the receipts of a call.                                  *)
LEMMA CallReceipts ==
    ASSUME SqsInv, NEW p \in Pollers
    PROVE  /\ poller[p] \in Polls /\ CallSound(poller[p])
           /\ \A r \in ReceiptsIn(poller[p]) : r \in Receipts /\ ReceiptOfRecord(r)
<1>1. poller[p] \in Polls
  BY DEF SqsInv, SqsTyped
<1>2. poller[p].on \subseteq Receipts /\ poller[p].todo \in Seq(Receipts)
  BY <1>1 DEF Polls
<1>3. ReceiptsIn(poller[p]) \subseteq Receipts
  BY <1>2, ElementOfSeq, LenProperties DEF ReceiptsIn
<1> QED BY <1>1, <1>3 DEF SqsInv, SqsCalls, SqsReceipts

(* The step of one consumer: types, receipts and calls.                      *)
LEMMA SqsCallMoves ==
    ASSUME SqsInv, MessagesGo, NEW p \in Pollers, NEW x \in Polls, PollerGoes(p, x),
           now' = now, stored' = stored,
           \A r \in tracked' : r \in tracked \/ (r \in Receipts /\ ReceiptOfRecord(r)),
           \A r \in ReceiptsIn(x) : r \in Receipts /\ ReceiptOfRecord(r),
           CallSound(x)
    PROVE  SqsTyped' /\ SqsReceipts' /\ SqsCalls'
<1>1. /\ poller \in [Pollers -> Polls] /\ poller'[p] = x
      /\ \A q \in Pollers : q # p => poller'[q] = poller[q]
      /\ poller' \in [Pollers -> Polls]
  BY DEF SqsInv, SqsTyped, PollerGoes
<1>2. \A r \in tracked' : r \in Receipts /\ ReceiptOfRecord(r)
  BY DEF SqsInv, SqsTyped, SqsReceipts
<1>3. SqsTyped'
  BY <1>1, <1>2 DEF SqsInv, SqsTyped, MessagesGo
<1>4. SqsReceipts'
  <2>1. \A r \in tracked' : ReceiptOfRecord(r)'
    BY <1>2, ReceiptStays
  <2>2. ASSUME NEW q \in Pollers, NEW r \in ReceiptsIn(poller[q])'
        PROVE  ReceiptOfRecord(r)'
    <3>1. r \in Receipts /\ ReceiptOfRecord(r)
      <4>1. CASE q = p
        BY <1>1, <2>2, <4>1 DEF ReceiptsIn
      <4>2. CASE q # p
        <5>1. r \in ReceiptsIn(poller[q])
          BY <1>1, <2>2, <4>2 DEF ReceiptsIn
        <5> QED BY <5>1, CallReceipts
      <4> QED BY <4>1, <4>2
    <3> QED BY <3>1, ReceiptStays
  <2> QED BY <2>1, <2>2 DEF SqsReceipts, MessagesGo
<1>5. SqsCalls'
  <2>1. \A q \in Pollers : CallSound(poller[q])'
    BY <1>1 DEF CallSound, SqsInv, SqsCalls
  <2> QED BY <2>1 DEF SqsCalls
<1> QED BY <1>3, <1>4, <1>5

(* The step of one consumer: it forgets no message that is spared, and       *)
(* before it deletes one the record is gone or was sent again.               *)
LEMMA SqsSparedMoves ==
    ASSUME SqsInv, MessagesGo, NEW p \in Pollers, NEW x \in Polls, PollerGoes(p, x),
           stored' = stored, sqsGone \subseteq sqsGone',
           \A r \in x.on : r \in Receipts /\ ReceiptOfRecord(r),
           \A m \in messages : Spared(m) /\ m.id \notin sqsGone'
               => \E n \in messages' : n.mid = m.mid /\ n.id = m.id,
           x.at = "delete" => \A r \in x.on :
               \/ r.id \in sqsGone' \/ \E n \in messages' : n.id = r.id /\ n.mid > sent
               \/ poller[p].at = "delete" /\ r \in poller[p].on
    PROVE  SqsSpared'
<1>1. /\ poller'[p] = x /\ \A q \in Pollers : q # p => poller'[q] = poller[q]
      /\ sent \in Nat
  BY SqsAssumption DEF SqsInv, SqsTyped, PollerGoes
<1>2. \A q \in Pollers : \A r \in poller'[q].on : r \in Receipts /\ ReceiptOfRecord(r)
  <2>1. ASSUME NEW q \in Pollers, q # p, NEW r \in poller[q].on
        PROVE  r \in Receipts /\ ReceiptOfRecord(r)
    BY CallReceipts DEF ReceiptsIn
  <2> QED BY <1>1, <2>1
<1>3. \A r \in Receipts : r.mid \in Nat
  BY DEF Receipts
<1> SUFFICES ASSUME NEW i \in (1..stored) \ sqsGone'
             PROVE  \E n \in messages' : n.id = i /\ Spared(n)'
  BY DEF SqsSpared
<1>4. CASE \E n \in messages' : n.id = i /\ n.mid > sent
  <2>1. PICK n \in messages' : n.id = i /\ n.mid > sent
    BY <1>4
  <2>2. \A q \in Pollers : \A r \in poller'[q].on : r.mid # n.mid
    <3> SUFFICES ASSUME NEW q \in Pollers, NEW r \in poller'[q].on, r.mid = n.mid PROVE FALSE
      OBVIOUS
    <3>1. r.mid <= sent /\ r.mid \in Nat
      BY <1>2, <1>3 DEF ReceiptOfRecord
    <3> QED BY <1>1, <2>1, <3>1
  <2> QED BY <2>1, <2>2 DEF Spared
<1>5. CASE ~\E n \in messages' : n.id = i /\ n.mid > sent
  <2>1. PICK m \in messages : m.id = i /\ Spared(m)
    BY DEF SqsInv, SqsSpared
  <2>2. PICK n \in messages' : n.mid = m.mid /\ n.id = i
    BY <2>1
  <2>3. ASSUME NEW q \in Pollers, poller'[q].at = "delete", NEW r \in poller'[q].on
        PROVE  r.mid # n.mid
    <3>1. CASE q # p
      BY <1>1, <2>1, <2>2, <2>3, <3>1 DEF Spared
    <3>2. CASE q = p
      <4>1. x.at = "delete" /\ r \in x.on
        BY <1>1, <2>3, <3>2
      <4>2. CASE poller[p].at = "delete" /\ r \in poller[p].on
        BY <2>1, <2>2, <4>2 DEF Spared
      <4>3. CASE r.id # i
        BY <1>2, <2>1, <2>2, <2>3, <4>3 DEF ReceiptOfRecord
      <4> QED BY <1>5, <4>1, <4>2, <4>3
    <3> QED BY <3>1, <3>2
  <2> QED BY <2>2, <2>3 DEF Spared
<1> QED BY <1>4, <1>5

(* A step that only hides or forgets messages.                               *)
LEMMA SqsHides ==
    ASSUME SqsInv, sent' = sent, messages' \subseteq Messages,
           \A n \in messages' : \E m \in messages : m.mid = n.mid /\ m.id = n.id
    PROVE  MessagesGo
<1>1. sent \in 0..MaxMessages /\ sent <= sent'
  BY SqsAssumption DEF SqsInv, SqsTyped
<1>2. \A n \in messages' : n.mid <= sent'
  BY DEF SqsInv, SqsReceipts
<1>3. \A m, n \in messages' : m.mid = n.mid => m.id = n.id
  BY DEF SqsInv, SqsReceipts
<1> QED BY <1>1, <1>2, <1>3 DEF MessagesGo

(* SendMessage to a standard queue adds one message, with a new number.      *)
LEMMA SqsSends ==
    ASSUME ~Fifo, SqsInv, NEW i \in Ids, NEW t \in Nat, SendMessage(i, t)
    PROVE  /\ MessagesGo
           /\ messages \subseteq messages'
           /\ \E n \in messages' : n.id = i /\ n.mid > sent
<1> DEFINE new == [mid |-> sent + 1, id |-> i, due |-> t, visibleAt |-> now + DelayOf(t)]
<1>1. /\ sent \in Nat /\ sent < MaxMessages /\ MaxMessages \in Nat /\ now \in Nat
      /\ sent' = sent + 1 /\ messages' = messages \cup {new}
  BY SqsAssumption DEF SendMessage, SqsInv, SqsTyped
<1>2. DelayOf(t) \in Nat
  BY <1>1, SqsTimesNat
<1>3. new \in Messages /\ new.mid = sent + 1 /\ new.id = i
  BY <1>1, <1>2 DEF Messages
<1> HIDE DEF new
<1>4. \A m \in messages : m.mid <= sent /\ m.mid \in Nat
  BY DEF SqsInv, SqsReceipts, SqsTyped, Messages
<1>5. \A m, n \in messages : m.mid = n.mid => m.id = n.id
  BY DEF SqsInv, SqsReceipts
<1>6. messages' \subseteq Messages
  BY <1>1, <1>3 DEF SqsInv, SqsTyped
<1>7. \A m, n \in messages' : m.mid = n.mid => m.id = n.id
  BY <1>1, <1>3, <1>4, <1>5
<1>8. \A m \in messages' : m.mid <= sent' /\ (m.mid > sent \/ \E o \in messages : o.mid = m.mid /\ o.id = m.id)
  BY <1>1, <1>3, <1>4
<1>9. sent' \in 0..MaxMessages /\ sent <= sent'
  BY <1>1
<1>10. MessagesGo
  BY <1>6, <1>7, <1>8, <1>9 DEF MessagesGo
<1> QED BY <1>1, <1>3, <1>10

(* DeleteMessage forgets at most the message of the receipt.                 *)
LEMMA SqsDeletes ==
    ASSUME SqsInv, NEW r, DeleteMessage(r), sent' = sent
    PROVE  /\ MessagesGo
           /\ \A m \in messages : m.mid # r.mid => m \in messages'
<1>1. messages' \subseteq messages /\ \A m \in messages : m.mid # r.mid => m \in messages'
  BY DEF DeleteMessage
<1>2. messages' \subseteq Messages
  BY <1>1 DEF SqsInv, SqsTyped
<1> QED BY <1>1, <1>2, SqsHides

(* A consumer that leaves the messages alone, or sends one, and is not about *)
(* to delete.                                                                *)
LEMMA SqsCallOnly ==
    ASSUME SqsInv, UNCHANGED sqs, NEW p \in Pollers, NEW x \in Polls, PollerGoes(p, x),
           UNCHANGED <<now, stored>>, sqsGone \subseteq sqsGone',
           \A r \in tracked' : r \in tracked \/ (r \in Receipts /\ ReceiptOfRecord(r)),
           \A r \in ReceiptsIn(x) : r \in Receipts /\ ReceiptOfRecord(r),
           CallSound(x),
           x.at = "delete" => \A r \in x.on : r.id \in sqsGone'
    PROVE  SqsInv'
<1>1. sent' = sent /\ messages' = messages
  BY DEF sqs
<1>2. MessagesGo
  BY <1>1, SqsHides DEF SqsInv, SqsTyped
<1>3. SqsTyped' /\ SqsReceipts' /\ SqsCalls'
  BY <1>2, SqsCallMoves
<1>4. \A r \in x.on : r \in Receipts /\ ReceiptOfRecord(r)
  BY DEF ReceiptsIn
<1>5. SqsSpared'
  BY <1>1, <1>2, <1>4, SqsSparedMoves
<1> QED BY <1>3, <1>5 DEF SqsInv

(* enqueue.                                                                  *)
LEMMA SqsEnqueueInv ==
    ASSUME ~Fifo, SqsInv, NEW delay \in Delays, SqsEnqueue(delay)
    PROVE  SqsInv'
<1>1. /\ stored \in Nat /\ stored < MaxStored /\ stored + 1 \in Ids /\ stored' = stored + 1
      /\ now + delay \in Nat
  BY QueueAssumption, SqsAssumption DEF SqsInv, SqsTyped, SqsEnqueue, Ids
<1>2. SendMessage(stored + 1, now + delay) /\ UNCHANGED <<tracked, poller, now, sqsGone>>
  BY DEF SqsEnqueue
<1>3. /\ MessagesGo /\ messages \subseteq messages'
      /\ \E n \in messages' : n.id = stored + 1 /\ n.mid > sent
  BY <1>1, <1>2, SqsSends
<1>4. SqsTyped'
  BY <1>1, <1>2, <1>3, SqsAssumption DEF SqsInv, SqsTyped, MessagesGo
<1>5. SqsReceipts'
  <2>1. \A r \in tracked' : ReceiptOfRecord(r)'
    BY <1>2, <1>3, ReceiptStays DEF SqsInv, SqsTyped, SqsReceipts
  <2>2. ASSUME NEW q \in Pollers, NEW r \in ReceiptsIn(poller[q])'
        PROVE  ReceiptOfRecord(r)'
    <3>1. r \in ReceiptsIn(poller[q])
      BY <1>2, <2>2
    <3> QED BY <1>3, <3>1, CallReceipts, ReceiptStays
  <2> QED BY <1>3, <2>1, <2>2 DEF SqsReceipts, MessagesGo
<1>6. SqsCalls'
  BY <1>2 DEF SqsInv, SqsCalls, CallSound
<1>7. SqsSpared'
  <2> SUFFICES ASSUME NEW i \in (1..stored') \ sqsGone'
               PROVE  \E n \in messages' : n.id = i /\ Spared(n)'
    BY DEF SqsSpared
  <2>1. CASE i = stored + 1
    <3>1. PICK n \in messages' : n.id = i /\ n.mid > sent
      BY <1>3, <2>1
    <3>2. \A q \in Pollers : \A r \in poller[q].on : r.mid # n.mid
      <4> SUFFICES ASSUME NEW q \in Pollers, NEW r \in poller[q].on, r.mid = n.mid PROVE FALSE
        OBVIOUS
      <4>1. r \in Receipts /\ ReceiptOfRecord(r)
        BY CallReceipts DEF ReceiptsIn
      <4>2. r.mid <= sent /\ r.mid \in Nat /\ sent \in Nat
        BY <4>1, SqsAssumption DEF ReceiptOfRecord, Receipts, SqsInv, SqsTyped
      <4> QED BY <3>1, <4>2
    <3> QED BY <1>2, <3>1, <3>2 DEF Spared
  <2>2. CASE i # stored + 1
    <3>1. i \in (1..stored) \ sqsGone
      BY <1>1, <1>2, <2>2
    <3>2. PICK m \in messages : m.id = i /\ Spared(m)
      BY <3>1 DEF SqsInv, SqsSpared
    <3> QED BY <1>2, <1>3, <3>2 DEF Spared
  <2> QED BY <2>1, <2>2
<1> QED BY <1>4, <1>5, <1>6, <1>7 DEF SqsInv

(* A message as a receipt describes it.                                      *)
LEMMA ReceiptIsSound ==
    ASSUME SqsInv, NEW m \in messages, NEW u \in Nat
    PROVE  Receipt(m, u) \in Receipts /\ ReceiptOfRecord(Receipt(m, u))
<1>1. m \in Messages /\ m.mid <= sent /\ \A n \in messages : n.mid = m.mid => n.id = m.id
  BY DEF SqsInv, SqsTyped, SqsReceipts
<1>2. Receipt(m, u) \in Receipts /\ Receipt(m, u).mid = m.mid /\ Receipt(m, u).id = m.id
  BY <1>1 DEF Receipt, Receipts, Messages
<1> QED BY <1>1, <1>2 DEF ReceiptOfRecord

(* ReceiveMessage by dequeue.                                                *)
LEMMA SqsReceiveInv ==
    ASSUME SqsInv, NEW p \in Pollers, SqsReceive(p)
    PROVE  SqsInv'
<1> DEFINE u == now + SqsTimeout
<1>1. u \in Nat /\ now \in Nat
  BY SqsTimesNat DEF SqsInv, SqsTyped
<1>2. PICK b \in Batches(MaxReceive) :
        /\ b # <<>>
        /\ messages' = Hide(b, u)
        /\ PollerGoes(p, [NotPolling EXCEPT
              !.at = "examine", !.t = now, !.todo = [i \in DOMAIN b |-> Receipt(b[i], u)]])
  BY DEF SqsReceive
<1>3. UNCHANGED <<sent, accepted, tracked, now, stored, sqsGone>>
  BY DEF SqsReceive
<1>4. PICK k \in 0..MaxReceive : b \in [1..k -> Visible]
  BY <1>2 DEF Batches
<1>5. k \in Nat /\ DOMAIN b = 1..k /\ \A i \in 1..k : b[i] \in messages
  BY <1>4, SqsAssumption DEF Visible
<1> DEFINE todo == [i \in DOMAIN b |-> Receipt(b[i], u)]
           x == [NotPolling EXCEPT !.at = "examine", !.t = now, !.todo = todo]
<1>6. \A i \in DOMAIN b : Receipt(b[i], u) \in Receipts /\ ReceiptOfRecord(Receipt(b[i], u))
  BY <1>1, <1>5, ReceiptIsSound
<1>7. k # 0
  <2> SUFFICES ASSUME k = 0 PROVE FALSE
    OBVIOUS
  <2>1. b \in Seq(Visible) /\ Len(b) = 0
    BY <1>4, <1>5
  <2> QED BY <1>2, <2>1, EmptySeq
<1>8. todo \in [1..k -> Receipts]
  BY <1>5, <1>6
<1>9. todo \in Seq(Receipts) /\ Len(todo) = k
  BY <1>5, <1>8, IsASeq, LenProperties
<1>10. todo # <<>>
  BY <1>7, <1>9, EmptySeq
<1>11. \A i \in DOMAIN todo : todo[i] \in Receipts /\ ReceiptOfRecord(todo[i])
  BY <1>6
<1>12. messages' \subseteq Messages /\ \A n \in messages' : \E m \in messages : m.mid = n.mid /\ m.id = n.id
  <2>1. messages \subseteq Messages
    BY DEF SqsInv, SqsTyped
  <2> SUFFICES ASSUME NEW n \in messages'
               PROVE  n \in Messages /\ \E m \in messages : m.mid = n.mid /\ m.id = n.id
    OBVIOUS
  <2>2. CASE n \in messages
    BY <2>1, <2>2
  <2>3. CASE \E i \in DOMAIN b : n = [b[i] EXCEPT !.visibleAt = u]
    <3>1. PICK m \in messages : n = [m EXCEPT !.visibleAt = u]
      BY <1>5, <2>3
    <3> QED BY <1>1, <2>1, <3>1 DEF Messages
  <2> QED BY <1>2, <2>2, <2>3 DEF Hide
<1>13. \A m \in messages : \E n \in messages' : n.mid = m.mid /\ n.id = m.id
  <2> SUFFICES ASSUME NEW m \in messages PROVE \E n \in messages' : n.mid = m.mid /\ n.id = m.id
    OBVIOUS
  <2>1. CASE m \notin {b[i] : i \in DOMAIN b}
    BY <1>2, <2>1 DEF Hide
  <2>2. CASE m \in {b[i] : i \in DOMAIN b}
    <3>1. [m EXCEPT !.visibleAt = u] \in messages'
      BY <1>2, <2>2 DEF Hide
    <3>2. m \in Messages
      BY DEF SqsInv, SqsTyped
    <3> QED BY <3>1, <3>2 DEF Messages
  <2> QED BY <2>1, <2>2
<1>14. PollerGoes(p, x)
  BY <1>2
<1> HIDE DEF u, todo
<1>15. x \in Polls
  <2>1. NotPolling \in Polls
    BY DEF NotPolling, Polls, Calls
  <2> QED BY <1>1, <1>9, <2>1 DEF Polls, Calls
<1>22. x.at = "examine" /\ x.t = now /\ x.todo = todo /\ x.on = {}
  BY DEF NotPolling
<1> HIDE DEF x
<1>16. CallSound(x)
  BY <1>1, <1>10, <1>22 DEF CallSound
<1>17. ReceiptsIn(x) = {todo[i] : i \in DOMAIN todo}
  BY <1>22 DEF ReceiptsIn
<1>19. MessagesGo
  BY <1>3, <1>12, SqsHides
<1>20. SqsTyped' /\ SqsReceipts' /\ SqsCalls'
  BY <1>3, <1>11, <1>14, <1>15, <1>16, <1>17, <1>19, SqsCallMoves
<1>21. SqsSpared'
  BY <1>3, <1>13, <1>14, <1>15, <1>22, <1>19, SqsSparedMoves
<1> QED BY <1>20, <1>21 DEF SqsInv

(* dequeue looks at the next message of its batch.                           *)
LEMMA ExamineInv ==
    ASSUME SqsInv, NEW p \in Pollers, Examine(p)
    PROVE  SqsInv'
<1> DEFINE y == poller[p]
           r == Head(y.todo)
           x == [y EXCEPT !.on = {r},
                          !.at = IF DueAt(p, r) THEN "hold" ELSE "resend",
                          !.t = IF DueAt(p, r) THEN 0 ELSE @,
                          !.todo = IF DueAt(p, r) THEN <<>> ELSE Tail(@)]
<1>1. /\ y \in Polls /\ CallSound(y)
      /\ \A q \in ReceiptsIn(y) : q \in Receipts /\ ReceiptOfRecord(q)
  BY CallReceipts
<1>2. /\ y.at = "examine" /\ PollerGoes(p, x) /\ UNCHANGED <<sqs, now, stored, sqsGone>>
      /\ tracked' = {q \in tracked : q.id # r.id} \cup {r}
  BY DEF Examine
<1>3. y.todo \in Seq(Receipts) /\ y.todo # <<>> /\ y.t \in Nat /\ y.t <= now /\ now \in Nat
  BY <1>1, <1>2 DEF Polls, CallSound, SqsInv, SqsTyped
<1>4. r \in ReceiptsIn(y)
  BY <1>3, HeadTailProperties, EmptySeq, LenProperties DEF ReceiptsIn
<1>5. r \in Receipts /\ ReceiptOfRecord(r) /\ r.due \in Nat
  BY <1>1, <1>4 DEF Receipts
<1>6. Tail(y.todo) \in Seq(Receipts) /\ \A n \in DOMAIN Tail(y.todo) : Tail(y.todo)[n] \in ReceiptsIn(y)
  <2>1. /\ Tail(y.todo) \in Seq(Receipts) /\ Len(Tail(y.todo)) = Len(y.todo) - 1
        /\ \A n \in 1..Len(Tail(y.todo)) : Tail(y.todo)[n] = y.todo[n + 1]
    BY <1>3, HeadTailProperties
  <2>2. Len(y.todo) \in Nat /\ DOMAIN y.todo = 1..Len(y.todo) /\ DOMAIN Tail(y.todo) = 1..Len(Tail(y.todo))
    BY <1>3, <2>1, LenProperties
  <2> QED BY <2>1, <2>2 DEF ReceiptsIn
<1> HIDE DEF r, y
<1>7. /\ x.at = IF DueAt(p, r) THEN "hold" ELSE "resend"
      /\ x.on = {r}
      /\ x.t = IF DueAt(p, r) THEN 0 ELSE y.t
      /\ x.todo = IF DueAt(p, r) THEN <<>> ELSE Tail(y.todo)
  BY <1>1 DEF Polls
<1>11. x \in Polls
  <2>1. CASE DueAt(p, r)
    <3>1. x = [y EXCEPT !.on = {r}, !.at = "hold", !.t = 0, !.todo = <<>>]
      BY <2>1
    <3>2. <<>> \in Seq(Receipts)
      OBVIOUS
    <3> QED BY <1>1, <1>5, <3>1, <3>2 DEF Polls, Calls
  <2>2. CASE ~DueAt(p, r)
    <3>1. x = [y EXCEPT !.on = {r}, !.at = "resend", !.t = @, !.todo = Tail(@)]
      BY <2>2
    <3> QED BY <1>1, <1>5, <1>6, <3>1 DEF Polls, Calls
  <2> QED BY <2>1, <2>2
<1>8. ReceiptsIn(x) \subseteq ReceiptsIn(y)
  BY <1>4, <1>6, <1>7 DEF ReceiptsIn
<1>9. DueAt(p, r) <=> r.due <= y.t
  BY DEF DueAt, y
<1> HIDE DEF x
<1>10. CallSound(x)
  BY <1>3, <1>5, <1>7, <1>9 DEF CallSound
<1> QED BY <1>1, <1>2, <1>5, <1>7, <1>8, <1>10, <1>11, SqsCallOnly

(* The messages are left alone and the call ends.                            *)
LEMMA SqsEnds ==
    ASSUME SqsInv, NEW p \in Pollers, PollerGoes(p, NotPolling), UNCHANGED <<sqs, now, stored>>,
           tracked' \subseteq tracked, sqsGone \subseteq sqsGone'
    PROVE  SqsInv'
<1>1. NotPolling \in Polls /\ ReceiptsIn(NotPolling) = {} /\ NotPolling.at = "idle"
  BY DEF NotPolling, Polls, Calls, ReceiptsIn
<1>2. CallSound(NotPolling)
  BY DEF NotPolling, CallSound, SqsInv, SqsTyped
<1> QED BY <1>1, <1>2, SqsCallOnly

(* nack by dequeue or by the consumer: the record is sent again, and the     *)
(* message that was received is about to be deleted.                         *)
LEMMA SendsAgain ==
    ASSUME ~Fifo, SqsInv, NEW p \in Pollers, NEW r \in Receipts, ReceiptOfRecord(r),
           NEW t \in Nat, SendMessage(r.id, t),
           NEW x \in Polls, PollerGoes(p, x), x.at = "delete", x.on = {r},
           x.t = poller[p].t, x.todo = poller[p].todo,
           UNCHANGED <<tracked, now, stored, sqsGone>>
    PROVE  SqsInv'
<1> DEFINE y == poller[p]
<1>1. /\ y \in Polls /\ CallSound(y)
      /\ \A q \in ReceiptsIn(y) : q \in Receipts /\ ReceiptOfRecord(q)
  BY CallReceipts
<1>2. x.t = y.t /\ x.todo = y.todo
  OBVIOUS
<1> HIDE DEF y
<1>4. \A q \in ReceiptsIn(x) : q \in Receipts /\ ReceiptOfRecord(q)
  BY <1>1, <1>2 DEF ReceiptsIn
<1>5. CallSound(x)
  BY <1>1, <1>2 DEF CallSound
<1>6. r.id \in Ids
  BY DEF Receipts
<1>7. /\ MessagesGo /\ messages \subseteq messages'
      /\ \E n \in messages' : n.id = r.id /\ n.mid > sent
  BY <1>6, SqsSends
<1>8. SqsTyped' /\ SqsReceipts' /\ SqsCalls'
  BY <1>4, <1>5, <1>7, SqsCallMoves
<1>9. SqsSpared'
  BY <1>7, SqsSparedMoves
<1> QED BY <1>8, <1>9 DEF SqsInv

(* nack by dequeue.                                                          *)
LEMMA ResendInv ==
    ASSUME ~Fifo, SqsInv, NEW p \in Pollers, Resend(p)
    PROVE  SqsInv'
<1>1. PICK r \in poller[p].on : SendMessage(r.id, now + (r.due - poller[p].t))
  BY DEF Resend
<1>2. /\ poller[p].at = "resend" /\ UNCHANGED <<tracked, now, stored, sqsGone>>
      /\ PollerGoes(p, [poller[p] EXCEPT !.at = "delete"])
  BY DEF Resend
<1>3. poller[p] \in Polls /\ CallSound(poller[p]) /\ r \in Receipts /\ ReceiptOfRecord(r)
  BY CallReceipts DEF ReceiptsIn
<1>4. poller[p].on = {r} /\ poller[p].t <= r.due
  BY <1>2, <1>3 DEF CallSound
<1>5. now + (r.due - poller[p].t) \in Nat
  BY <1>3, <1>4 DEF Polls, Receipts, SqsInv, SqsTyped
<1> DEFINE x == [poller[p] EXCEPT !.at = "delete"]
<1>6. /\ x \in Polls /\ x.at = "delete" /\ x.on = {r}
      /\ x.t = poller[p].t /\ x.todo = poller[p].todo
  BY <1>3, <1>4 DEF Polls, Calls
<1>7. PollerGoes(p, x)
  BY <1>2
<1> HIDE DEF x
<1> QED BY <1>1, <1>2, <1>3, <1>5, <1>6, <1>7, SendsAgain

(* The receipt that ack and nack find is a receipt of the record.            *)
LEMMA FoundIsSound ==
    ASSUME SqsInv, NEW p \in Pollers, NEW r \in Found(p)
    PROVE  /\ r \in Receipts /\ ReceiptOfRecord(r) /\ r.id \in IdsOf(poller[p].on)
<1> QED BY DEF Found, SqsInv, SqsTyped, SqsReceipts, IdsOf

(* The call goes on to delete the message of a receipt it found.             *)
LEMMA GoesOnToDelete ==
    ASSUME SqsInv, NEW p \in Pollers, NEW r \in Receipts, ReceiptOfRecord(r), NEW x,
           x = [poller[p] EXCEPT !.at = "delete", !.on = {r}]
    PROVE  /\ x \in Polls /\ x.at = "delete" /\ x.on = {r} /\ x.t = poller[p].t
           /\ x.todo = poller[p].todo /\ CallSound(x)
           /\ \A q \in ReceiptsIn(x) : q \in Receipts /\ ReceiptOfRecord(q)
<1>1. /\ poller[p] \in Polls /\ CallSound(poller[p])
      /\ \A q \in ReceiptsIn(poller[p]) : q \in Receipts /\ ReceiptOfRecord(q)
  BY CallReceipts
<1>2. /\ x \in Polls /\ x.at = "delete" /\ x.on = {r} /\ x.t = poller[p].t
      /\ x.todo = poller[p].todo
  BY <1>1 DEF Polls, Calls
<1>3. CallSound(x)
  BY <1>1, <1>2 DEF CallSound
<1>4. \A q \in ReceiptsIn(x) : q \in Receipts /\ ReceiptOfRecord(q)
  BY <1>1, <1>2 DEF ReceiptsIn
<1> QED BY <1>2, <1>3, <1>4

(* nack by the consumer.                                                     *)
LEMMA SqsNackInv ==
    ASSUME ~Fifo, SqsInv, NEW p \in Pollers, NEW delay \in Delays, SqsNack(p, delay)
    PROVE  SqsInv'
<1>1. CASE Forgotten(p)
  BY <1>1, SqsEnds DEF Forgotten, SqsNack
<1>2. CASE ~Forgotten(p)
  <2>1. PICK r \in Found(p) :
          /\ SendMessage(r.id, now + delay)
          /\ PollerGoes(p, [poller[p] EXCEPT !.at = "delete", !.on = {r}])
          /\ UNCHANGED tracked
    BY <1>2 DEF SqsNack
  <2>2. UNCHANGED <<now, stored, sqsGone>>
    BY DEF SqsNack
  <2>3. now + delay \in Nat
    BY QueueAssumption DEF SqsInv, SqsTyped
  <2>4. r \in Receipts /\ ReceiptOfRecord(r)
    BY FoundIsSound
  <2> DEFINE x == [poller[p] EXCEPT !.at = "delete", !.on = {r}]
  <2>5. /\ x \in Polls /\ x.at = "delete" /\ x.on = {r}
        /\ x.t = poller[p].t /\ x.todo = poller[p].todo
    <3>1. poller[p] \in Polls
      BY CallReceipts
    <3> QED BY <2>4, <3>1 DEF Polls, Calls
  <2>6. PollerGoes(p, x)
    BY <2>1
  <2> HIDE DEF x
  <2> QED BY <2>1, <2>2, <2>3, <2>4, <2>5, <2>6, SendsAgain
<1> QED BY <1>1, <1>2

(* ack.                                                                      *)
LEMMA SqsAckInv ==
    ASSUME SqsInv, NEW p \in Pollers, SqsAck(p)
    PROVE  SqsInv'
<1>1. UNCHANGED <<now, stored>> /\ sqsGone' = sqsGone \cup IdsOf(poller[p].on)
  BY DEF SqsAck
<1>2. CASE Forgotten(p)
  BY <1>1, <1>2, SqsEnds DEF Forgotten
<1>3. CASE ~Forgotten(p)
  <2>1. PICK r \in Found(p) :
          /\ PollerGoes(p, [poller[p] EXCEPT !.at = "delete", !.on = {r}])
          /\ UNCHANGED <<sqs, tracked>>
    BY <1>3 DEF SqsAck
  <2>2. r \in Receipts /\ ReceiptOfRecord(r) /\ r.id \in sqsGone'
    BY <1>1, FoundIsSound
  <2> DEFINE x == [poller[p] EXCEPT !.at = "delete", !.on = {r}]
  <2>3. /\ x \in Polls /\ x.on = {r} /\ CallSound(x)
        /\ \A q \in ReceiptsIn(x) : q \in Receipts /\ ReceiptOfRecord(q)
    BY <2>2, GoesOnToDelete
  <2>4. PollerGoes(p, x)
    BY <2>1
  <2> HIDE DEF x
  <2> QED BY <1>1, <2>1, <2>2, <2>3, <2>4, SqsCallOnly
<1> QED BY <1>2, <1>3

(* The delete that ends ack and nack.                                        *)
LEMMA SettleDeleteInv ==
    ASSUME SqsInv, NEW p \in Pollers, SettleDelete(p)
    PROVE  SqsInv'
<1>1. PICK r \in poller[p].on : DeleteMessage(r)
  BY DEF SettleDelete
<1>2. /\ poller[p].at = "delete" /\ UNCHANGED <<sent, accepted, tracked, now, stored, sqsGone>>
      /\ PollerGoes(p, [poller[p] EXCEPT !.at = "forget"])
  BY DEF SettleDelete
<1>3. /\ poller[p] \in Polls /\ CallSound(poller[p])
      /\ \A q \in ReceiptsIn(poller[p]) : q \in Receipts /\ ReceiptOfRecord(q)
  BY CallReceipts
<1> DEFINE x == [poller[p] EXCEPT !.at = "forget"]
<1>4. /\ x \in Polls /\ x.at = "forget" /\ x.on = poller[p].on
      /\ x.t = poller[p].t /\ x.todo = poller[p].todo
  BY <1>3 DEF Polls, Calls
<1>5. PollerGoes(p, x)
  BY <1>2
<1> HIDE DEF x
<1>6. CallSound(x)
  BY <1>3, <1>4 DEF CallSound
<1>7. ReceiptsIn(x) = ReceiptsIn(poller[p])
  BY <1>4 DEF ReceiptsIn
<1>8. MessagesGo /\ \A m \in messages : m.mid # r.mid => m \in messages'
  BY <1>1, <1>2, SqsDeletes
<1>9. SqsTyped' /\ SqsReceipts' /\ SqsCalls'
  BY <1>2, <1>3, <1>4, <1>5, <1>6, <1>7, <1>8, SqsCallMoves
<1>10. \A m \in messages : Spared(m) => m \in messages'
  BY <1>1, <1>2, <1>8 DEF Spared
<1>11. \A q \in x.on : q \in Receipts /\ ReceiptOfRecord(q)
  BY <1>3, <1>4 DEF ReceiptsIn
<1>12. SqsSpared'
  BY <1>2, <1>4, <1>5, <1>8, <1>10, <1>11, SqsSparedMoves
<1> QED BY <1>9, <1>12 DEF SqsInv

(* What follows it.                                                          *)
LEMMA SettleForgetInv ==
    ASSUME SqsInv, NEW p \in Pollers, SettleForget(p)
    PROVE  SqsInv'
<1>1. /\ UNCHANGED <<sqs, now, stored, sqsGone>> /\ tracked' \subseteq tracked
      /\ PollerGoes(p, IF poller[p].todo = <<>> THEN NotPolling
                       ELSE [poller[p] EXCEPT !.at = "examine", !.on = {}])
  BY DEF SettleForget
<1>2. CASE poller[p].todo = <<>>
  BY <1>1, <1>2, SqsEnds
<1>3. CASE poller[p].todo # <<>>
  <2>1. /\ poller[p] \in Polls /\ CallSound(poller[p])
        /\ \A q \in ReceiptsIn(poller[p]) : q \in Receipts /\ ReceiptOfRecord(q)
    BY CallReceipts
  <2> DEFINE x == [poller[p] EXCEPT !.at = "examine", !.on = {}]
  <2>2. /\ x \in Polls /\ x.at = "examine" /\ x.on = {}
        /\ x.t = poller[p].t /\ x.todo = poller[p].todo
    BY <2>1 DEF Polls, Calls
  <2>3. PollerGoes(p, x)
    BY <1>1, <1>3
  <2> HIDE DEF x
  <2>4. CallSound(x)
    BY <1>3, <2>1, <2>2 DEF CallSound
  <2>5. \A q \in ReceiptsIn(x) : q \in Receipts /\ ReceiptOfRecord(q)
    BY <2>1, <2>2 DEF ReceiptsIn
  <2> QED BY <1>1, <2>2, <2>3, <2>4, <2>5, SqsCallOnly
<1> QED BY <1>2, <1>3

(* The load shedder receives a message.                                      *)
LEMMA EvictReceiveInv ==
    ASSUME SqsInv, NEW p \in Pollers, EvictReceive(p)
    PROVE  SqsInv'
<1>1. PICK m \in Visible :
        /\ messages' = (messages \ {m}) \cup {[m EXCEPT !.visibleAt = now]}
        /\ PollerGoes(p, [NotPolling EXCEPT !.at = "evict", !.on = {Receipt(m, now)}])
  BY DEF EvictReceive
<1>2. UNCHANGED <<sent, accepted, tracked, now, stored, sqsGone>>
  BY DEF EvictReceive
<1>3. m \in messages /\ m \in Messages /\ now \in Nat /\ messages \subseteq Messages
  BY DEF Visible, SqsInv, SqsTyped
<1> DEFINE r == Receipt(m, now)
           n == [m EXCEPT !.visibleAt = now]
           x == [NotPolling EXCEPT !.at = "evict", !.on = {r}]
<1>4. r \in Receipts /\ ReceiptOfRecord(r)
  BY <1>3, ReceiptIsSound
<1>5. n \in Messages /\ n.mid = m.mid /\ n.id = m.id
  BY <1>3 DEF Messages
<1>6. messages' = (messages \ {m}) \cup {n} /\ PollerGoes(p, x)
  BY <1>1
<1> HIDE DEF r, n
<1>7. x \in Polls
  <2>1. NotPolling \in Polls
    BY DEF NotPolling, Polls, Calls
  <2> QED BY <1>4, <2>1 DEF Polls, Calls
<1>8. x.at = "evict" /\ x.on = {r} /\ x.t = 0 /\ x.todo = <<>>
  BY DEF NotPolling
<1> HIDE DEF x
<1>9. CallSound(x)
  BY <1>3, <1>8 DEF CallSound
<1>10. \A q \in ReceiptsIn(x) : q \in Receipts /\ ReceiptOfRecord(q)
  BY <1>4, <1>8 DEF ReceiptsIn
<1>11. MessagesGo
  BY <1>2, <1>3, <1>5, <1>6, SqsHides
<1>12. SqsTyped' /\ SqsReceipts' /\ SqsCalls'
  BY <1>2, <1>6, <1>7, <1>9, <1>10, <1>11, SqsCallMoves
<1>13. SqsSpared'
  BY <1>2, <1>4, <1>5, <1>6, <1>7, <1>8, <1>11, SqsSparedMoves
<1> QED BY <1>12, <1>13 DEF SqsInv

(* The load shedder deletes it.                                              *)
LEMMA EvictDeleteInv ==
    ASSUME SqsInv, NEW p \in Pollers, EvictDelete(p)
    PROVE  SqsInv'
<1>1. PICK r \in poller[p].on : DeleteMessage(r) /\ sqsGone' = sqsGone \cup {r.id}
  BY DEF EvictDelete
<1>2. PollerGoes(p, NotPolling) /\ UNCHANGED <<sent, accepted, tracked, now, stored>>
  BY DEF EvictDelete
<1>3. r \in Receipts /\ ReceiptOfRecord(r)
  BY CallReceipts DEF ReceiptsIn
<1>4. /\ NotPolling \in Polls /\ ReceiptsIn(NotPolling) = {} /\ NotPolling.at = "idle"
      /\ NotPolling.on = {}
  BY DEF NotPolling, Polls, Calls, ReceiptsIn
<1>5. CallSound(NotPolling)
  BY DEF NotPolling, CallSound, SqsInv, SqsTyped
<1>6. MessagesGo /\ \A m \in messages : m.mid # r.mid => m \in messages'
  BY <1>1, <1>2, SqsDeletes
<1>7. SqsTyped' /\ SqsReceipts' /\ SqsCalls'
  BY <1>2, <1>4, <1>5, <1>6, SqsCallMoves
<1>8. \A m \in messages : m.id \notin sqsGone' => m \in messages'
  BY <1>1, <1>3, <1>6 DEF ReceiptOfRecord
<1>9. SqsSpared'
  BY <1>1, <1>2, <1>4, <1>6, <1>8, SqsSparedMoves
<1> QED BY <1>7, <1>9 DEF SqsInv

(* The process dies.                                                         *)
LEMMA SqsCrashInv ==
    ASSUME SqsInv, SqsCrash
    PROVE  SqsInv'
<1>1. /\ poller' = [p \in Pollers |-> NotPolling] /\ tracked' = {}
      /\ UNCHANGED <<messages, sent, now, stored, sqsGone>>
  BY DEF SqsCrash, sqs
<1>2. /\ NotPolling \in Polls /\ ReceiptsIn(NotPolling) = {} /\ NotPolling.at = "idle"
  BY DEF NotPolling, Polls, Calls, ReceiptsIn
<1>3. CallSound(NotPolling)
  BY DEF NotPolling, CallSound, SqsInv, SqsTyped
<1>4. \A p \in Pollers : poller'[p] = NotPolling
  BY <1>1
<1>5. SqsTyped'
  BY <1>1, <1>2 DEF SqsInv, SqsTyped
<1>6. SqsReceipts'
  <2>1. \A p \in Pollers : ReceiptsIn(poller[p])' = {}
    BY <1>2, <1>4 DEF ReceiptsIn
  <2> QED BY <1>1, <2>1 DEF SqsInv, SqsReceipts
<1>7. SqsCalls'
  BY <1>1, <1>3, <1>4 DEF SqsCalls, CallSound
<1>8. SqsSpared'
  <2>1. \A m : Spared(m)'
    BY <1>2, <1>4 DEF Spared
  <2> QED BY <1>1, <2>1 DEF SqsInv, SqsSpared
<1> QED BY <1>5, <1>6, <1>7, <1>8 DEF SqsInv

(* A step that moves no more than the clock.                                 *)
LEMMA SqsTickInv ==
    ASSUME SqsInv, UNCHANGED <<sqs, tracked, poller, stored, sqsGone>>, now' \in Nat, now <= now'
    PROVE  SqsInv'
<1>1. UNCHANGED <<messages, sent, tracked, poller, stored, sqsGone>>
  BY DEF sqs
<1>2. SqsTyped' /\ SqsReceipts' /\ SqsSpared'
  BY <1>1 DEF SqsInv, SqsTyped, SqsReceipts, ReceiptOfRecord, ReceiptsIn, SqsSpared, Spared
<1>3. SqsCalls'
  <2> SUFFICES ASSUME NEW p \in Pollers PROVE CallSound(poller[p])'
    BY DEF SqsCalls
  <2>1. /\ poller[p] \in Polls /\ CallSound(poller[p]) /\ now \in Nat
        /\ \A r \in poller[p].on : r \in Receipts
    BY DEF SqsInv, SqsTyped, SqsCalls, Polls
  <2>2. poller[p].t \in Nat /\ \A r \in poller[p].on : r.due \in Nat
    BY <2>1 DEF Polls, Receipts
  <2> QED BY <1>1, <2>1, <2>2 DEF CallSound
<1> QED BY <1>2, <1>3 DEF SqsInv

(* Every step keeps the invariant.                                           *)
LEMMA SqsStepInv ==
    ASSUME ~Fifo, SqsInv, [SqsNext]_sqsVars
    PROVE  SqsInv'
<1>1. CASE \E delay \in Delays : SqsEnqueue(delay)
  BY <1>1, SqsEnqueueInv
<1>2. CASE \E delay \in Delays : \E p \in Pollers : SqsNack(p, delay)
  BY <1>2, SqsNackInv
<1>3. CASE \E p \in Pollers : SqsReceive(p)
  BY <1>3, SqsReceiveInv
<1>4. CASE \E p \in Pollers : Examine(p)
  BY <1>4, ExamineInv
<1>5. CASE \E p \in Pollers : Resend(p)
  BY <1>5, ResendInv
<1>6. CASE \E p \in Pollers : SqsAck(p)
  BY <1>6, SqsAckInv
<1>7. CASE \E p \in Pollers : SettleDelete(p)
  BY <1>7, SettleDeleteInv
<1>8. CASE \E p \in Pollers : SettleForget(p)
  BY <1>8, SettleForgetInv
<1>9. CASE \E p \in Pollers : EvictReceive(p)
  BY <1>9, EvictReceiveInv
<1>10. CASE \E p \in Pollers : EvictDelete(p)
  BY <1>10, EvictDeleteInv
<1>11. CASE SqsCrash
  BY <1>11, SqsCrashInv
<1>12. CASE SqsTick
  <2>1. now' \in Nat /\ now <= now'
    BY <1>12 DEF SqsTick, ClockTicks, SqsInv, SqsTyped
  <2> QED BY <1>12, <2>1, SqsTickInv DEF SqsTick
<1>13. CASE UNCHANGED sqsVars
  <2>1. now' \in Nat /\ now <= now' /\ UNCHANGED <<sqs, tracked, poller, stored, sqsGone>>
    BY <1>13 DEF sqsVars, SqsInv, SqsTyped
  <2> QED BY <2>1, SqsTickInv
<1> QED
  BY <1>1, <1>2, <1>3, <1>4, <1>5, <1>6, <1>7, <1>8, <1>9, <1>10, <1>11, <1>12, <1>13 DEF SqsNext

(* The empty queue has it.                                                   *)
LEMMA SqsInitInv ==
    ASSUME SqsInit
    PROVE  SqsInv
<1>1. /\ messages = {} /\ sent = 0 /\ tracked = {} /\ now = 0 /\ stored = 0
      /\ poller = [p \in Pollers |-> NotPolling]
  BY DEF SqsInit
<1>2. NotPolling \in Polls /\ ReceiptsIn(NotPolling) = {}
  BY DEF NotPolling, Polls, Calls, ReceiptsIn
<1>3. CallSound(NotPolling)
  BY <1>1 DEF NotPolling, CallSound
<1>4. SqsTyped
  BY <1>1, <1>2, SqsAssumption DEF SqsTyped
<1>5. SqsReceipts /\ SqsCalls /\ SqsSpared
  BY <1>1, <1>2, <1>3 DEF SqsReceipts, SqsCalls, SqsSpared
<1> QED BY <1>4, <1>5 DEF SqsInv

(* On a standard queue, for any number of consumers, receive counts, delays  *)
(* and timeouts: a record that reached SQS stays in some message until it is *)
(* acked or shed, whichever crash falls between nack's send and its delete   *)
(* and whichever stale receipt a delete names; and no consumer is handed a   *)
(* record before its nextRetryAt, though SQS caps the delay of a message.    *)
THEOREM SqsStandardKeeps ==
    ASSUME ~Fifo
    PROVE  SqsSpec => []SqsKeeps
<1>1. SqsInit => SqsInv
  BY SqsInitInv
<1>2. SqsInv /\ [SqsNext]_sqsVars => SqsInv'
  BY SqsStepInv
<1>3. SqsInv => SqsKeeps
  BY DEF SqsInv, SqsSpared, SqsCalls, CallSound, SqsKeeps, SqsNothingLost, SqsNotBeforeDue
<1> QED BY <1>1, <1>2, <1>3, PTL DEF SqsSpec
=============================================================================
