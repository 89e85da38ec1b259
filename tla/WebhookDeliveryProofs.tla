----------------------- MODULE WebhookDeliveryProofs -----------------------
(***************************************************************************)
(* The safety properties of WebhookDelivery, for every number of events,    *)
(* URLs, attempts and replays and every pair of caps.                       *)
(***************************************************************************)
EXTENDS WebhookDelivery, FiniteSetTheorems, SequenceTheorems, TLAPS

(* Math.max(1, ...) in the constructor: both caps are positive.              *)
LEMMA CapPositive == RetryCap \in Nat /\ RetryCap >= 1 /\ DeliveryCap \in Nat /\ DeliveryCap >= 1
BY ConfigAssumption DEF RetryCap, DeliveryCap, AtLeastOne

(* What removing the i-th element of a sequence returns.                     *)
LEMMA RemoveAtType ==
    ASSUME NEW S, NEW s \in Seq(S), NEW i \in DOMAIN s
    PROVE  /\ RemoveAt(s, i) \in Seq(S)
           /\ Len(RemoveAt(s, i)) = Len(s) - 1
           /\ \A j \in 1..(Len(s) - 1) : RemoveAt(s, i)[j] = IF j < i THEN s[j] ELSE s[j + 1]
<1> DEFINE A == SubSeq(s, 1, i - 1)
           B == SubSeq(s, i + 1, Len(s))
<1>0. i \in 1..Len(s) /\ Len(s) \in Nat
  OBVIOUS
<1>1. A \in Seq(S) /\ Len(A) = i - 1 /\ \A j \in 1..(i - 1) : A[j] = s[j]
  BY <1>0
<1>2. B \in Seq(S) /\ Len(B) = Len(s) - i /\ \A j \in 1..(Len(s) - i) : B[j] = s[i + j]
  BY <1>0
<1> HIDE DEF A, B
<1>3. /\ A \o B \in Seq(S) /\ Len(A \o B) = Len(A) + Len(B)
      /\ \A j \in 1..(Len(A) + Len(B)) :
            (A \o B)[j] = IF j <= Len(A) THEN A[j] ELSE B[j - Len(A)]
  BY <1>1, <1>2, ConcatProperties
<1>a. /\ Len(A \o B) = Len(s) - 1
      /\ \A j \in 1..(Len(s) - 1) :
            (A \o B)[j] = IF j <= i - 1 THEN A[j] ELSE B[j - (i - 1)]
  <2>1. Len(A) + Len(B) = Len(s) - 1
    BY <1>0, <1>1, <1>2
  <2> QED BY <1>1, <1>3, <2>1
<1>4. ASSUME NEW j \in 1..(Len(s) - 1)
      PROVE  (A \o B)[j] = IF j < i THEN s[j] ELSE s[j + 1]
  <2>1. CASE j < i
    <3>1. j <= i - 1 /\ j \in 1..(i - 1)
      BY <1>0, <2>1
    <3> QED BY <1>1, <1>a, <2>1, <3>1
  <2>2. CASE ~(j < i)
    <3>1. ~(j <= i - 1) /\ j - (i - 1) \in 1..(Len(s) - i) /\ i + (j - (i - 1)) = j + 1
      BY <1>0, <2>2
    <3>2. (A \o B)[j] = B[j - (i - 1)]
      BY <1>a, <3>1
    <3> QED BY <1>2, <2>2, <3>1, <3>2
  <2> QED BY <2>1, <2>2
<1>5. RemoveAt(s, i) = A \o B
  BY DEF RemoveAt, A, B
<1> QED BY <1>3, <1>a, <1>4, <1>5

(* A call of deliverToUrl makes a well-typed flight.                         *)
LEMMA NewFlightType ==
    ASSUME NEW c \in Chains, NEW n \in Nat, NEW s \in BOOLEAN, NEW en \in Chains
    PROVE  /\ NewFlight(c, n, s, en) \in Flights
           /\ NewFlight(c, n, s, en).chain = c
           /\ NewFlight(c, n, s, en).slot = s
           /\ NewFlight(c, n, s, en).attempt = n
           /\ NewFlight(c, n, s, en).stage \in {"terminal", "validating"}
BY DEF NewFlight, Flights, Stages

-----------------------------------------------------------------------------
(* The slot accounting, over a finite set of flights.                        *)
Slots == IsFiniteSet(flights) /\ SlotsAccounted

(* While a flight holds a slot, activeDeliveries is positive.                *)
LEMMA SlotHeld ==
    ASSUME Slots, NEW f \in flights, f.slot
    PROVE  active \in Nat /\ active >= 1
<1> DEFINE S == {g \in flights : g.slot}
<1>1. IsFiniteSet(S) /\ f \in S
  BY FS_Subset DEF Slots
<1>2. Cardinality(S) \in Nat /\ Cardinality(S) # 0
  BY <1>1, FS_CardinalityType, FS_EmptySet
<1> QED BY <1>2 DEF Slots, SlotsAccounted

ReleasedEmpty(f) ==
    /\ ~f.slot \/ overflowQueue = <<>>
    /\ flights' = flights \ {f}
    /\ overflowQueue' = overflowQueue
    /\ active' = IF f.slot THEN active - 1 ELSE active

ReleasedDrain(f) ==
    /\ f.slot
    /\ overflowQueue # <<>>
    /\ active = DeliveryCap
    /\ active' = active
    /\ overflowQueue' = Tail(overflowQueue)
    /\ flights' = (flights \ {f}) \cup {NewFlight(Head(overflowQueue), 1, TRUE, Head(overflowQueue))}

(* Freeing a slot starts at most one waiting delivery: the queue is empty,   *)
(* or exactly one slot was free.                                             *)
LEMMA ReleaseSlotEffect ==
    ASSUME TypeOK, Slots, NEW f \in flights, ReleaseSlot(f)
    PROVE  ReleasedEmpty(f) \/ ReleasedDrain(f)
<1>0. f.slot \in BOOLEAN
  BY DEF TypeOK, Flights
<1>1. CASE ~f.slot
  BY <1>1 DEF ReleaseSlot, ReleasedEmpty
<1>2. CASE f.slot
  <2>1. active \in Nat /\ active >= 1 /\ active <= DeliveryCap
    BY <1>2, SlotHeld DEF Slots, SlotsAccounted
  <2> DEFINE n == Least(Len(overflowQueue), DeliveryCap - (active - 1))
  <2>2. /\ active' = active - 1 + n
        /\ overflowQueue' = SubSeq(overflowQueue, n + 1, Len(overflowQueue))
        /\ flights' = (flights \ {f}) \cup
              {NewFlight(overflowQueue[i], 1, TRUE, overflowQueue[i]) : i \in 1..n}
    BY <1>2 DEF ReleaseSlot
  <2>a. n = Least(Len(overflowQueue), DeliveryCap - (active - 1))
    OBVIOUS
  <2> HIDE DEF n
  <2>3. CASE overflowQueue = <<>>
    <3>1. n = 0
      BY <2>a, <2>1, <2>3, CapPositive DEF Least
    <3>2. SubSeq(overflowQueue, 1, Len(overflowQueue)) = <<>>
      BY <2>3
    <3>3. 1..n = {}
      BY <3>1
    <3>4. flights' = flights \ {f}
      BY <2>2, <3>3
    <3> QED BY <1>2, <2>1, <2>2, <2>3, <3>1, <3>2, <3>4 DEF ReleasedEmpty
  <2>4. CASE overflowQueue # <<>>
    <3>0. overflowQueue \in Seq(Chains) /\ Len(overflowQueue) >= 1
      BY <2>4 DEF TypeOK
    <3>1. active = DeliveryCap /\ n = 1
      BY <2>a, <2>1, <2>4, <3>0, CapPositive DEF Slots, SlotsAccounted, Least
    <3>2. SubSeq(overflowQueue, 2, Len(overflowQueue)) = Tail(overflowQueue)
      BY <3>0
    <3>3. overflowQueue[1] = Head(overflowQueue)
      BY <3>0
    <3>4. flights' = (flights \ {f}) \cup {NewFlight(Head(overflowQueue), 1, TRUE, Head(overflowQueue))}
      <4>1. 1..n = {1}
        BY <3>1
      <4> QED BY <2>2, <3>3, <4>1
    <3> QED BY <1>2, <2>1, <2>2, <2>4, <3>1, <3>2, <3>4 DEF ReleasedDrain
  <2> QED BY <2>3, <2>4
<1> QED BY <1>0, <1>1, <1>2

(* Adding to the dead-letter store keeps it well typed, eviction included.   *)
LEMMA DlqAddType ==
    ASSUME NEW x \in Entries, NEW d \in Seq(Entries)
    PROVE  DlqAdd(d, x) \in Seq(Entries)
BY ConfigAssumption DEF DlqAdd

(* Stamping a replayed entry keeps the store well typed.                     *)
LEMMA MarkReplayedType ==
    ASSUME NEW d \in Seq(Entries), NEW f
    PROVE  MarkReplayed(d, f) \in Seq(Entries)
<1>1. \A x \in Entries : [x EXCEPT !.replayed = TRUE] \in Entries
  BY DEF Entries
<1>2. \A i \in DOMAIN d : d[i] \in Entries
  OBVIOUS
<1> QED BY <1>1, <1>2 DEF MarkReplayed

(* Freeing a slot keeps the types.                                           *)
LEMMA ReleaseSlotType ==
    ASSUME TypeOK, Slots, NEW f \in flights, ReleaseSlot(f)
    PROVE  active' \in Nat /\ overflowQueue' \in Seq(Chains) /\ flights' \subseteq Flights
<1>0. f.slot \in BOOLEAN /\ active \in Nat /\ flights \subseteq Flights /\ overflowQueue \in Seq(Chains)
  BY DEF TypeOK, Flights
<1>1. CASE ReleasedEmpty(f)
  BY <1>0, <1>1, SlotHeld DEF ReleasedEmpty
<1>2. CASE ReleasedDrain(f)
  <2>1. Head(overflowQueue) \in Chains /\ Tail(overflowQueue) \in Seq(Chains)
    BY <1>0, <1>2 DEF ReleasedDrain
  <2>2. NewFlight(Head(overflowQueue), 1, TRUE, Head(overflowQueue)) \in Flights
    BY <2>1, NewFlightType
  <2> QED BY <1>0, <1>2, <2>1, <2>2 DEF ReleasedDrain
<1> QED BY <1>1, <1>2, ReleaseSlotEffect

(* emitFailure and emitDropped make well-typed entries.                      *)
LEMMA EntryType ==
    ASSUME NEW c \in Chains, NEW why \in Causes, NEW n \in Nat
    PROVE  Entry(c, why, n) \in Entries
BY DEF Entry, Entries

(* Of the URLs of an event, at most all get a slot.                          *)
LEMMA DispatchWidth ==
    ASSUME TypeOK
    PROVE  Least(Room, NumUrls) \in Nat /\ Least(Room, NumUrls) <= NumUrls
BY ConfigAssumption, CapPositive DEF Least, Room, TypeOK

(* Every step keeps the types.                                               *)
LEMMA TypeStep ==
    ASSUME TypeOK, Slots, [Next]_vars
    PROVE  TypeOK'
<1>0. /\ emitted \subseteq Events
      /\ runs \in [Events \X Urls -> 0..MaxReplays]
      /\ stopped \in BOOLEAN
      /\ watcherStopped \in BOOLEAN
      /\ active \in Nat
      /\ overflowQueue \in Seq(Chains)
      /\ flights \subseteq Flights
      /\ retryTimers \in Seq(Timers)
      /\ dlq \in Seq(Entries)
      /\ delivered \subseteq Chains
      /\ deadLettered \subseteq Chains
  BY DEF TypeOK
<1>1. ASSUME NEW e \in Events, HandleWatcherEvent(e)
      PROVE  TypeOK'
  <2> DEFINE k == Least(Room, NumUrls)
             new == {NewFlight(Chain(e, u, 0), 1, TRUE, Chain(e, u, 0)) : u \in 1..k}
  <2>1. k \in Nat /\ k <= NumUrls
    BY DispatchWidth
  <2>2. /\ emitted' = emitted \cup {e}
        /\ flights' = flights \cup new
        /\ overflowQueue' = overflowQueue \o Overflowed(e, k)
        /\ active' = active + k
        /\ UNCHANGED <<runs, stopped, watcherStopped, retryTimers, dlq, delivered, deadLettered>>
    BY <1>1 DEF HandleWatcherEvent
  <2> HIDE DEF k
  <2>3. ASSUME NEW u \in 1..k PROVE NewFlight(Chain(e, u, 0), 1, TRUE, Chain(e, u, 0)) \in Flights
    <3>1. Chain(e, u, 0) \in Chains
      BY <2>1, ConfigAssumption DEF Chain, Chains, Urls
    <3> QED BY <3>1, NewFlightType
  <2>4. new \subseteq Flights
    BY <2>3
  <2>5. \A i \in 1..(NumUrls - k) : Chain(e, k + i, 0) \in Chains
    BY <2>1, ConfigAssumption DEF Chain, Chains, Urls
  <2>6. Overflowed(e, k) \in Seq(Chains)
    BY <2>1, <2>5, ConfigAssumption DEF Overflowed
  <2>7. overflowQueue' \in Seq(Chains) /\ active' \in Nat /\ emitted' \subseteq Events
    BY <1>0, <2>1, <2>2, <2>6
  <2> HIDE DEF new
  <2> QED BY <1>0, <2>2, <2>4, <2>7 DEF TypeOK
<1>2. ASSUME NEW f \in flights, FlightStep(f)
      PROVE  TypeOK'
  <2>0. f \in Flights /\ f.chain \in Chains /\ f.attempt \in Nat
    BY <1>0 DEF Flights
  <2>1. CASE Validate(f)
    <3>1. \A s \in ValidateOutcomes : [f EXCEPT !.stage = s] \in Flights
      BY <2>0 DEF ValidateOutcomes, Flights, Stages
    <3>2. flights' \subseteq Flights
      BY <1>0, <2>1, <3>1 DEF Validate
    <3> QED BY <1>0, <2>1, <3>2 DEF Validate, TypeOK
  <2>2. CASE FetchSettles(f)
    <3>1. [f EXCEPT !.stage = "ok"] \in Flights /\ [f EXCEPT !.stage = "failed"] \in Flights
      BY <2>0 DEF Flights, Stages
    <3>2. flights' \subseteq Flights /\ delivered' \subseteq Chains
      BY <1>0, <2>0, <2>2, <3>1 DEF FetchSettles
    <3> QED BY <1>0, <2>2, <3>2 DEF FetchSettles, TypeOK
  <2>3. CASE AttemptReturns(f)
    <3>1. active' \in Nat /\ overflowQueue' \in Seq(Chains) /\ flights' \subseteq Flights
      BY <2>3, ReleaseSlotType DEF AttemptReturns
    <3>2. dlq' \in Seq(Entries)
      BY <1>0, <2>3, MarkReplayedType DEF AttemptReturns
    <3> QED BY <1>0, <2>3, <3>1, <3>2 DEF AttemptReturns, TypeOK
  <2>4. CASE ScheduleRetry(f)
    <3> DEFINE t    == [chain |-> f.chain, attempt |-> f.attempt + 1]
               shed == retryTimers[Len(retryTimers)]
               d    == IF RetryFull THEN DlqAdd(dlq, Entry(shed.chain, "retry_cap_exceeded", 0)) ELSE dlq
               pre  == IF RetryFull THEN Front(retryTimers) ELSE retryTimers
    <3>1. active' \in Nat /\ overflowQueue' \in Seq(Chains) /\ flights' \subseteq Flights
      BY <2>4, ReleaseSlotType DEF ScheduleRetry
    <3>2. RetryFull => Len(retryTimers) >= 1 /\ shed \in Timers /\ Front(retryTimers) \in Seq(Timers)
      BY <1>0, CapPositive DEF RetryFull, Front
    <3>3. RetryFull => shed.chain \in Chains
      BY <3>2 DEF Timers
    <3>4. d \in Seq(Entries)
      BY <1>0, <3>3, DlqAddType, EntryType DEF Causes
    <3>5. MarkReplayed(d, f) \in Seq(Entries)
      BY <3>4, MarkReplayedType
    <3>6. pre \in Seq(Timers) /\ t \in Timers
      BY <1>0, <2>0, <3>2 DEF Timers
    <3>7. retryTimers' = Append(pre, t) /\ dlq' = MarkReplayed(d, f)
      BY <2>4 DEF ScheduleRetry
    <3>8. deadLettered' \subseteq Chains
      BY <1>0, <2>4, <3>3 DEF ScheduleRetry
    <3> HIDE DEF pre, t, d
    <3>9. retryTimers' \in Seq(Timers) /\ dlq' \in Seq(Entries)
      BY <3>5, <3>6, <3>7
    <3> QED BY <1>0, <2>4, <3>1, <3>8, <3>9 DEF ScheduleRetry, TypeOK
  <2>5. CASE EmitFailure(f)
    <3> DEFINE why == IF f.stage = "failed" THEN "exhausted" ELSE "terminal"
    <3>1. active' \in Nat /\ overflowQueue' \in Seq(Chains) /\ flights' \subseteq Flights
      BY <2>5, ReleaseSlotType DEF EmitFailure
    <3>2. Entry(f.chain, why, f.attempt) \in Entries
      BY <2>0, EntryType DEF Causes
    <3>3. MarkReplayed(DlqAdd(dlq, Entry(f.chain, why, f.attempt)), f) \in Seq(Entries)
      BY <1>0, <3>2, DlqAddType, MarkReplayedType
    <3>4. dlq' \in Seq(Entries) /\ deadLettered' \subseteq Chains
      BY <1>0, <2>0, <2>5, <3>3 DEF EmitFailure
    <3> QED BY <1>0, <2>5, <3>1, <3>4 DEF EmitFailure, TypeOK
  <2> QED BY <1>2, <2>1, <2>2, <2>3, <2>4, <2>5 DEF FlightStep
<1>3. ASSUME NEW i \in DOMAIN retryTimers, RetryTimerFires(i)
      PROVE  TypeOK'
  <2>0. retryTimers[i] \in Timers
    BY <1>0
  <2>1. retryTimers[i].chain \in Chains /\ retryTimers[i].attempt \in Nat
    BY <2>0 DEF Timers
  <2>2. NewFlight(retryTimers[i].chain, retryTimers[i].attempt, FALSE, retryTimers[i].chain) \in Flights
    BY <2>1, NewFlightType
  <2>3. RemoveTimer(i) \in Seq(Timers)
    BY <1>0, RemoveAtType DEF RemoveTimer
  <2> QED BY <1>0, <1>3, <2>2, <2>3 DEF RetryTimerFires, TypeOK
<1>4. ASSUME NEW i \in DOMAIN dlq, ReplayFailure(i)
      PROVE  TypeOK'
  <2> DEFINE c == dlq[i].chain
             r == runs[<<c.event, c.url>>] + 1
             n == Chain(c.event, c.url, r)
  <2>0. dlq[i] \in Entries
    BY <1>0
  <2>1. c \in Chains /\ c.event \in Events /\ c.url \in Urls
    BY <2>0 DEF Entries, Chains
  <2>2. <<c.event, c.url>> \in Events \X Urls /\ runs[<<c.event, c.url>>] \in 0..MaxReplays
    BY <1>0, <2>1
  <2>3. r <= MaxReplays /\ runs' = [runs EXCEPT ![<<c.event, c.url>>] = r]
        /\ flights' = flights \cup {NewFlight(n, 1, FALSE, c)}
    BY <1>4 DEF ReplayFailure
  <2>4. r \in 0..MaxReplays
    BY <2>2, <2>3, ConfigAssumption
  <2>5. n \in Chains
    BY <2>1, <2>4 DEF Chain, Chains
  <2>6. NewFlight(n, 1, FALSE, c) \in Flights
    BY <2>1, <2>5, NewFlightType
  <2> HIDE DEF r, n, c
  <2>7. runs' \in [Events \X Urls -> 0..MaxReplays]
    BY <1>0, <2>3, <2>4
  <2> QED BY <1>0, <1>4, <2>3, <2>6, <2>7 DEF ReplayFailure, TypeOK
<1>5. CASE Stop
  BY <1>0, <1>5 DEF Stop, TypeOK
<1>6. CASE WatcherStop
  BY <1>0, <1>6 DEF WatcherStop, TypeOK
<1>7. CASE UNCHANGED vars
  BY <1>0, <1>7 DEF vars, TypeOK
<1> QED BY <1>1, <1>2, <1>3, <1>4, <1>5, <1>6, <1>7 DEF Next

-----------------------------------------------------------------------------
(* Where deliveries are, as sets of chains.                                  *)
Elems(s)    == {s[i] : i \in DOMAIN s}
Distinct(s) == \A i, j \in DOMAIN s : s[i] = s[j] => i = j

ChainsOf(t)       == {t[i].chain : i \in DOMAIN t}
DistinctChains(t) == \A i, j \in DOMAIN t : t[i].chain = t[j].chain => i = j

(* Shifting a queue without duplicates removes its head and nothing else.    *)
LEMMA TailElems ==
    ASSUME NEW S, NEW s \in Seq(S), s # <<>>, Distinct(s)
    PROVE  /\ Elems(Tail(s)) = Elems(s) \ {Head(s)}
           /\ Head(s) \in Elems(s)
           /\ Distinct(Tail(s))
<1>1. Len(s) \in Nat /\ Len(s) >= 1 /\ DOMAIN s = 1..Len(s) /\ Head(s) = s[1]
  OBVIOUS
<1>2. DOMAIN Tail(s) = 1..(Len(s) - 1) /\ \A i \in 1..(Len(s) - 1) : Tail(s)[i] = s[i + 1]
  BY <1>1
<1>3. Distinct(Tail(s))
  BY <1>1, <1>2 DEF Distinct
<1>4. ASSUME NEW x \in Elems(Tail(s)) PROVE x \in Elems(s) \ {Head(s)}
  <2>1. PICK i \in 1..(Len(s) - 1) : x = s[i + 1]
    BY <1>2 DEF Elems
  <2>2. i + 1 \in DOMAIN s /\ 1 \in DOMAIN s /\ i + 1 # 1
    BY <1>1
  <2> QED BY <1>1, <2>1, <2>2 DEF Elems, Distinct
<1>5. ASSUME NEW x \in Elems(s), x # Head(s) PROVE x \in Elems(Tail(s))
  <2>1. PICK i \in 1..Len(s) : x = s[i]
    BY <1>1 DEF Elems
  <2>2. i - 1 \in 1..(Len(s) - 1) /\ (i - 1) + 1 = i
    BY <1>1, <1>5, <2>1
  <2> QED BY <1>2, <2>1, <2>2 DEF Elems
<1>6. Head(s) \in Elems(s)
  BY <1>1 DEF Elems
<1> QED BY <1>3, <1>4, <1>5, <1>6

(* Concatenating two disjoint queues without duplicates makes no duplicate.  *)
LEMMA ConcatElems ==
    ASSUME NEW S, NEW s \in Seq(S), NEW r \in Seq(S), Distinct(s), Distinct(r),
           Elems(s) \cap Elems(r) = {}
    PROVE  /\ Elems(s \o r) = Elems(s) \cup Elems(r)
           /\ Distinct(s \o r)
<1>1. /\ Len(s) \in Nat /\ Len(r) \in Nat
      /\ DOMAIN s = 1..Len(s) /\ DOMAIN r = 1..Len(r)
      /\ s \o r \in Seq(S) /\ Len(s \o r) = Len(s) + Len(r)
      /\ DOMAIN (s \o r) = 1..(Len(s) + Len(r))
  OBVIOUS
<1>2. \A i \in 1..(Len(s) + Len(r)) :
         (s \o r)[i] = IF i <= Len(s) THEN s[i] ELSE r[i - Len(s)]
  OBVIOUS
<1>3. \A i \in 1..(Len(s) + Len(r)) : i <= Len(s) => i \in DOMAIN s /\ s[i] \in Elems(s)
  BY <1>1 DEF Elems
<1>4. \A i \in 1..(Len(s) + Len(r)) :
         ~(i <= Len(s)) => i - Len(s) \in DOMAIN r /\ r[i - Len(s)] \in Elems(r)
  BY <1>1 DEF Elems
<1>5. ASSUME NEW i \in DOMAIN (s \o r), NEW j \in DOMAIN (s \o r), (s \o r)[i] = (s \o r)[j]
      PROVE  i = j
  <2>1. CASE i <= Len(s) /\ j <= Len(s)
    BY <1>1, <1>2, <1>3, <1>5, <2>1 DEF Distinct
  <2>2. CASE ~(i <= Len(s)) /\ ~(j <= Len(s))
    <3>1. i - Len(s) = j - Len(s)
      BY <1>1, <1>2, <1>4, <1>5, <2>2 DEF Distinct
    <3> QED BY <1>1, <3>1
  <2>3. CASE (i <= Len(s)) # (j <= Len(s))
    BY <1>1, <1>2, <1>3, <1>4, <1>5, <2>3
  <2> QED BY <2>1, <2>2, <2>3
<1>6. \A x \in Elems(s \o r) : x \in Elems(s) \cup Elems(r)
  BY <1>1, <1>2, <1>3, <1>4 DEF Elems
<1>7. ASSUME NEW x \in Elems(s) PROVE x \in Elems(s \o r)
  <2>1. PICK i \in 1..Len(s) : x = s[i]
    BY <1>1 DEF Elems
  <2>2. i \in DOMAIN (s \o r) /\ (s \o r)[i] = x
    BY <1>1, <1>2, <2>1
  <2> QED BY <2>2 DEF Elems
<1>8. ASSUME NEW x \in Elems(r) PROVE x \in Elems(s \o r)
  <2>1. PICK i \in 1..Len(r) : x = r[i]
    BY <1>1 DEF Elems
  <2>2. i + Len(s) \in DOMAIN (s \o r) /\ (s \o r)[i + Len(s)] = r[(i + Len(s)) - Len(s)]
        /\ (i + Len(s)) - Len(s) = i
    BY <1>1, <1>2
  <2> QED BY <2>1, <2>2 DEF Elems
<1> QED BY <1>5, <1>6, <1>7, <1>8 DEF Distinct

(* Arming a timer adds its chain.                                            *)
LEMMA AppendChains ==
    ASSUME NEW t \in Seq(Timers), NEW x \in Timers, DistinctChains(t), x.chain \notin ChainsOf(t)
    PROVE  /\ ChainsOf(Append(t, x)) = ChainsOf(t) \cup {x.chain}
           /\ DistinctChains(Append(t, x))
<1>1. /\ Len(t) \in Nat /\ DOMAIN t = 1..Len(t) /\ DOMAIN Append(t, x) = 1..(Len(t) + 1)
      /\ \A i \in 1..(Len(t) + 1) : Append(t, x)[i] = IF i = Len(t) + 1 THEN x ELSE t[i]
  OBVIOUS
<1>2. \A i \in 1..(Len(t) + 1) : i # Len(t) + 1 => i \in DOMAIN t /\ t[i].chain \in ChainsOf(t)
  BY <1>1 DEF ChainsOf
<1>3. DistinctChains(Append(t, x))
  BY <1>1, <1>2 DEF DistinctChains
<1>4. \A c \in ChainsOf(Append(t, x)) : c \in ChainsOf(t) \cup {x.chain}
  BY <1>1, <1>2 DEF ChainsOf
<1>5. ASSUME NEW c \in ChainsOf(t) PROVE c \in ChainsOf(Append(t, x))
  <2>1. PICK i \in 1..Len(t) : c = t[i].chain
    BY <1>1 DEF ChainsOf
  <2>2. i \in DOMAIN Append(t, x) /\ Append(t, x)[i] = t[i]
    BY <1>1
  <2> QED BY <2>1, <2>2 DEF ChainsOf
<1>6. x.chain \in ChainsOf(Append(t, x))
  <2>1. Len(t) + 1 \in DOMAIN Append(t, x) /\ Append(t, x)[Len(t) + 1] = x
    BY <1>1
  <2> QED BY <2>1 DEF ChainsOf
<1> QED BY <1>3, <1>4, <1>5, <1>6

(* Removing a timer removes its chain only.                                  *)
LEMMA RemoveChains ==
    ASSUME NEW t \in Seq(Timers), NEW i \in DOMAIN t, DistinctChains(t)
    PROVE  /\ ChainsOf(RemoveAt(t, i)) = ChainsOf(t) \ {t[i].chain}
           /\ DistinctChains(RemoveAt(t, i))
<1> DEFINE r == RemoveAt(t, i)
<1>1. /\ r \in Seq(Timers)
      /\ Len(r) = Len(t) - 1
      /\ \A j \in 1..(Len(t) - 1) : r[j] = IF j < i THEN t[j] ELSE t[j + 1]
  BY RemoveAtType
<1>2. /\ Len(t) \in Nat /\ DOMAIN t = 1..Len(t) /\ i \in 1..Len(t) /\ DOMAIN r = 1..(Len(t) - 1)
  BY <1>1
<1> HIDE DEF r
<1>3. \A j \in 1..(Len(t) - 1) : \E m \in 1..Len(t) :
         m = (IF j < i THEN j ELSE j + 1) /\ m # i /\ r[j] = t[m]
  BY <1>1, <1>2
<1>4. DistinctChains(r)
  <2> SUFFICES ASSUME NEW j \in DOMAIN r, NEW k \in DOMAIN r, r[j].chain = r[k].chain
               PROVE  j = k
    BY DEF DistinctChains
  <2>1. PICK m \in 1..Len(t) : m = (IF j < i THEN j ELSE j + 1) /\ r[j] = t[m]
    BY <1>2, <1>3
  <2>2. PICK n \in 1..Len(t) : n = (IF k < i THEN k ELSE k + 1) /\ r[k] = t[n]
    BY <1>2, <1>3
  <2>3. m = n
    BY <1>2, <2>1, <2>2 DEF DistinctChains
  <2> QED BY <1>2, <2>1, <2>2, <2>3
<1>5. ASSUME NEW c \in ChainsOf(r) PROVE c \in ChainsOf(t) \ {t[i].chain}
  <2>1. PICK j \in 1..(Len(t) - 1) : c = r[j].chain
    BY <1>2 DEF ChainsOf
  <2>2. PICK m \in 1..Len(t) : m # i /\ r[j] = t[m]
    BY <1>3
  <2> QED BY <1>2, <2>1, <2>2 DEF ChainsOf, DistinctChains
<1>6. ASSUME NEW c \in ChainsOf(t), c # t[i].chain PROVE c \in ChainsOf(r)
  <2>1. PICK m \in 1..Len(t) : c = t[m].chain
    BY <1>2 DEF ChainsOf
  <2>2. m # i
    BY <1>6, <2>1
  <2>3. CASE m < i
    <3>1. m \in DOMAIN r /\ r[m] = t[m]
      BY <1>1, <1>2, <2>3
    <3> QED BY <2>1, <3>1 DEF ChainsOf
  <2>4. CASE m > i
    <3>1. m - 1 \in DOMAIN r /\ ~(m - 1 < i) /\ (m - 1) + 1 = m
      BY <1>1, <1>2, <2>4
    <3>2. r[m - 1] = t[m]
      BY <1>1, <1>2, <3>1
    <3> QED BY <2>1, <3>1, <3>2 DEF ChainsOf
  <2> QED BY <1>2, <2>2, <2>3, <2>4
<1> QED BY <1>4, <1>5, <1>6 DEF r

(* Shedding the newest timer is removing the last one.                       *)
LEMMA FrontIsRemove ==
    ASSUME NEW t \in Seq(Timers), t # <<>>
    PROVE  /\ Front(t) \in Seq(Timers)
           /\ Len(Front(t)) = Len(t) - 1
           /\ Front(t) = RemoveAt(t, Len(t))
<1>1. Len(t) \in Nat /\ Len(t) >= 1 /\ Len(t) \in DOMAIN t
  OBVIOUS
<1>a. ASSUME NEW i \in 1..Len(t)
      PROVE  /\ SubSeq(t, 1, i - 1) \in Seq(Timers)
             /\ Len(SubSeq(t, 1, i - 1)) = i - 1
             /\ \A j \in 1..(i - 1) : SubSeq(t, 1, i - 1)[j] = t[j]
  BY <1>1
<1>2. Front(t) \in Seq(Timers) /\ Len(Front(t)) = Len(t) - 1
      /\ \A j \in 1..(Len(t) - 1) : Front(t)[j] = t[j]
  <2>1. Front(t) = SubSeq(t, 1, Len(t) - 1) /\ Len(t) \in 1..Len(t)
    BY <1>1 DEF Front
  <2> QED BY <1>a, <2>1
<1>3. /\ RemoveAt(t, Len(t)) \in Seq(Timers)
      /\ Len(RemoveAt(t, Len(t))) = Len(t) - 1
      /\ \A j \in 1..(Len(t) - 1) : RemoveAt(t, Len(t))[j] = t[j]
  BY <1>1, RemoveAtType
<1> QED BY <1>1, <1>2, <1>3

(* The dead-letter store holds only what it held and what was added.         *)
LEMMA DlqElems ==
    ASSUME NEW d \in Seq(Entries), NEW x \in Entries
    PROVE  \A i \in DOMAIN DlqAdd(d, x) :
              DlqAdd(d, x)[i] = x \/ \E j \in DOMAIN d : DlqAdd(d, x)[i] = d[j]
<1>0. Len(d) \in Nat /\ DOMAIN d = 1..Len(d) /\ MaxEntries \in Nat
  BY ConfigAssumption
<1> DEFINE a == Append(d, x)
<1>1. /\ a \in Seq(Entries) /\ Len(a) = Len(d) + 1 /\ DOMAIN a = 1..(Len(d) + 1)
      /\ \A i \in DOMAIN a : a[i] = IF i = Len(d) + 1 THEN x ELSE d[i]
  BY <1>0
<1> HIDE DEF a
<1>2. \A i \in DOMAIN a : a[i] = x \/ \E j \in DOMAIN d : a[i] = d[j]
  BY <1>0, <1>1
<1>3. CASE Len(a) > MaxEntries
  <2> DEFINE b == SubSeq(a, Len(a) - MaxEntries + 1, Len(a))
  <2>1. b \in Seq(Entries) /\ Len(b) = MaxEntries
        /\ \A i \in 1..MaxEntries : b[i] = a[i + (Len(a) - MaxEntries)]
    BY <1>0, <1>1, <1>3
  <2>2. DlqAdd(d, x) = b
    BY <1>3 DEF DlqAdd, a
  <2> HIDE DEF b
  <2>3. ASSUME NEW i \in DOMAIN b PROVE b[i] = x \/ \E j \in DOMAIN d : b[i] = d[j]
    <3>1. i \in 1..MaxEntries /\ i + (Len(a) - MaxEntries) \in DOMAIN a
      BY <1>0, <1>1, <1>3, <2>1
    <3> QED BY <1>2, <2>1, <3>1
  <2> QED BY <2>2, <2>3
<1>4. CASE ~(Len(a) > MaxEntries)
  <2>1. DlqAdd(d, x) = a
    BY <1>4 DEF DlqAdd, a
  <2> QED BY <1>2, <2>1
<1> QED BY <1>3, <1>4

(* The same, for the chains of the entries.                                  *)
LEMMA DlqChains ==
    ASSUME NEW d \in Seq(Entries), NEW x \in Entries
    PROVE  ChainsOf(DlqAdd(d, x)) \subseteq ChainsOf(d) \cup {x.chain}
BY DlqElems DEF ChainsOf

(* Stamping an entry changes no chain.                                       *)
LEMMA MarkReplayedChains ==
    ASSUME NEW d \in Seq(Entries), NEW f
    PROVE  ChainsOf(MarkReplayed(d, f)) = ChainsOf(d)
<1>1. \A i \in DOMAIN d : d[i] \in Entries
  OBVIOUS
<1>2. \A e \in Entries : [e EXCEPT !.replayed = TRUE].chain = e.chain
  BY DEF Entries
<1>3. /\ DOMAIN MarkReplayed(d, f) = DOMAIN d
      /\ \A i \in DOMAIN d : MarkReplayed(d, f)[i].chain = d[i].chain
  BY <1>1, <1>2 DEF MarkReplayed
<1> QED BY <1>3 DEF ChainsOf

-----------------------------------------------------------------------------
(* Where a chain is: the overflow queue, a flight, a timer, delivered or     *)
(* dead-lettered, and only in one of them; a flight is answered 2xx exactly  *)
(* when its chain is delivered.                                              *)
Places ==
    /\ Distinct(overflowQueue)
    /\ DistinctChains(retryTimers)
    /\ \A f, g \in flights : f.chain = g.chain => f = g
    /\ \A f \in flights :
          /\ f.chain \notin Elems(overflowQueue)
          /\ f.chain \notin ChainsOf(retryTimers)
          /\ f.chain \notin deadLettered
          /\ f.chain \in delivered <=> f.stage = "ok"
          /\ f.chain \in Accepted
    /\ Elems(overflowQueue) \cap ChainsOf(retryTimers) = {}
    /\ (delivered \cup deadLettered) \cap (Elems(overflowQueue) \cup ChainsOf(retryTimers)) = {}
    /\ delivered \cap deadLettered = {}
    /\ Elems(overflowQueue) \subseteq Accepted
    /\ ChainsOf(retryTimers) \subseteq Accepted
    /\ delivered \subseteq Accepted
    /\ deadLettered \subseteq Accepted
    /\ ChainsOf(dlq) \subseteq deadLettered
    /\ \A e \in Events, u \in Urls : e \notin emitted => runs[<<e, u>>] = 0

(* Freeing a slot moves at most one chain from the overflow queue to the     *)
(* flights.                                                                  *)
LEMMA ReleasePlaces ==
    ASSUME TypeOK, Slots, Places, NEW f \in flights, ReleaseSlot(f)
    PROVE  /\ Distinct(overflowQueue')
           /\ Elems(overflowQueue') \subseteq Elems(overflowQueue)
           /\ \A g, h \in flights' : g.chain = h.chain => g = h
           /\ \A g \in flights' :
                 g \in flights \ {f} \/ (g.chain \in Elems(overflowQueue) /\ g.stage # "ok")
           /\ \A g \in flights' : g.chain \notin Elems(overflowQueue')
           /\ flights \ {f} \subseteq flights'
           /\ \A c \in Elems(overflowQueue) :
                 c \in Elems(overflowQueue') \/ \E g \in flights' : g.chain = c
<1>0. flights \subseteq Flights /\ overflowQueue \in Seq(Chains)
  BY DEF TypeOK
<1>a. /\ Distinct(overflowQueue)
      /\ \A g, h \in flights : g.chain = h.chain => g = h
      /\ \A g \in flights : g.chain \notin Elems(overflowQueue)
  BY DEF Places
<1>1. CASE ReleasedEmpty(f)
  <2>1. flights' = flights \ {f} /\ overflowQueue' = overflowQueue
    BY <1>1 DEF ReleasedEmpty
  <2> QED BY <1>a, <2>1
<1>2. CASE ReleasedDrain(f)
  <2> DEFINE c == Head(overflowQueue)
             n == NewFlight(c, 1, TRUE, c)
  <2>1. /\ Elems(Tail(overflowQueue)) = Elems(overflowQueue) \ {c}
        /\ c \in Elems(overflowQueue)
        /\ Distinct(Tail(overflowQueue))
    BY <1>0, <1>a, <1>2, TailElems DEF ReleasedDrain
  <2>2. c \in Chains
    BY <1>0, <1>2 DEF ReleasedDrain
  <2>3. n.chain = c /\ n.stage # "ok"
    BY DEF NewFlight
  <2>4. flights' = (flights \ {f}) \cup {n} /\ overflowQueue' = Tail(overflowQueue)
    BY <1>2 DEF ReleasedDrain
  <2> HIDE DEF n, c
  <2>6. \A g, h \in flights' : g.chain = h.chain => g = h
    BY <1>a, <2>1, <2>3, <2>4
  <2>7. \A g \in flights' : g.chain \notin Elems(overflowQueue')
    BY <1>a, <2>1, <2>3, <2>4
  <2>8. \A x \in Elems(overflowQueue) :
           x \in Elems(overflowQueue') \/ \E g \in flights' : g.chain = x
    BY <2>1, <2>3, <2>4
  <2>9. Distinct(overflowQueue') /\ Elems(overflowQueue') \subseteq Elems(overflowQueue)
    BY <2>1, <2>4
  <2> QED BY <2>1, <2>3, <2>4, <2>6, <2>7, <2>8, <2>9
<1> QED BY <1>1, <1>2, ReleaseSlotEffect

(* Conservation: before a stop every accepted chain is somewhere.            *)
Kept ==
    /\ watcherStopped => stopped
    /\ ~stopped => \A c \in Accepted :
          \/ c \in Elems(overflowQueue)
          \/ c \in ChainsOf(retryTimers)
          \/ \E f \in flights : f.chain = c
          \/ c \in delivered
          \/ c \in deadLettered

(* Only an event or a replay accepts a delivery.                             *)
LEMMA AcceptedSame ==
    ASSUME UNCHANGED <<emitted, runs>>
    PROVE  Accepted' = Accepted
BY DEF Accepted

(* A new event puts its chains in one place each.                            *)
LEMMA PlacesHandle ==
    ASSUME TypeOK, Slots, Places, Kept, NEW e \in Events, HandleWatcherEvent(e)
    PROVE  Places' /\ Kept'
<1> DEFINE k   == Least(Room, NumUrls)
           new == {NewFlight(Chain(e, u, 0), 1, TRUE, Chain(e, u, 0)) : u \in 1..k}
           o   == Overflowed(e, k)
<1>1. k \in Nat /\ k <= NumUrls /\ NumUrls \in Nat /\ Urls = 1..NumUrls /\ 0 \in 0..MaxReplays
  BY DispatchWidth, ConfigAssumption DEF Urls
<1>2. /\ e \notin emitted
      /\ emitted' = emitted \cup {e}
      /\ flights' = flights \cup new
      /\ overflowQueue' = overflowQueue \o o
      /\ UNCHANGED <<runs, stopped, watcherStopped, retryTimers, dlq, delivered, deadLettered>>
  BY DEF HandleWatcherEvent
<1> HIDE DEF k
<1>3. \A u \in Urls : Chain(e, u, 0) \in Chains /\ Chain(e, u, 0).event = e
      /\ Chain(e, u, 0).url = u /\ Chain(e, u, 0).run = 0
  BY <1>1 DEF Chain, Chains
<1>4. \A c \in Accepted : c.event # e
  BY <1>2 DEF Accepted
<1>5. runs \in [Events \X Urls -> 0..MaxReplays]
  BY DEF TypeOK
<1>6. \A u \in Urls : runs[<<e, u>>] \in 0..MaxReplays /\ runs[<<e, u>>] >= 0
  BY <1>5
<1>7. \A u \in Urls : Chain(e, u, 0) \in Accepted'
  BY <1>2, <1>3, <1>6 DEF Accepted
<1>8. Accepted \subseteq Accepted'
  BY <1>2 DEF Accepted
<1>9. ASSUME NEW c \in Accepted', c \notin Accepted
      PROVE  \E u \in Urls : c = Chain(e, u, 0)
  <2>1. c \in Chains /\ c.event = e /\ c.run <= runs[<<e, c.url>>]
    BY <1>2, <1>9 DEF Accepted
  <2>2. c.url \in Urls /\ c.run \in Nat /\ c = Chain(c.event, c.url, c.run)
    BY <2>1, ConfigAssumption DEF Chains, Chain
  <2>3. runs[<<e, c.url>>] = 0
    BY <1>2, <2>2 DEF Places
  <2>4. c.run = 0
    BY <2>1, <2>2, <2>3
  <2> QED BY <2>1, <2>2, <2>4
<1>10. \A f \in new : f.stage # "ok" /\ \E u \in 1..k : f.chain = Chain(e, u, 0)
  BY DEF NewFlight
<1> DEFINE N(u) == NewFlight(Chain(e, u, 0), 1, TRUE, Chain(e, u, 0))
<1>a. \A u \in 1..k : N(u) \in new /\ N(u).chain = Chain(e, u, 0)
  BY DEF NewFlight
<1>b. \A f \in new : \E u \in 1..k : f = N(u)
  OBVIOUS
<1> HIDE DEF N
<1>11. ASSUME NEW f \in new, NEW g \in new, f.chain = g.chain
       PROVE  f = g
  <2>1. PICK u \in 1..k : f = N(u)
    BY <1>b
  <2>2. PICK v \in 1..k : g = N(v)
    BY <1>b
  <2>3. u \in Urls /\ v \in Urls
    BY <1>1
  <2>c. N(u).chain = Chain(e, u, 0) /\ N(v).chain = Chain(e, v, 0)
    BY <1>a
  <2>d. Chain(e, u, 0) = Chain(e, v, 0)
    BY <1>11, <2>1, <2>2, <2>c
  <2>4. u = v
    BY <1>3, <2>3, <2>d
  <2> QED BY <2>1, <2>2, <2>4
<1>12. \A u \in 1..k : \E f \in new : f.chain = Chain(e, u, 0)
  BY <1>a
<1>13. /\ o \in Seq(Chains)
       /\ DOMAIN o = 1..(NumUrls - k)
       /\ \A i \in DOMAIN o : o[i] = Chain(e, k + i, 0) /\ k + i \in Urls /\ k + i \notin 1..k
  BY <1>1, <1>3 DEF Overflowed
<1> HIDE DEF new, o
<1>14. Distinct(o) /\ Elems(o) = {Chain(e, u, 0) : u \in (k + 1)..NumUrls}
  <2>1. Distinct(o)
    BY <1>1, <1>3, <1>13 DEF Distinct
  <2>2. \A x \in Elems(o) : x \in {Chain(e, u, 0) : u \in (k + 1)..NumUrls}
    BY <1>1, <1>13 DEF Elems
  <2>3. ASSUME NEW u \in (k + 1)..NumUrls PROVE Chain(e, u, 0) \in Elems(o)
    <3>1. u - k \in DOMAIN o /\ k + (u - k) = u
      BY <1>1, <1>13
    <3> QED BY <1>13, <3>1 DEF Elems
  <2> QED BY <2>1, <2>2, <2>3
<1>15. \A x \in Elems(o) : x.event = e /\ x \in Accepted'
  BY <1>1, <1>3, <1>7, <1>14
<1>16. \A f \in new : f.chain.event = e /\ f.chain \in Accepted' /\ f.chain \notin Elems(o)
  BY <1>1, <1>3, <1>7, <1>10, <1>14
<1>17. Elems(overflowQueue) \cap Elems(o) = {}
  BY <1>4, <1>15 DEF Places
<1>18. Distinct(overflowQueue \o o) /\ Elems(overflowQueue \o o) = Elems(overflowQueue) \cup Elems(o)
  BY <1>13, <1>14, <1>17, ConcatElems DEF Places, TypeOK
<1>19. \A f \in flights : f.chain \in Accepted
  BY DEF Places
<1>20. \A f, g \in flights' : f.chain = g.chain => f = g
  BY <1>2, <1>4, <1>11, <1>16, <1>19 DEF Places
<1>21. delivered \subseteq Accepted /\ deadLettered \subseteq Accepted
       /\ ChainsOf(retryTimers) \subseteq Accepted /\ Elems(overflowQueue) \subseteq Accepted
  BY DEF Places
<1>22. \A f \in flights' :
          /\ f.chain \notin Elems(overflowQueue')
          /\ f.chain \notin ChainsOf(retryTimers')
          /\ f.chain \notin deadLettered'
          /\ f.chain \in delivered' <=> f.stage = "ok"
          /\ f.chain \in Accepted'
  <2>1. ASSUME NEW f \in new
        PROVE  /\ f.chain \notin Elems(overflowQueue') /\ f.chain \notin ChainsOf(retryTimers')
               /\ f.chain \notin deadLettered' /\ f.chain \notin delivered' /\ f.chain \in Accepted'
    BY <1>2, <1>4, <1>16, <1>18, <1>21
  <2>2. ASSUME NEW f \in flights PROVE f.chain \notin Elems(overflowQueue')
    BY <1>2, <1>4, <1>15, <1>18, <1>19 DEF Places
  <2> QED BY <1>2, <1>8, <1>10, <2>1, <2>2 DEF Places
<1>23. /\ Elems(overflowQueue') \cap ChainsOf(retryTimers') = {}
       /\ (delivered' \cup deadLettered') \cap (Elems(overflowQueue') \cup ChainsOf(retryTimers')) = {}
       /\ Elems(overflowQueue') \subseteq Accepted'
  BY <1>2, <1>4, <1>8, <1>15, <1>18, <1>21 DEF Places
<1>24. \A x \in Events, u \in Urls : x \notin emitted' => runs'[<<x, u>>] = 0
  BY <1>2 DEF Places
<1>25. Places'
  BY <1>2, <1>8, <1>18, <1>20, <1>21, <1>22, <1>23, <1>24 DEF Places
<1>26. ASSUME NEW c \in Accepted', ~stopped
       PROVE  \/ c \in Elems(overflowQueue')
              \/ c \in ChainsOf(retryTimers')
              \/ \E f \in flights' : f.chain = c
              \/ c \in delivered'
              \/ c \in deadLettered'
  <2>1. CASE c \in Accepted
    BY <1>2, <1>18, <1>26, <2>1 DEF Kept
  <2>2. CASE c \notin Accepted
    <3>1. PICK u \in Urls : c = Chain(e, u, 0)
      BY <1>9, <2>2
    <3>2. CASE u \in 1..k
      BY <1>2, <1>12, <3>1, <3>2
    <3>3. CASE u \in (k + 1)..NumUrls
      BY <1>2, <1>14, <1>18, <3>1, <3>3
    <3> QED BY <1>1, <3>2, <3>3
  <2> QED BY <2>1, <2>2
<1>27. Kept'
  BY <1>2, <1>26 DEF Kept
<1> QED BY <1>25, <1>27

(* Progress of an attempt leaves its chain where it is.                      *)
LEMMA PlacesAttempt ==
    ASSUME TypeOK, Slots, Places, Kept, NEW f \in flights, Validate(f) \/ FetchSettles(f)
    PROVE  Places' /\ Kept'
<1>0. f \in Flights
  BY DEF TypeOK
<1>1. PICK s \in Stages :
         /\ flights' = (flights \ {f}) \cup {[f EXCEPT !.stage = s]}
         /\ delivered' = IF s = "ok" THEN delivered \cup {f.chain} ELSE delivered
         /\ UNCHANGED <<emitted, runs, stopped, watcherStopped, overflowQueue,
                        retryTimers, dlq, deadLettered>>
  <2>1. CASE Validate(f)
    BY <2>1 DEF Validate, ValidateOutcomes, Stages
  <2>2. CASE FetchSettles(f)
    BY <2>2 DEF FetchSettles, Stages
  <2> QED BY <2>1, <2>2
<1> DEFINE n == [f EXCEPT !.stage = s]
<1>2. n.chain = f.chain /\ n.stage = s
  BY <1>0 DEF Flights
<1>3. f.stage # "ok"
  BY DEF Validate, FetchSettles
<1> HIDE DEF n
<1>4. flights' = (flights \ {f}) \cup {n}
  BY <1>1 DEF n
<1>5. Accepted' = Accepted
  BY <1>1, AcceptedSame
<1>6. /\ f.chain \notin Elems(overflowQueue) /\ f.chain \notin ChainsOf(retryTimers)
      /\ f.chain \notin deadLettered /\ f.chain \notin delivered /\ f.chain \in Accepted
      /\ \A g \in flights \ {f} : g.chain # f.chain
  BY <1>3 DEF Places
<1>7. \A g, h \in flights' : g.chain = h.chain => g = h
  BY <1>2, <1>4, <1>6 DEF Places
<1>8. ASSUME NEW g \in flights'
      PROVE  /\ g.chain \notin Elems(overflowQueue')
             /\ g.chain \notin ChainsOf(retryTimers')
             /\ g.chain \notin deadLettered'
             /\ g.chain \in delivered' <=> g.stage = "ok"
             /\ g.chain \in Accepted'
  <2>1. CASE g = n
    BY <1>1, <1>2, <1>5, <1>6, <2>1
  <2>2. CASE g \in flights \ {f}
    BY <1>1, <1>5, <1>6, <2>2 DEF Places
  <2> QED BY <1>4, <2>1, <2>2
<1>9. /\ (delivered' \cup deadLettered') \cap (Elems(overflowQueue') \cup ChainsOf(retryTimers')) = {}
      /\ delivered' \cap deadLettered' = {}
      /\ delivered' \subseteq Accepted'
  BY <1>1, <1>5, <1>6 DEF Places
<1>10. Places'
  BY <1>1, <1>5, <1>7, <1>8, <1>9 DEF Places
<1>11. \A g \in flights : \E h \in flights' : h.chain = g.chain
  BY <1>2, <1>4
<1>12. Kept'
  BY <1>1, <1>5, <1>11 DEF Kept
<1> QED BY <1>10, <1>12

(* An attempt that returns for good leaves its chain delivered, or stopped.  *)
LEMMA PlacesReturn ==
    ASSUME TypeOK, Slots, Places, Kept, NEW f \in flights, AttemptReturns(f)
    PROVE  Places' /\ Kept'
<1>1. /\ Distinct(overflowQueue')
      /\ Elems(overflowQueue') \subseteq Elems(overflowQueue)
      /\ \A g, h \in flights' : g.chain = h.chain => g = h
      /\ \A g \in flights' :
            g \in flights \ {f} \/ (g.chain \in Elems(overflowQueue) /\ g.stage # "ok")
      /\ \A g \in flights' : g.chain \notin Elems(overflowQueue')
      /\ flights \ {f} \subseteq flights'
      /\ \A c \in Elems(overflowQueue) :
            c \in Elems(overflowQueue') \/ \E g \in flights' : g.chain = c
  BY ReleasePlaces DEF AttemptReturns
<1>2. /\ f.stage = "ok" \/ watcherStopped
      /\ dlq' = MarkReplayed(dlq, f)
      /\ UNCHANGED <<emitted, runs, stopped, watcherStopped, retryTimers, delivered, deadLettered>>
  BY DEF AttemptReturns
<1>3. Accepted' = Accepted
  BY <1>2, AcceptedSame
<1>4. ChainsOf(dlq') = ChainsOf(dlq)
  BY <1>2, MarkReplayedChains DEF TypeOK
<1>5. ASSUME NEW g \in flights'
      PROVE  /\ g.chain \notin ChainsOf(retryTimers')
             /\ g.chain \notin deadLettered'
             /\ g.chain \in delivered' <=> g.stage = "ok"
             /\ g.chain \in Accepted'
  BY <1>1, <1>2, <1>3 DEF Places
<1>6. Places'
  BY <1>1, <1>2, <1>3, <1>4, <1>5 DEF Places
<1>7. ~stopped => f.chain \in delivered
  BY <1>2 DEF Kept, Places
<1>8. Kept'
  BY <1>1, <1>2, <1>3, <1>7 DEF Kept
<1> QED BY <1>6, <1>8

(* A failed attempt moves its chain to the timers; a chain that is shed      *)
(* goes to the dead-letter store.                                            *)
LEMMA PlacesRetry ==
    ASSUME TypeOK, Slots, Places, Kept, NEW f \in flights, ScheduleRetry(f)
    PROVE  Places' /\ Kept'
<1>1. /\ Distinct(overflowQueue')
      /\ Elems(overflowQueue') \subseteq Elems(overflowQueue)
      /\ \A g, h \in flights' : g.chain = h.chain => g = h
      /\ \A g \in flights' :
            g \in flights \ {f} \/ (g.chain \in Elems(overflowQueue) /\ g.stage # "ok")
      /\ \A g \in flights' : g.chain \notin Elems(overflowQueue')
      /\ flights \ {f} \subseteq flights'
      /\ \A c \in Elems(overflowQueue) :
            c \in Elems(overflowQueue') \/ \E g \in flights' : g.chain = c
  BY ReleasePlaces DEF ScheduleRetry
<1> DEFINE t    == [chain |-> f.chain, attempt |-> f.attempt + 1]
           shed == retryTimers[Len(retryTimers)]
           pre  == IF RetryFull THEN Front(retryTimers) ELSE retryTimers
           d    == IF RetryFull THEN DlqAdd(dlq, Entry(shed.chain, "retry_cap_exceeded", 0)) ELSE dlq
           dead == IF RetryFull THEN {shed.chain} ELSE {}
<1>2. /\ retryTimers' = Append(pre, t)
      /\ dlq' = MarkReplayed(d, f)
      /\ deadLettered' = deadLettered \cup dead
      /\ UNCHANGED <<emitted, runs, stopped, watcherStopped, delivered>>
      /\ f.stage = "failed"
  BY DEF ScheduleRetry, MayRetry
<1>3. Accepted' = Accepted
  BY <1>2, AcceptedSame
<1>4. retryTimers \in Seq(Timers) /\ dlq \in Seq(Entries) /\ f \in Flights /\ DistinctChains(retryTimers)
  BY DEF TypeOK, Places
<1>5. t \in Timers /\ t.chain = f.chain
  BY <1>4 DEF Timers, Flights
<1>6. RetryFull => retryTimers # <<>> /\ Len(retryTimers) \in DOMAIN retryTimers /\ shed \in Timers
  BY <1>4, CapPositive DEF RetryFull
<1>7. /\ pre \in Seq(Timers) /\ DistinctChains(pre)
      /\ ChainsOf(pre) = ChainsOf(retryTimers) \ dead
      /\ dead \subseteq ChainsOf(retryTimers)
  <2>1. CASE RetryFull
    <3>1. pre \in Seq(Timers) /\ pre = RemoveAt(retryTimers, Len(retryTimers))
      BY <1>4, <1>6, <2>1, FrontIsRemove
    <3>2. DistinctChains(pre) /\ ChainsOf(pre) = ChainsOf(retryTimers) \ {shed.chain}
      BY <1>4, <1>6, <2>1, <3>1, RemoveChains
    <3>3. shed.chain \in ChainsOf(retryTimers)
      BY <1>6, <2>1 DEF ChainsOf
    <3> QED BY <2>1, <3>1, <3>2, <3>3
  <2>2. CASE ~RetryFull
    BY <1>4, <2>2
  <2> QED BY <2>1, <2>2
<1>8. ChainsOf(d) \subseteq ChainsOf(dlq) \cup dead /\ d \in Seq(Entries)
  <2>1. CASE RetryFull
    <3>1. shed.chain \in Chains
      BY <1>6, <2>1 DEF Timers
    <3>2. Entry(shed.chain, "retry_cap_exceeded", 0) \in Entries
          /\ Entry(shed.chain, "retry_cap_exceeded", 0).chain = shed.chain
      BY <3>1 DEF Entry, Entries, Causes
    <3> QED BY <1>4, <2>1, <3>2, DlqAddType, DlqChains
  <2>2. CASE ~RetryFull
    BY <1>4, <2>2
  <2> QED BY <2>1, <2>2
<1> HIDE DEF t, shed, pre, d, dead
<1>9. ChainsOf(dlq') \subseteq ChainsOf(dlq) \cup dead
  BY <1>2, <1>8, MarkReplayedChains
<1>10. f.chain \notin ChainsOf(retryTimers) /\ f.chain \notin delivered /\ f.chain \notin deadLettered
       /\ f.chain \notin Elems(overflowQueue) /\ f.chain \in Accepted
       /\ \A g \in flights \ {f} : g.chain # f.chain
  BY <1>2 DEF Places
<1>11. DistinctChains(retryTimers') /\ ChainsOf(retryTimers') = ChainsOf(pre) \cup {f.chain}
  BY <1>2, <1>5, <1>7, <1>10, AppendChains
<1>12. \A g \in flights' : g.chain # f.chain
  BY <1>1, <1>10
<1>13. ASSUME NEW g \in flights'
       PROVE  /\ g.chain \notin ChainsOf(retryTimers')
              /\ g.chain \notin deadLettered'
              /\ g.chain \in delivered' <=> g.stage = "ok"
              /\ g.chain \in Accepted'
  BY <1>1, <1>2, <1>3, <1>7, <1>11, <1>12 DEF Places
<1>14. /\ Elems(overflowQueue') \cap ChainsOf(retryTimers') = {}
       /\ (delivered' \cup deadLettered') \cap (Elems(overflowQueue') \cup ChainsOf(retryTimers')) = {}
       /\ delivered' \cap deadLettered' = {}
  BY <1>1, <1>2, <1>7, <1>10, <1>11 DEF Places
<1>15. /\ Elems(overflowQueue') \subseteq Accepted' /\ ChainsOf(retryTimers') \subseteq Accepted'
       /\ delivered' \subseteq Accepted' /\ deadLettered' \subseteq Accepted'
       /\ ChainsOf(dlq') \subseteq deadLettered'
  BY <1>1, <1>2, <1>3, <1>7, <1>9, <1>10, <1>11 DEF Places
<1>16. \A e \in Events, u \in Urls : e \notin emitted' => runs'[<<e, u>>] = 0
  BY <1>2 DEF Places
<1>17. Places'
  BY <1>1, <1>11, <1>13, <1>14, <1>15, <1>16 DEF Places
<1>18. Kept'
  <2>1. ASSUME NEW c \in Accepted', ~stopped
        PROVE  \/ c \in Elems(overflowQueue')
               \/ c \in ChainsOf(retryTimers')
               \/ \E g \in flights' : g.chain = c
               \/ c \in delivered'
               \/ c \in deadLettered'
    <3>1. \/ c \in Elems(overflowQueue) \/ c \in ChainsOf(retryTimers)
          \/ (\E g \in flights : g.chain = c) \/ c \in delivered \/ c \in deadLettered
      BY <1>3, <2>1 DEF Kept
    <3>2. CASE c \in ChainsOf(retryTimers)
      BY <1>2, <1>7, <1>11, <3>2
    <3>3. CASE \E g \in flights : g.chain = c
      BY <1>1, <1>11, <3>3
    <3> QED BY <1>1, <1>2, <3>1, <3>2, <3>3
  <2> QED BY <1>2, <2>1 DEF Kept
<1> QED BY <1>17, <1>18

(* emitFailure moves a chain from the flights to the dead-letter store.      *)
LEMMA PlacesFailure ==
    ASSUME TypeOK, Slots, Places, Kept, NEW f \in flights, EmitFailure(f)
    PROVE  Places' /\ Kept'
<1>1. /\ Distinct(overflowQueue')
      /\ Elems(overflowQueue') \subseteq Elems(overflowQueue)
      /\ \A g, h \in flights' : g.chain = h.chain => g = h
      /\ \A g \in flights' :
            g \in flights \ {f} \/ (g.chain \in Elems(overflowQueue) /\ g.stage # "ok")
      /\ \A g \in flights' : g.chain \notin Elems(overflowQueue')
      /\ flights \ {f} \subseteq flights'
      /\ \A c \in Elems(overflowQueue) :
            c \in Elems(overflowQueue') \/ \E g \in flights' : g.chain = c
  BY ReleasePlaces DEF EmitFailure
<1> DEFINE x == Entry(f.chain, IF f.stage = "failed" THEN "exhausted" ELSE "terminal", f.attempt)
<1>2. /\ dlq' = MarkReplayed(DlqAdd(dlq, x), f)
      /\ deadLettered' = deadLettered \cup {f.chain}
      /\ UNCHANGED <<emitted, runs, stopped, watcherStopped, retryTimers, delivered>>
      /\ f.stage # "ok"
  BY DEF EmitFailure
<1>3. Accepted' = Accepted
  BY <1>2, AcceptedSame
<1>4. dlq \in Seq(Entries) /\ x \in Entries /\ x.chain = f.chain
  BY DEF TypeOK, Flights, Entry, Entries, Causes
<1> HIDE DEF x
<1>5. ChainsOf(dlq') \subseteq ChainsOf(dlq) \cup {f.chain}
  BY <1>2, <1>4, DlqAddType, DlqChains, MarkReplayedChains
<1>6. f.chain \notin ChainsOf(retryTimers) /\ f.chain \notin delivered /\ f.chain \in Accepted
      /\ f.chain \notin Elems(overflowQueue) /\ \A g \in flights \ {f} : g.chain # f.chain
  BY <1>2 DEF Places
<1>7. \A g \in flights' : g.chain # f.chain
  BY <1>1, <1>6
<1>8. ASSUME NEW g \in flights'
      PROVE  /\ g.chain \notin ChainsOf(retryTimers')
             /\ g.chain \notin deadLettered'
             /\ g.chain \in delivered' <=> g.stage = "ok"
             /\ g.chain \in Accepted'
  BY <1>1, <1>2, <1>3, <1>7 DEF Places
<1>9. /\ Elems(overflowQueue') \cap ChainsOf(retryTimers') = {}
      /\ (delivered' \cup deadLettered') \cap (Elems(overflowQueue') \cup ChainsOf(retryTimers')) = {}
      /\ delivered' \cap deadLettered' = {}
  BY <1>1, <1>2, <1>6 DEF Places
<1>10. /\ Elems(overflowQueue') \subseteq Accepted' /\ ChainsOf(retryTimers') \subseteq Accepted'
       /\ delivered' \subseteq Accepted' /\ deadLettered' \subseteq Accepted'
       /\ ChainsOf(dlq') \subseteq deadLettered'
  BY <1>1, <1>2, <1>3, <1>5, <1>6 DEF Places
<1>11. /\ DistinctChains(retryTimers')
       /\ \A e \in Events, u \in Urls : e \notin emitted' => runs'[<<e, u>>] = 0
  BY <1>2 DEF Places
<1>12. Places'
  BY <1>1, <1>8, <1>9, <1>10, <1>11 DEF Places
<1>13. Kept'
  BY <1>1, <1>2, <1>3 DEF Kept
<1> QED BY <1>12, <1>13

(* A timer that fires moves its chain to the flights.                        *)
LEMMA PlacesTimer ==
    ASSUME TypeOK, Slots, Places, Kept, NEW i \in DOMAIN retryTimers, RetryTimerFires(i)
    PROVE  Places' /\ Kept'
<1> DEFINE t == retryTimers[i]
           n == NewFlight(t.chain, t.attempt, FALSE, t.chain)
<1>1. /\ retryTimers' = RemoveAt(retryTimers, i)
      /\ flights' = flights \cup {n}
      /\ UNCHANGED <<emitted, runs, stopped, watcherStopped, overflowQueue,
                     dlq, delivered, deadLettered>>
  BY DEF RetryTimerFires, RemoveTimer
<1>2. n.chain = t.chain /\ n.stage # "ok"
  BY DEF NewFlight
<1>3. Accepted' = Accepted
  BY <1>1, AcceptedSame
<1>4. DistinctChains(retryTimers') /\ ChainsOf(retryTimers') = ChainsOf(retryTimers) \ {t.chain}
  BY <1>1, RemoveChains DEF TypeOK, Places
<1>5. t.chain \in ChainsOf(retryTimers)
  BY DEF ChainsOf
<1> HIDE DEF t, n
<1>6. \A g, h \in flights' : g.chain = h.chain => g = h
  BY <1>1, <1>2, <1>5 DEF Places
<1>7. ASSUME NEW g \in flights'
      PROVE  /\ g.chain \notin Elems(overflowQueue')
             /\ g.chain \notin ChainsOf(retryTimers')
             /\ g.chain \notin deadLettered'
             /\ g.chain \in delivered' <=> g.stage = "ok"
             /\ g.chain \in Accepted'
  BY <1>1, <1>2, <1>3, <1>4, <1>5 DEF Places
<1>8. /\ Elems(overflowQueue') \cap ChainsOf(retryTimers') = {}
      /\ (delivered' \cup deadLettered') \cap (Elems(overflowQueue') \cup ChainsOf(retryTimers')) = {}
      /\ ChainsOf(retryTimers') \subseteq Accepted'
  BY <1>1, <1>3, <1>4 DEF Places
<1>9. Places'
  BY <1>1, <1>3, <1>4, <1>6, <1>7, <1>8 DEF Places
<1>10. Kept'
  BY <1>1, <1>2, <1>3, <1>4 DEF Kept
<1> QED BY <1>9, <1>10

(* A replay starts a chain that was nowhere before.                          *)
LEMMA PlacesReplay ==
    ASSUME TypeOK, Slots, Places, Kept, NEW i \in DOMAIN dlq, ReplayFailure(i)
    PROVE  Places' /\ Kept'
<1> DEFINE c == dlq[i].chain
           r == runs[<<c.event, c.url>>] + 1
           x == Chain(c.event, c.url, r)
           n == NewFlight(x, 1, FALSE, c)
<1>1. /\ r <= MaxReplays
      /\ runs' = [runs EXCEPT ![<<c.event, c.url>>] = r]
      /\ flights' = flights \cup {n}
      /\ UNCHANGED <<emitted, stopped, watcherStopped, overflowQueue,
                     retryTimers, dlq, delivered, deadLettered>>
  BY DEF ReplayFailure
<1>2. c \in Accepted /\ c \in Chains
  BY DEF ChainsOf, Places, Accepted
<1>3. c.event \in Events /\ c.url \in Urls /\ c.event \in emitted
  BY <1>2 DEF Accepted, Chains
<1>4. /\ runs \in [Events \X Urls -> 0..MaxReplays]
      /\ <<c.event, c.url>> \in Events \X Urls
  BY <1>3 DEF TypeOK
<1>5. runs[<<c.event, c.url>>] \in 0..MaxReplays /\ r \in 0..MaxReplays
  BY <1>1, <1>4, ConfigAssumption
<1>6. x \in Chains /\ x.event = c.event /\ x.url = c.url /\ x.run = r
  BY <1>3, <1>5 DEF Chain, Chains
<1>7. n.chain = x /\ n.stage # "ok"
  BY DEF NewFlight
<1>8. x \notin Accepted
  BY <1>5, <1>6 DEF Accepted
<1>e. runs'[<<c.event, c.url>>] = r
      /\ \A eu \in Events \X Urls : eu # <<c.event, c.url>> => runs'[eu] = runs[eu]
  BY <1>1, <1>4
<1>9. x \in Accepted'
  BY <1>1, <1>3, <1>5, <1>6, <1>e DEF Accepted
<1>10. \A y \in Chains : /\ y.event \in Events /\ y.url \in Urls /\ y.run \in Nat
                         /\ y = Chain(y.event, y.url, y.run)
  BY ConfigAssumption DEF Chains, Chain
<1> HIDE DEF n, r
<1>11. Accepted' = Accepted \cup {x}
  <2>1. ASSUME NEW y \in Accepted PROVE y \in Accepted'
    <3>1. <<y.event, y.url>> \in Events \X Urls /\ y.run <= runs[<<y.event, y.url>>]
          /\ y \in Chains /\ y.event \in emitted
      BY <1>10 DEF Accepted
    <3>2. y.run <= runs'[<<y.event, y.url>>]
      <4>1. CASE <<y.event, y.url>> = <<c.event, c.url>>
        BY <1>5, <1>10, <1>e, <3>1, <4>1 DEF r
      <4>2. CASE <<y.event, y.url>> # <<c.event, c.url>>
        BY <1>e, <3>1, <4>2
      <4> QED BY <4>1, <4>2
    <3> QED BY <1>1, <3>1, <3>2 DEF Accepted
  <2>2. ASSUME NEW y \in Accepted', y \notin Accepted PROVE y = x
    <3>1. y \in Chains /\ y.event \in emitted /\ y.run <= runs'[<<y.event, y.url>>]
          /\ ~(y.run <= runs[<<y.event, y.url>>])
      BY <1>1, <2>2 DEF Accepted
    <3>2. <<y.event, y.url>> \in Events \X Urls
      BY <1>10, <3>1
    <3>3. <<y.event, y.url>> = <<c.event, c.url>>
      BY <1>e, <3>1, <3>2
    <3>4. y.event = c.event /\ y.url = c.url
      BY <3>3
    <3>5. y.run = r
      BY <1>5, <1>10, <1>e, <3>1, <3>3 DEF r
    <3> QED BY <1>10, <3>1, <3>4, <3>5
  <2> QED BY <1>9, <2>1, <2>2
<1> HIDE DEF x, c
<1>12. \A g, h \in flights' : g.chain = h.chain => g = h
  BY <1>1, <1>7, <1>8 DEF Places
<1>13. ASSUME NEW g \in flights'
       PROVE  /\ g.chain \notin Elems(overflowQueue')
              /\ g.chain \notin ChainsOf(retryTimers')
              /\ g.chain \notin deadLettered'
              /\ g.chain \in delivered' <=> g.stage = "ok"
              /\ g.chain \in Accepted'
  BY <1>1, <1>7, <1>8, <1>11 DEF Places
<1>14. \A e \in Events, u \in Urls : e \notin emitted' => runs'[<<e, u>>] = 0
  <2> SUFFICES ASSUME NEW e \in Events, NEW u \in Urls, e \notin emitted'
               PROVE  runs'[<<e, u>>] = 0
    OBVIOUS
  <2>1. e # c.event /\ <<e, u>> \in Events \X Urls
    BY <1>1, <1>3
  <2>2. <<e, u>> # <<c.event, c.url>>
    BY <2>1
  <2>3. runs[<<e, u>>] = 0
    BY <1>1 DEF Places
  <2> QED BY <1>e, <2>1, <2>2, <2>3
<1>15. Places'
  BY <1>1, <1>11, <1>12, <1>13, <1>14 DEF Places
<1>16. Kept'
  BY <1>1, <1>7, <1>11 DEF Kept
<1> QED BY <1>15, <1>16

(* A stop only removes timers.                                               *)
LEMMA PlacesStops ==
    ASSUME TypeOK, Places, Kept, Stop \/ WatcherStop
    PROVE  Places' /\ Kept'
<1>1. /\ stopped'
      /\ retryTimers' = <<>> \/ retryTimers' = retryTimers
      /\ UNCHANGED <<emitted, runs, overflowQueue, flights, dlq, delivered, deadLettered>>
  BY DEF Stop, WatcherStop
<1>2. Accepted' = Accepted
  BY <1>1, AcceptedSame
<1>3. DistinctChains(retryTimers') /\ ChainsOf(retryTimers') \subseteq ChainsOf(retryTimers)
  BY <1>1 DEF ChainsOf, DistinctChains, Places
<1>4. Places'
  BY <1>1, <1>2, <1>3 DEF Places
<1> QED BY <1>1, <1>4 DEF Kept

-----------------------------------------------------------------------------
(* Exchanging one element of a finite set keeps its size.                    *)
LEMMA Swap ==
    ASSUME NEW S, IsFiniteSet(S), NEW f \in S, NEW n, n \notin S \ {f}
    PROVE  /\ IsFiniteSet((S \ {f}) \cup {n})
           /\ Cardinality((S \ {f}) \cup {n}) = Cardinality(S)
<1>1. IsFiniteSet(S \ {f}) /\ Cardinality(S \ {f}) = Cardinality(S) - 1
  BY FS_RemoveElement
<1>2. Cardinality(S) \in Nat
  BY FS_CardinalityType
<1>3. /\ IsFiniteSet((S \ {f}) \cup {n})
      /\ Cardinality((S \ {f}) \cup {n}) = Cardinality(S \ {f}) + 1
  BY <1>1, FS_AddElement
<1> QED BY <1>1, <1>2, <1>3

(* A flight that changes its stage keeps the slot count.                     *)
LEMMA SlotsSwap ==
    ASSUME TypeOK, Slots, Places, NEW f \in flights, NEW n,
           n.slot = f.slot, n.chain \notin {g.chain : g \in flights \ {f}},
           flights' = (flights \ {f}) \cup {n}, active' = active
    PROVE  IsFiniteSet(flights') /\ active' = Cardinality({g \in flights' : g.slot})
<1> DEFINE S == {g \in flights : g.slot}
<1>1. n \notin flights \ {f}
  OBVIOUS
<1>2. IsFiniteSet(flights) /\ IsFiniteSet(S)
  BY FS_Subset DEF Slots
<1>3. IsFiniteSet(flights')
  BY <1>1, <1>2, Swap
<1>4. CASE f.slot
  <2>1. f \in S /\ n \notin S \ {f}
    BY <1>1, <1>4
  <2>2. {g \in flights' : g.slot} = (S \ {f}) \cup {n}
    BY <1>4
  <2>3. Cardinality((S \ {f}) \cup {n}) = Cardinality(S)
    <3> HIDE DEF S
    <3> QED BY <1>2, <2>1, Swap
  <2> QED BY <1>3, <2>2, <2>3 DEF Slots, SlotsAccounted
<1>5. CASE ~f.slot
  <2>1. {g \in flights' : g.slot} = S
    BY <1>5
  <2> QED BY <1>3, <2>1 DEF Slots, SlotsAccounted
<1> QED BY <1>4, <1>5

(* A flight without a slot does not count.                                   *)
LEMMA SlotsAddFree ==
    ASSUME Slots, NEW n, n.slot = FALSE, flights' = flights \cup {n},
           UNCHANGED <<active, overflowQueue>>
    PROVE  Slots'
<1>1. IsFiniteSet(flights')
  BY FS_AddElement DEF Slots
<1>2. {g \in flights' : g.slot} = {g \in flights : g.slot}
  OBVIOUS
<1> QED BY <1>1, <1>2 DEF Slots, SlotsAccounted

(* Freeing a slot keeps the count exact and leaves no slot idle while        *)
(* deliveries wait.                                                          *)
LEMMA SlotsRelease ==
    ASSUME TypeOK, Slots, Places, NEW f \in flights, ReleaseSlot(f)
    PROVE  Slots'
<1>0. f.slot \in BOOLEAN /\ active \in Nat /\ overflowQueue \in Seq(Chains)
  BY DEF TypeOK, Flights
<1>1. CASE ReleasedEmpty(f)
  <2> DEFINE S == {g \in flights : g.slot}
  <2>1. /\ flights' = flights \ {f} /\ overflowQueue' = overflowQueue
        /\ active' = IF f.slot THEN active - 1 ELSE active
    BY <1>1 DEF ReleasedEmpty
  <2>2. IsFiniteSet(flights) /\ IsFiniteSet(S)
    BY FS_Subset DEF Slots
  <2>3. IsFiniteSet(flights')
    BY <2>1, <2>2, FS_RemoveElement
  <2>4. {g \in flights' : g.slot} = S \ {f}
    BY <2>1
  <2>5. active' = Cardinality(S \ {f})
    BY <2>1, <2>2, FS_RemoveElement DEF Slots, SlotsAccounted
  <2>6. active' <= DeliveryCap
    BY <1>0, <2>1, CapPositive DEF Slots, SlotsAccounted
  <2>7. overflowQueue' # <<>> => active' = DeliveryCap
    BY <1>1, <2>1 DEF ReleasedEmpty, Slots, SlotsAccounted
  <2> QED BY <2>3, <2>4, <2>5, <2>6, <2>7 DEF Slots, SlotsAccounted
<1>2. CASE ReleasedDrain(f)
  <2> DEFINE c == Head(overflowQueue)
             n == NewFlight(c, 1, TRUE, c)
  <2>1. /\ flights' = (flights \ {f}) \cup {n} /\ active' = active /\ active = DeliveryCap
        /\ f.slot
    BY <1>2 DEF ReleasedDrain
  <2>2. n.slot = TRUE /\ n.chain = c
    BY DEF NewFlight
  <2>3. c \in Elems(overflowQueue)
    BY <1>0, <1>2, TailElems DEF ReleasedDrain, Places
  <2>4. c \notin {g.chain : g \in flights \ {f}}
    BY <2>3 DEF Places
  <2> HIDE DEF n
  <2>5. IsFiniteSet(flights') /\ active' = Cardinality({g \in flights' : g.slot})
    BY <1>0, <2>1, <2>2, <2>4, SlotsSwap
  <2> QED BY <2>1, <2>5, CapPositive DEF Slots, SlotsAccounted
<1> QED BY <1>1, <1>2, ReleaseSlotEffect

(* Dispatching an event takes as many slots as it starts flights.            *)
LEMMA SlotsHandle ==
    ASSUME TypeOK, Slots, Places, NEW e \in Events, HandleWatcherEvent(e)
    PROVE  Slots'
<1> DEFINE k    == Least(Room, NumUrls)
           N(u) == NewFlight(Chain(e, u, 0), 1, TRUE, Chain(e, u, 0))
           new  == {N(u) : u \in 1..k}
           S    == {g \in flights : g.slot}
<1>1. /\ e \notin emitted
      /\ flights' = flights \cup new
      /\ overflowQueue' = overflowQueue \o Overflowed(e, k)
      /\ active' = active + k
  BY DEF HandleWatcherEvent
<1>2. k \in Nat /\ k <= NumUrls /\ NumUrls \in Nat /\ active \in Nat
      /\ overflowQueue \in Seq(Chains)
  BY DispatchWidth, ConfigAssumption DEF TypeOK
<1>3. active <= DeliveryCap /\ DeliveryCap \in Nat
  BY CapPositive DEF Slots, SlotsAccounted
<1>4. active + k <= DeliveryCap /\ (k < NumUrls => active + k = DeliveryCap)
  BY <1>2, <1>3 DEF Least, Room
<1> HIDE DEF k
<1>5. \A u \in 1..k : N(u).slot = TRUE /\ N(u).chain.event = e /\ N(u).chain.url = u
  BY DEF NewFlight, Chain
<1> HIDE DEF N
<1>6. \A f \in new : f \notin flights /\ f.slot = TRUE
  <2>1. \A f \in flights : f.chain.event # e
    BY <1>1 DEF Places, Accepted
  <2> QED BY <1>5, <2>1
<1>7. IsFiniteSet(new) /\ Cardinality(new) = k
  <2> DEFINE b == [u \in 1..k |-> N(u)]
  <2>1. b \in Bijection(1..k, new)
    <3>1. b \in [1..k -> new] /\ \A x \in new : \E u \in 1..k : b[u] = x
      OBVIOUS
    <3>2. \A u, v \in 1..k : b[u] = b[v] => u = v
      BY <1>5
    <3> HIDE DEF b, new
    <3> QED BY <3>1, <3>2 DEF Bijection, Injection, Surjection, IsInjective
  <2>2. ExistsBijection(1..k, new)
    BY <2>1 DEF ExistsBijection
  <2>3. Cardinality(new) = k
    BY <1>2, <2>2, FS_CountingElements
  <2>4. IsFiniteSet(new)
    BY <1>2, <2>2, FS_NatBijection
  <2> QED BY <2>3, <2>4
<1> HIDE DEF new
<1>8. IsFiniteSet(flights) /\ IsFiniteSet(S)
  BY FS_Subset DEF Slots
<1>9. IsFiniteSet(flights')
  BY <1>1, <1>7, <1>8, FS_Union
<1>10. {g \in flights' : g.slot} = S \cup new
  BY <1>1, <1>6
<1>11. S \cap new = {}
  BY <1>6
<1>12. Cardinality(S \cup new) = Cardinality(S) + k
  <2>1. Cardinality(S \cup new) = Cardinality(S) + Cardinality(new) - Cardinality(S \cap new)
    BY <1>7, <1>8, FS_Union
  <2>2. Cardinality(S \cap new) = 0 /\ Cardinality(S) \in Nat
    BY <1>8, <1>11, FS_EmptySet, FS_CardinalityType
  <2> QED BY <1>2, <1>7, <2>1, <2>2
<1>13. active' = Cardinality({g \in flights' : g.slot}) /\ active' <= DeliveryCap
  BY <1>1, <1>4, <1>10, <1>12 DEF Slots, SlotsAccounted
<1>14. overflowQueue' # <<>> => active' = DeliveryCap
  <2>1. CASE k < NumUrls
    BY <1>1, <1>4, <2>1
  <2>2. CASE ~(k < NumUrls)
    <3>1. Overflowed(e, k) = <<>>
      BY <1>2, <2>2 DEF Overflowed
    <3>2. overflowQueue' = overflowQueue
      BY <1>1, <1>2, <3>1
    <3> QED BY <1>1, <1>2, <1>3, <1>4, <3>2 DEF Slots, SlotsAccounted
  <2> QED BY <2>1, <2>2
<1> QED BY <1>9, <1>13, <1>14 DEF Slots, SlotsAccounted

(* Every step keeps the slot accounting.                                     *)
LEMMA SlotsStep ==
    ASSUME TypeOK, Slots, Places, [Next]_vars
    PROVE  Slots'
<1>1. ASSUME NEW e \in Events, HandleWatcherEvent(e) PROVE Slots'
  BY <1>1, SlotsHandle
<1>2. ASSUME NEW f \in flights, FlightStep(f) PROVE Slots'
  <2>1. CASE Validate(f) \/ FetchSettles(f)
    <3>1. PICK s \in Stages : flights' = (flights \ {f}) \cup {[f EXCEPT !.stage = s]}
      BY <2>1 DEF Validate, FetchSettles, ValidateOutcomes, Stages
    <3> DEFINE n == [f EXCEPT !.stage = s]
    <3>2. n.slot = f.slot /\ n.chain = f.chain
      BY DEF TypeOK, Flights
    <3>3. active' = active /\ overflowQueue' = overflowQueue
      BY <2>1 DEF Validate, FetchSettles
    <3>4. f.chain \notin {g.chain : g \in flights \ {f}}
      BY DEF Places
    <3> HIDE DEF n
    <3>5. flights' = (flights \ {f}) \cup {n}
      BY <3>1 DEF n
    <3>6. IsFiniteSet(flights') /\ active' = Cardinality({g \in flights' : g.slot})
      BY <3>2, <3>3, <3>4, <3>5, SlotsSwap
    <3> QED BY <3>3, <3>6 DEF Slots, SlotsAccounted
  <2>2. CASE AttemptReturns(f) \/ ScheduleRetry(f) \/ EmitFailure(f)
    BY <2>2, SlotsRelease DEF AttemptReturns, ScheduleRetry, EmitFailure
  <2> QED BY <1>2, <2>1, <2>2 DEF FlightStep
<1>3. ASSUME NEW i \in DOMAIN retryTimers, RetryTimerFires(i) PROVE Slots'
  <2> DEFINE n == NewFlight(retryTimers[i].chain, retryTimers[i].attempt, FALSE, retryTimers[i].chain)
  <2>1. flights' = flights \cup {n} /\ UNCHANGED <<active, overflowQueue>>
    BY <1>3 DEF RetryTimerFires
  <2>2. n.slot = FALSE
    BY DEF NewFlight
  <2> HIDE DEF n
  <2> QED BY <2>1, <2>2, SlotsAddFree
<1>4. ASSUME NEW i \in DOMAIN dlq, ReplayFailure(i) PROVE Slots'
  <2> DEFINE c == dlq[i].chain
             n == NewFlight(Chain(c.event, c.url, runs[<<c.event, c.url>>] + 1), 1, FALSE, c)
  <2>1. flights' = flights \cup {n} /\ UNCHANGED <<active, overflowQueue>>
    BY <1>4 DEF ReplayFailure
  <2>2. n.slot = FALSE
    BY DEF NewFlight
  <2> HIDE DEF n
  <2> QED BY <2>1, <2>2, SlotsAddFree
<1>5. CASE Stop \/ WatcherStop
  BY <1>5 DEF Stop, WatcherStop, Slots, SlotsAccounted
<1>6. CASE UNCHANGED vars
  BY <1>6 DEF vars, Slots, SlotsAccounted
<1> QED BY <1>1, <1>2, <1>3, <1>4, <1>5, <1>6 DEF Next

(* Every step keeps every chain in one place.                                *)
LEMMA PlacesStep ==
    ASSUME TypeOK, Slots, Places, Kept, [Next]_vars
    PROVE  Places' /\ Kept'
<1>1. CASE UNCHANGED vars
  <2>1. Accepted' = Accepted
    BY <1>1, AcceptedSame DEF vars
  <2> QED BY <1>1, <2>1 DEF vars, Places, Kept
<1>2. CASE Next
  BY <1>2, PlacesHandle, PlacesAttempt, PlacesReturn, PlacesRetry, PlacesFailure,
     PlacesTimer, PlacesReplay, PlacesStops DEF Next, FlightStep
<1> QED BY <1>1, <1>2

-----------------------------------------------------------------------------
(* The retry cap and the attempt counter.                                    *)
Bounds == RetriesBounded /\ RetryDiscipline

(* A delivery taken from the overflow queue starts at attempt 1.             *)
LEMMA FlightBounds ==
    ASSUME TypeOK, Slots, Bounds, NEW f \in flights, ReleaseSlot(f)
    PROVE  \A g \in flights' : g.attempt \in 1..AtLeastOne(Retries)
<1>1. AtLeastOne(Retries) \in Nat /\ AtLeastOne(Retries) >= 1
  BY ConfigAssumption DEF AtLeastOne
<1>2. \A g \in flights : g.attempt \in 1..AtLeastOne(Retries)
  BY DEF Bounds, RetryDiscipline
<1> DEFINE n == NewFlight(Head(overflowQueue), 1, TRUE, Head(overflowQueue))
<1>3. n.attempt = 1
  BY DEF NewFlight
<1>4. CASE ReleasedEmpty(f)
  BY <1>2, <1>4 DEF ReleasedEmpty
<1>5. CASE ReleasedDrain(f)
  <2>1. flights' = (flights \ {f}) \cup {n}
    BY <1>5 DEF ReleasedDrain
  <2> HIDE DEF n
  <2> QED BY <1>1, <1>2, <1>3, <2>1
<1> QED BY <1>4, <1>5, ReleaseSlotEffect

Exhausted(d) == \A i \in DOMAIN d : d[i].cause = "exhausted" => d[i].attempts >= Retries

(* Adding and stamping entries keeps the attempt counts of exhausted ones.   *)
LEMMA DlqExhausted ==
    ASSUME NEW d \in Seq(Entries), NEW x \in Entries, NEW f,
           Exhausted(d), x.cause = "exhausted" => x.attempts >= Retries
    PROVE  Exhausted(DlqAdd(d, x)) /\ Exhausted(MarkReplayed(d, f))
<1>1. Exhausted(DlqAdd(d, x))
  <2> SUFFICES ASSUME NEW i \in DOMAIN DlqAdd(d, x), DlqAdd(d, x)[i].cause = "exhausted"
               PROVE  DlqAdd(d, x)[i].attempts >= Retries
    BY DEF Exhausted
  <2>1. DlqAdd(d, x)[i] = x \/ \E j \in DOMAIN d : DlqAdd(d, x)[i] = d[j]
    BY DlqElems
  <2> QED BY <2>1 DEF Exhausted
<1>2. \A i \in DOMAIN d : d[i] \in Entries
  OBVIOUS
<1>3. \A e \in Entries : /\ [e EXCEPT !.replayed = TRUE].cause = e.cause
                         /\ [e EXCEPT !.replayed = TRUE].attempts = e.attempts
  BY DEF Entries
<1>4. /\ DOMAIN MarkReplayed(d, f) = DOMAIN d
      /\ \A i \in DOMAIN d : /\ MarkReplayed(d, f)[i].cause = d[i].cause
                             /\ MarkReplayed(d, f)[i].attempts = d[i].attempts
  BY <1>2, <1>3 DEF MarkReplayed
<1>5. Exhausted(MarkReplayed(d, f))
  BY <1>4 DEF Exhausted
<1> QED BY <1>1, <1>5

(* Every step keeps the retry cap and the attempt bounds.                    *)
LEMMA BoundsStep ==
    ASSUME TypeOK, Slots, Bounds, [Next]_vars
    PROVE  Bounds'
<1>0. /\ AtLeastOne(Retries) \in Nat /\ AtLeastOne(Retries) >= 1 /\ Retries \in Nat
      /\ Retries >= 1 => AtLeastOne(Retries) = Retries
      /\ RetryCap \in Nat /\ RetryCap >= 1
  BY ConfigAssumption, CapPositive DEF AtLeastOne
<1>a. /\ \A f \in flights : f.attempt \in 1..AtLeastOne(Retries)
      /\ \A i \in DOMAIN retryTimers : retryTimers[i].attempt \in 2..Retries
      /\ Exhausted(dlq)
      /\ Len(retryTimers) <= RetryCap
      /\ retryTimers \in Seq(Timers) /\ dlq \in Seq(Entries) /\ flights \subseteq Flights
  BY DEF Bounds, RetryDiscipline, RetriesBounded, Exhausted, TypeOK
<1> DEFINE FB == \A f \in flights : f.attempt \in 1..AtLeastOne(Retries)
           TB == \A i \in DOMAIN retryTimers : retryTimers[i].attempt \in 2..Retries
           DB == Exhausted(dlq)
           LB == Len(retryTimers) <= RetryCap
<1>b. SUFFICES FB' /\ TB' /\ DB' /\ LB'
  BY DEF Bounds, RetryDiscipline, RetriesBounded, Exhausted
<1>1. ASSUME NEW e \in Events, HandleWatcherEvent(e) PROVE FB' /\ TB' /\ DB' /\ LB'
  <2> DEFINE k   == Least(Room, NumUrls)
             new == {NewFlight(Chain(e, u, 0), 1, TRUE, Chain(e, u, 0)) : u \in 1..k}
  <2>1. \A f \in new : f.attempt = 1
    BY DEF NewFlight
  <2>2. flights' = flights \cup new /\ UNCHANGED <<retryTimers, dlq>>
    BY <1>1 DEF HandleWatcherEvent
  <2> HIDE DEF new
  <2> QED BY <1>0, <1>a, <2>1, <2>2
<1>2. ASSUME NEW f \in flights, FlightStep(f) PROVE FB' /\ TB' /\ DB' /\ LB'
  <2>0. f \in Flights /\ f.attempt \in 1..AtLeastOne(Retries) /\ f.attempt \in Nat
    BY <1>a DEF Flights
  <2>1. CASE Validate(f) \/ FetchSettles(f)
    <3>1. PICK s : flights' = (flights \ {f}) \cup {[f EXCEPT !.stage = s]}
      BY <2>1 DEF Validate, FetchSettles
    <3>2. [f EXCEPT !.stage = s].attempt = f.attempt
      BY <2>0 DEF Flights
    <3>3. UNCHANGED <<retryTimers, dlq>>
      BY <2>1 DEF Validate, FetchSettles
    <3>4. FB'
      BY <1>a, <3>1, <3>2
    <3> QED BY <1>a, <3>3, <3>4
  <2>2. CASE AttemptReturns(f)
    <3>1. FB'
      BY <2>2, FlightBounds DEF AttemptReturns
    <3>2. dlq' = MarkReplayed(dlq, f) /\ retryTimers' = retryTimers
      BY <2>2 DEF AttemptReturns
    <3>3. Entry(f.chain, "terminal", f.attempt) \in Entries
          /\ Entry(f.chain, "terminal", f.attempt).cause # "exhausted"
      BY <2>0 DEF Entry, Entries, Causes, Flights
    <3>4. DB'
      BY <1>a, <3>2, <3>3, DlqExhausted
    <3> QED BY <1>a, <3>1, <3>2, <3>4
  <2>3. CASE ScheduleRetry(f)
    <3> DEFINE t    == [chain |-> f.chain, attempt |-> f.attempt + 1]
               shed == retryTimers[Len(retryTimers)]
               x    == Entry(shed.chain, "retry_cap_exceeded", 0)
               d    == IF RetryFull THEN DlqAdd(dlq, x) ELSE dlq
               pre  == IF RetryFull THEN Front(retryTimers) ELSE retryTimers
    <3>1. FB'
      BY <2>3, FlightBounds DEF ScheduleRetry
    <3>2. retryTimers' = Append(pre, t) /\ dlq' = MarkReplayed(d, f) /\ f.attempt < Retries
      BY <2>3 DEF ScheduleRetry, MayRetry
    <3>3. t \in Timers /\ t.attempt \in 2..Retries
      BY <1>0, <2>0, <3>2 DEF Timers, Flights
    <3>4. RetryFull => retryTimers # <<>> /\ shed \in Timers
      BY <1>0, <1>a DEF RetryFull
    <3>5. RetryFull => x \in Entries /\ x.cause # "exhausted"
      BY <3>4 DEF Entry, Entries, Timers, Causes
    <3>6. d \in Seq(Entries) /\ Exhausted(d)
      BY <1>a, <3>5, DlqAddType, DlqExhausted
    <3>7. Entry(f.chain, "terminal", f.attempt) \in Entries
          /\ Entry(f.chain, "terminal", f.attempt).cause # "exhausted"
      BY <2>0 DEF Entry, Entries, Causes, Flights
    <3>8. pre \in Seq(Timers) /\ Len(pre) < RetryCap
          /\ \A i \in DOMAIN pre : pre[i].attempt \in 2..Retries
      <4>1. CASE RetryFull
        <5>1. /\ pre \in Seq(Timers) /\ Len(pre) = Len(retryTimers) - 1
              /\ pre = RemoveAt(retryTimers, Len(retryTimers))
          BY <1>a, <3>4, <4>1, FrontIsRemove
        <5>2. Len(retryTimers) \in DOMAIN retryTimers
          BY <1>a, <3>4, <4>1
        <5>3. \A j \in 1..(Len(retryTimers) - 1) :
                 pre[j] = IF j < Len(retryTimers) THEN retryTimers[j] ELSE retryTimers[j + 1]
          BY <1>a, <5>1, <5>2, RemoveAtType
        <5> HIDE DEF pre
        <5>4. ASSUME NEW i \in DOMAIN pre PROVE pre[i].attempt \in 2..Retries
          <6>1. i \in 1..(Len(retryTimers) - 1) /\ i \in DOMAIN retryTimers /\ i < Len(retryTimers)
            BY <1>a, <5>1
          <6> QED BY <1>a, <5>3, <6>1
        <5> QED BY <1>0, <1>a, <5>1, <5>4
      <4>2. CASE ~RetryFull
        BY <1>0, <1>a, <4>2 DEF RetryFull
      <4> QED BY <4>1, <4>2
    <3> HIDE DEF t, x, d, pre
    <3>9. DB'
      BY <3>2, <3>6, <3>7, DlqExhausted
    <3>10. LB'
      BY <1>0, <3>2, <3>3, <3>8
    <3>11. TB'
      BY <3>2, <3>3, <3>8
    <3> QED BY <3>1, <3>9, <3>10, <3>11
  <2>4. CASE EmitFailure(f)
    <3> DEFINE x == Entry(f.chain, IF f.stage = "failed" THEN "exhausted" ELSE "terminal", f.attempt)
    <3>1. FB'
      BY <2>4, FlightBounds DEF EmitFailure
    <3>2. dlq' = MarkReplayed(DlqAdd(dlq, x), f) /\ retryTimers' = retryTimers /\ ~MayRetry(f)
      BY <2>4 DEF EmitFailure
    <3>3. x \in Entries /\ (x.cause = "exhausted" => x.attempts >= Retries)
      BY <1>0, <2>0, <3>2 DEF Entry, Entries, Causes, Flights, MayRetry
    <3> HIDE DEF x
    <3>4. DlqAdd(dlq, x) \in Seq(Entries) /\ Exhausted(DlqAdd(dlq, x))
      BY <1>a, <3>3, DlqAddType, DlqExhausted
    <3>5. DB'
      BY <3>2, <3>3, <3>4, DlqExhausted
    <3> QED BY <1>a, <3>1, <3>2, <3>5
  <2> QED BY <1>2, <2>1, <2>2, <2>3, <2>4 DEF FlightStep
<1>3. ASSUME NEW i \in DOMAIN retryTimers, RetryTimerFires(i) PROVE FB' /\ TB' /\ DB' /\ LB'
  <2> DEFINE t == retryTimers[i]
             n == NewFlight(t.chain, t.attempt, FALSE, t.chain)
  <2>1. n.attempt = t.attempt /\ t.attempt \in 2..Retries
    BY <1>a DEF NewFlight
  <2>2. /\ retryTimers' = RemoveAt(retryTimers, i) /\ flights' = flights \cup {n} /\ dlq' = dlq
    BY <1>3 DEF RetryTimerFires, RemoveTimer
  <2>3. /\ RemoveAt(retryTimers, i) \in Seq(Timers)
        /\ Len(RemoveAt(retryTimers, i)) = Len(retryTimers) - 1
        /\ \A j \in 1..(Len(retryTimers) - 1) :
              RemoveAt(retryTimers, i)[j] = IF j < i THEN retryTimers[j] ELSE retryTimers[j + 1]
    BY <1>a, RemoveAtType
  <2> HIDE DEF n, t
  <2>4. FB'
    BY <1>0, <1>a, <2>1, <2>2
  <2>5. LB'
    BY <1>0, <1>a, <2>2, <2>3
  <2>6. TB'
    <3> SUFFICES ASSUME NEW j \in DOMAIN retryTimers' PROVE retryTimers'[j].attempt \in 2..Retries
      OBVIOUS
    <3>1. j \in 1..(Len(retryTimers) - 1) /\ j \in DOMAIN retryTimers /\ j + 1 \in DOMAIN retryTimers
      BY <1>a, <2>2, <2>3
    <3> QED BY <1>a, <2>2, <2>3, <3>1
  <2> QED BY <1>a, <2>2, <2>4, <2>5, <2>6
<1>4. ASSUME NEW i \in DOMAIN dlq, ReplayFailure(i) PROVE FB' /\ TB' /\ DB' /\ LB'
  <2> DEFINE c == dlq[i].chain
             n == NewFlight(Chain(c.event, c.url, runs[<<c.event, c.url>>] + 1), 1, FALSE, c)
  <2>1. n.attempt = 1
    BY DEF NewFlight
  <2>2. flights' = flights \cup {n} /\ UNCHANGED <<retryTimers, dlq>>
    BY <1>4 DEF ReplayFailure
  <2> HIDE DEF n
  <2> QED BY <1>0, <1>a, <2>1, <2>2
<1>5. CASE Stop \/ WatcherStop
  BY <1>0, <1>5, <1>a DEF Stop, WatcherStop
<1>6. CASE UNCHANGED vars
  BY <1>6, <1>a DEF vars
<1> QED BY <1>1, <1>2, <1>3, <1>4, <1>5, <1>6 DEF Next

-----------------------------------------------------------------------------
(* The inductive invariant.                                                  *)
IInv == TypeOK /\ Slots /\ Places /\ Kept /\ Bounds

(* The invariant holds initially.                                            *)
LEMMA InitIInv == Init => IInv
<1> SUFFICES ASSUME Init PROVE IInv
  OBVIOUS
<1> USE DEF Init
<1>1. TypeOK
  <2>1. 0 \in 0..MaxReplays
    BY ConfigAssumption
  <2>2. runs \in [Events \X Urls -> 0..MaxReplays]
    BY <2>1
  <2>3. overflowQueue \in Seq(Chains) /\ retryTimers \in Seq(Timers) /\ dlq \in Seq(Entries)
    OBVIOUS
  <2> QED BY <2>2, <2>3 DEF TypeOK
<1>2. Slots
  <2>1. {f \in flights : f.slot} = {}
    OBVIOUS
  <2> QED BY <2>1, FS_EmptySet, CapPositive DEF Slots, SlotsAccounted
<1>3. Accepted = {} /\ Elems(overflowQueue) = {} /\ ChainsOf(retryTimers) = {} /\ ChainsOf(dlq) = {}
  BY DEF Accepted, Elems, ChainsOf
<1>4. Places
  <2>1. \A e \in Events, u \in Urls : runs[<<e, u>>] = 0
    OBVIOUS
  <2>2. Distinct(overflowQueue) /\ DistinctChains(retryTimers)
    BY DEF Distinct, DistinctChains
  <2> QED BY <1>3, <2>1, <2>2 DEF Places
<1>5. Kept
  BY <1>3 DEF Kept
<1>6. Bounds
  BY CapPositive DEF Bounds, RetriesBounded, RetryDiscipline
<1> QED BY <1>1, <1>2, <1>4, <1>5, <1>6 DEF IInv

(* Every step preserves the invariant.                                       *)
LEMMA StepIInv == IInv /\ [Next]_vars => IInv'
<1> SUFFICES ASSUME IInv, [Next]_vars PROVE IInv'
  OBVIOUS
<1> USE DEF IInv
<1>1. TypeOK'
  BY TypeStep
<1>2. Slots'
  BY SlotsStep
<1>3. Places' /\ Kept'
  BY PlacesStep
<1>4. Bounds'
  BY BoundsStep
<1> QED BY <1>1, <1>2, <1>3, <1>4

(* The invariant implies the properties the runs check.                      *)
LEMMA IInvImplies == IInv => TypeOK /\ NothingLost /\ NothingDoubled /\ SlotsAccounted
                             /\ RetriesBounded /\ RetryDiscipline
<1> SUFFICES ASSUME IInv
             PROVE  TypeOK /\ NothingLost /\ NothingDoubled /\ SlotsAccounted
                    /\ RetriesBounded /\ RetryDiscipline
  OBVIOUS
<1>1. TypeOK /\ SlotsAccounted /\ RetriesBounded /\ RetryDiscipline
  BY DEF IInv, Slots, Bounds
<1>2. \A c : /\ Waiting(c) <=> c \in Elems(overflowQueue)
             /\ Backoff(c) <=> c \in ChainsOf(retryTimers)
             /\ InFlight(c) <=> \E f \in flights : f.stage # "ok" /\ f.chain = c
  BY DEF Waiting, Backoff, InFlight, Undecided, Elems, ChainsOf
<1>3. NothingLost
  BY <1>2 DEF IInv, Kept, Places, NothingLost
<1>4. NothingDoubled
  BY <1>2 DEF IInv, Places, NothingDoubled, Distinct, DistinctChains
<1> QED BY <1>1, <1>3, <1>4

(* The inductive invariant holds in every reachable state.                   *)
THEOREM Invariance == Spec => []IInv
<1> QED BY InitIInv, StepIInv, PTL DEF Spec

(* Type correctness, for every configuration of WebhookDelivery.             *)
THEOREM TypeCorrect == Spec => []TypeOK
BY Invariance, IInvImplies, PTL

(* No accepted delivery is lost before a stop, for every number of events,   *)
(* URLs, attempts and replays and every pair of caps.                        *)
THEOREM NoLoss == Spec => []NothingLost
BY Invariance, IInvImplies, PTL

(* No delivery is ever in two places at once, retried after it succeeded or  *)
(* retried after it was dead-lettered.                                       *)
THEOREM NoDuplication == Spec => []NothingDoubled
BY Invariance, IInvImplies, PTL

(* The delivery cap: the counter is exact, bounded, and never leaves a slot  *)
(* idle while the overflow queue holds work.                                 *)
THEOREM DeliveryCapHolds == Spec => []SlotsAccounted
BY Invariance, IInvImplies, PTL

(* The retry cap and the attempt counter.                                    *)
THEOREM RetryCapHolds == Spec => [](RetriesBounded /\ RetryDiscipline)
BY Invariance, IInvImplies, PTL

(* The three caps of WebhookDelivery hold together, for every configuration. *)
THEOREM AllCapsHold == Spec => []CapsHold
<1>1. SlotsAccounted /\ (RetriesBounded /\ RetryDiscipline) => CapsHold
  BY DEF CapsHold
<1> QED BY <1>1, DeliveryCapHolds, RetryCapHolds, PTL

(* With the watcher stopped, deliverToUrl ends before its request.           *)
LEMMA NewFlightStopped ==
    ASSUME watcherStopped, NEW c, NEW n, NEW s, NEW en
    PROVE  NewFlight(c, n, s, en).stage # "fetching"
BY DEF NewFlight

(* With the watcher stopped, no step adds a request.                         *)
LEMMA RequestStep ==
    ASSUME IInv, [Next]_vars, watcherStopped
    PROVE  Requests' \subseteq Requests
<1> DEFINE Calm(g) == g \in flights \/ g.stage # "fetching"
<1>0. SUFFICES \A g \in flights' : Calm(g)
  BY DEF Requests
<1>a. flights \subseteq Flights /\ TypeOK /\ Slots
  BY DEF IInv, TypeOK
<1>1. ASSUME NEW e \in Events, HandleWatcherEvent(e) PROVE \A g \in flights' : Calm(g)
  <2> DEFINE new == {NewFlight(Chain(e, u, 0), 1, TRUE, Chain(e, u, 0)) : u \in 1..Least(Room, NumUrls)}
  <2>1. \A g \in new : g.stage # "fetching"
    BY NewFlightStopped
  <2> QED BY <1>1, <2>1 DEF HandleWatcherEvent
<1>2. ASSUME NEW f \in flights, FlightStep(f) PROVE \A g \in flights' : Calm(g)
  <2>1. CASE Validate(f) \/ FetchSettles(f)
    <3>1. PICK s : /\ flights' = (flights \ {f}) \cup {[f EXCEPT !.stage = s]}
                   /\ s # "fetching"
      BY <2>1 DEF Validate, FetchSettles, ValidateOutcomes
    <3>2. [f EXCEPT !.stage = s].stage = s
      BY <1>a DEF Flights
    <3> QED BY <3>1, <3>2
  <2>2. CASE AttemptReturns(f) \/ ScheduleRetry(f) \/ EmitFailure(f)
    <3>1. ReleasedEmpty(f) \/ ReleasedDrain(f)
      BY <1>a, <2>2, ReleaseSlotEffect DEF AttemptReturns, ScheduleRetry, EmitFailure
    <3>2. NewFlight(Head(overflowQueue), 1, TRUE, Head(overflowQueue)).stage # "fetching"
      BY NewFlightStopped
    <3>3. \A g \in flights' : g \in flights \/ g = NewFlight(Head(overflowQueue), 1, TRUE, Head(overflowQueue))
      BY <3>1 DEF ReleasedEmpty, ReleasedDrain
    <3> QED BY <3>2, <3>3
  <2> QED BY <1>2, <2>1, <2>2 DEF FlightStep
<1>3. ASSUME NEW i \in DOMAIN retryTimers, RetryTimerFires(i) PROVE \A g \in flights' : Calm(g)
  BY <1>3, NewFlightStopped DEF RetryTimerFires
<1>4. ASSUME NEW i \in DOMAIN dlq, ReplayFailure(i) PROVE \A g \in flights' : Calm(g)
  BY <1>4, NewFlightStopped DEF ReplayFailure
<1>5. CASE Stop \/ WatcherStop
  BY <1>5 DEF Stop, WatcherStop
<1>6. CASE UNCHANGED vars
  BY <1>6 DEF vars
<1> QED BY <1>1, <1>2, <1>3, <1>4, <1>5, <1>6 DEF Next

(* Once the watcher has stopped, doAttempt never reaches a new request.      *)
THEOREM NoRequestOnceStopped == Spec => NoRequestAfterWatcherStop
<1>1. IInv /\ [Next]_vars => [watcherStopped => Requests' \subseteq Requests]_vars
  BY RequestStep
<1> QED BY <1>1, Invariance, PTL DEF Spec, NoRequestAfterWatcherStop
=============================================================================
