--------------------------- MODULE IngestionProofs ---------------------------
(***************************************************************************)
(* The safety properties of the parts of pulse-core around the Horizon      *)
(* stream, for every value of their constants: the registries of watchers   *)
(* (Subscriptions), the two transports with the window between them         *)
(* (DualTransport), the Soroban poller (SorobanSubscriber) and the routing  *)
(* of records and contract events (EventRouting).                           *)
(***************************************************************************)
EXTENDS Subscriptions, DualTransport, SorobanSubscriber, EventRouting, FiniteSetTheorems,
        SequenceTheorems, WellFoundedInduction, TLAPS

-----------------------------------------------------------------------------
(* Subscriptions                                                             *)

(* A watcher has one key, and has been made.                                 *)
RegistrySound ==
    /\ made \in Nat /\ registry \in [Keys -> 0..made] /\ refCounts \in [Keys -> Nat]
    /\ \A j, k \in Keys : registry[j] = registry[k] /\ registry[j] # NoOne => j = k
    /\ torn \subseteq dead /\ holding \subseteq Holds /\ IsFiniteSet(holding)
    /\ \A h \in holding : h.watcher <= made

Served == \A h \in holding : h.watcher \in torn \/ registry[h.key] = h.watcher

(* The holders of the watcher a key has now.  Their number is never above    *)
(* the count: whoever finds it at one is the last of them.                   *)
HoldersOf(k)  == {h \in holding : h.key = k /\ h.watcher = registry[k]}
CountsSuffice == \A k \in Keys : Cardinality(HoldersOf(k)) <= refCounts[k]

(* Also while the stream is down and will be opened again.                   *)
PolledWhileStarted ==
    (streamUp \/ reconnecting) /\ ~outageStart /\ Live(ContractIds) # {} => subscriberOn

SubInv == RegistrySound /\ (~lateRelease => Served /\ CountsSuffice) /\ PolledWhileStarted

(* Counting the holders of a key.                                            *)
LEMMA HoldersFinite ==
    ASSUME RegistrySound
    PROVE  \A k : IsFiniteSet(HoldersOf(k)) /\ Cardinality(HoldersOf(k)) \in Nat
<1> SUFFICES ASSUME NEW k PROVE IsFiniteSet(HoldersOf(k)) /\ Cardinality(HoldersOf(k)) \in Nat
  OBVIOUS
<1>1. IsFiniteSet(holding) /\ HoldersOf(k) \subseteq holding
  BY DEF RegistrySound, HoldersOf
<1>2. IsFiniteSet(HoldersOf(k))
  BY <1>1, FS_Subset
<1> QED BY <1>2, FS_CardinalityType

(* Watchers are stopped: their keys are forgotten, and the counts of the     *)
(* other keys still suffice.                                                 *)
LEMMA StoppingWatchers ==
    ASSUME RegistrySound, NEW W, NoOne \notin W, StopWatchers(W), made' = made,
           torn' \subseteq dead', holding' \subseteq holding
    PROVE  /\ RegistrySound'
           /\ CountsSuffice => CountsSuffice'
           /\ \A k \in Keys : registry'[k] = IF registry[k] \in W THEN NoOne ELSE registry[k]
           /\ Live(ContractIds)' # {} => Live(ContractIds) # {} /\ (subscriberOn => subscriberOn')
<1>1. /\ registry' = [k \in Keys |-> IF registry[k] \in W THEN NoOne ELSE registry[k]]
      /\ refCounts' = [k \in Keys |-> CountAfter(W, k)]
      /\ subscriberOn' = (subscriberOn /\ ~LastContract(W))
  BY DEF StopWatchers
<1>2. \A k \in Keys : registry'[k] = IF registry[k] \in W THEN NoOne ELSE registry[k]
  BY <1>1
<1>3. \A k \in Keys : refCounts'[k] = IF registry[k] \in W THEN 0 ELSE refCounts[k]
  BY <1>1 DEF CountAfter
<1>4. RegistrySound'
  <2>1. registry' \in [Keys -> 0..made] /\ refCounts' \in [Keys -> Nat]
    BY <1>1 DEF RegistrySound, CountAfter, NoOne
  <2>2. \A j, k \in Keys : registry'[j] = registry'[k] /\ registry'[j] # NoOne => j = k
    BY <1>2 DEF RegistrySound
  <2>3. holding' \subseteq Holds /\ IsFiniteSet(holding') /\ \A h \in holding' : h.watcher <= made
    BY FS_Subset DEF RegistrySound
  <2> QED BY <2>1, <2>2, <2>3 DEF RegistrySound
<1>5. ASSUME CountsSuffice PROVE CountsSuffice'
  <2> SUFFICES ASSUME NEW k \in Keys PROVE Cardinality(HoldersOf(k)') <= refCounts'[k]
    BY DEF CountsSuffice
  <2>1. CASE registry[k] \in W
    <3>1. registry'[k] = 0 /\ refCounts'[k] = 0
      BY <1>2, <1>3, <2>1 DEF NoOne
    <3>2. \A h \in holding' : h.watcher # 0
      BY DEF RegistrySound, Holds, Watchers
    <3>3. HoldersOf(k)' = {}
      BY <3>1, <3>2 DEF HoldersOf
    <3> QED BY <3>1, <3>3, FS_EmptySet
  <2>2. CASE registry[k] \notin W
    <3>1. registry'[k] = registry[k] /\ refCounts'[k] = refCounts[k]
      BY <1>2, <1>3, <2>2
    <3>2. HoldersOf(k)' \subseteq HoldersOf(k)
      BY <3>1 DEF HoldersOf
    <3>3. Cardinality(HoldersOf(k)') <= Cardinality(HoldersOf(k))
      BY <3>2, HoldersFinite, FS_Subset
    <3>4. Cardinality(HoldersOf(k)') \in Nat /\ Cardinality(HoldersOf(k)) \in Nat
          /\ refCounts[k] \in Nat
      BY <3>2, HoldersFinite, FS_Subset, FS_CardinalityType DEF RegistrySound
    <3> QED BY <1>5, <3>1, <3>3, <3>4 DEF CountsSuffice
  <2> QED BY <2>1, <2>2
<1>6. ASSUME Live(ContractIds)' # {}
      PROVE  Live(ContractIds) # {} /\ (subscriberOn => subscriberOn')
  <2>1. PICK k \in ContractIds : registry'[k] # NoOne
    BY <1>6 DEF Live
  <2>2. k \in Keys
    BY DEF Keys
  <2>3. registry[k] # NoOne /\ registry[k] \notin W
    BY <1>2, <2>1, <2>2
  <2>4. registry[k] \in Live(ContractIds)
    BY <2>3 DEF Live
  <2>5. ~LastContract(W)
    BY <2>3, <2>4 DEF LastContract
  <2> QED BY <1>1, <2>4, <2>5
<1> QED BY <1>2, <1>4, <1>5, <1>6

(* A caller subscribes: it shares the watcher of the key or has the only     *)
(* hold on a new one.                                                        *)
LEMMA SubscribeKeeps ==
    ASSUME SubInv, NEW c \in Callers, NEW k \in Keys, SubscribeTo(c, k)
    PROVE  SubInv'
<1>1. PICK w : w = IF registry[k] = NoOne THEN made + 1 ELSE registry[k]
  OBVIOUS
<1>2. PICK h : h = [caller |-> c, key |-> k, watcher |-> w]
  OBVIOUS
<1>3. /\ w \in Watchers
      /\ made' = IF registry[k] = NoOne THEN w ELSE made
      /\ registry' = [registry EXCEPT ![k] = w]
      /\ refCounts' = [refCounts EXCEPT ![k] = @ + 1]
      /\ holding' = holding \cup {h}
      /\ subscriberOn' = (subscriberOn \/ (registry[k] = NoOne /\ StartsSubscriber(k)))
      /\ outageStart' = (outageStart \/ (registry[k] = NoOne /\ k \in ContractIds /\ reconnecting))
      /\ UNCHANGED <<dead, streamUp, reconnecting, stopping, calls, torn, lateRelease>>
  BY <1>1, <1>2 DEF SubscribeTo
<1>4. RegistrySound /\ PolledWhileStarted /\ (~lateRelease => Served /\ CountsSuffice)
  BY DEF SubInv
<1>5. h \in Holds /\ h.key = k /\ h.watcher = w
  BY <1>2, <1>3 DEF Holds
<1>6. w \in Nat /\ w # NoOne /\ made \in Nat
  BY <1>3, <1>4, SubscriptionsAssumption DEF Watchers, NoOne, RegistrySound
<1>7. registry'[k] = w /\ \A j \in Keys : j # k => registry'[j] = registry[j]
  BY <1>3, <1>4 DEF RegistrySound
<1>8. refCounts'[k] = refCounts[k] + 1 /\ \A j \in Keys : j # k => refCounts'[j] = refCounts[j]
  BY <1>3, <1>4 DEF RegistrySound
<1>9. RegistrySound'
  <2>1. made' \in Nat /\ made <= made' /\ w \in 0..made'
    BY <1>1, <1>3, <1>4, <1>6 DEF RegistrySound, NoOne
  <2>2. \A j \in Keys : registry[j] \in 0..made'
    BY <1>4, <1>6, <2>1 DEF RegistrySound
  <2>3. registry' \in [Keys -> 0..made']
    BY <1>3, <1>4, <2>1, <2>2 DEF RegistrySound
  <2>4. refCounts' \in [Keys -> Nat]
    BY <1>3, <1>4 DEF RegistrySound
  <2>5. \A j \in Keys : j # k => registry[j] # w
    <3> SUFFICES ASSUME NEW j \in Keys, j # k, registry[j] = w PROVE FALSE
      OBVIOUS
    <3>1. CASE registry[k] = NoOne
      BY <1>1, <1>4, <1>6, <3>1 DEF RegistrySound
    <3>2. CASE registry[k] # NoOne
      BY <1>1, <1>4, <3>2 DEF RegistrySound
    <3> QED BY <3>1, <3>2
  <2>6. \A i, j \in Keys : registry'[i] = registry'[j] /\ registry'[i] # NoOne => i = j
    BY <1>4, <1>7, <2>5 DEF RegistrySound
  <2>7. holding' \subseteq Holds /\ IsFiniteSet(holding')
    BY <1>3, <1>4, <1>5, FS_AddElement DEF RegistrySound
  <2>8. \A g \in holding' : g.watcher <= made'
    <3>1. \A g \in holding : g.watcher \in Nat /\ g.watcher <= made
      BY <1>4, SubscriptionsAssumption DEF RegistrySound, Holds, Watchers
    <3> QED BY <1>3, <1>5, <1>6, <2>1, <3>1
  <2> QED BY <1>3, <1>4, <2>1, <2>3, <2>4, <2>6, <2>7, <2>8 DEF RegistrySound
<1>10. ASSUME ~lateRelease' PROVE Served' /\ CountsSuffice'
  <2>1. Served /\ CountsSuffice
    BY <1>3, <1>4, <1>10
  <2>2. Served'
    <3> SUFFICES ASSUME NEW g \in holding' PROVE g.watcher \in torn' \/ registry'[g.key] = g.watcher
      BY DEF Served
    <3>1. CASE g = h
      BY <1>5, <1>7, <3>1
    <3>2. CASE g \in holding
      <4>1. g.key \in Keys /\ g.watcher # NoOne
        BY <1>4, <3>2 DEF RegistrySound, Holds, Watchers, NoOne
      <4>2. CASE g.watcher \in torn
        BY <1>3, <4>2
      <4>3. CASE registry[g.key] = g.watcher
        BY <1>1, <1>7, <4>1, <4>3
      <4> QED BY <2>1, <3>2, <4>2, <4>3 DEF Served
    <3> QED BY <1>3, <3>1, <3>2
  <2>3. CountsSuffice'
    <3> SUFFICES ASSUME NEW j \in Keys PROVE Cardinality(HoldersOf(j)') <= refCounts'[j]
      BY DEF CountsSuffice
    <3>1. Cardinality(HoldersOf(j)) <= refCounts[j] /\ Cardinality(HoldersOf(j)) \in Nat
          /\ IsFiniteSet(HoldersOf(j)) /\ refCounts[j] \in Nat
      BY <1>4, <2>1, HoldersFinite DEF CountsSuffice, RegistrySound
    <3>2. CASE j # k
      <4>1. HoldersOf(j)' = HoldersOf(j)
        BY <1>3, <1>5, <1>7, <3>2 DEF HoldersOf
      <4> QED BY <1>8, <3>1, <3>2, <4>1
    <3>3. CASE j = k
      <4>1. HoldersOf(k)' \subseteq HoldersOf(k) \cup {h}
        <5>1. CASE registry[k] = NoOne
          <6>1. \A g \in holding : g.key = k => g.watcher # w
            <7> SUFFICES ASSUME NEW g \in holding, g.key = k, g.watcher = w PROVE FALSE
              OBVIOUS
            <7>1. w = made + 1
              BY <1>1, <5>1
            <7>2. w <= made
              BY <1>4 DEF RegistrySound
            <7> QED BY <1>6, <7>1, <7>2
          <6> QED BY <1>3, <1>5, <1>7, <6>1 DEF HoldersOf
        <5>2. CASE registry[k] # NoOne
          BY <1>1, <1>3, <1>7, <5>2 DEF HoldersOf
        <5> QED BY <5>1, <5>2
      <4>2. IsFiniteSet(HoldersOf(k) \cup {h})
            /\ Cardinality(HoldersOf(k) \cup {h}) <= Cardinality(HoldersOf(k)) + 1
            /\ Cardinality(HoldersOf(k) \cup {h}) \in Nat
        <5>1. IsFiniteSet(HoldersOf(k) \cup {h})
              /\ Cardinality(HoldersOf(k) \cup {h}) = IF h \in HoldersOf(k)
                    THEN Cardinality(HoldersOf(k)) ELSE Cardinality(HoldersOf(k)) + 1
          BY <3>1, <3>3, FS_AddElement
        <5> QED BY <3>1, <3>3, <5>1
      <4>3. Cardinality(HoldersOf(k)') <= Cardinality(HoldersOf(k) \cup {h})
            /\ Cardinality(HoldersOf(k)') \in Nat
        BY <4>1, <4>2, FS_Subset, FS_CardinalityType
      <4> QED BY <1>8, <3>1, <3>3, <4>2, <4>3
    <3> QED BY <3>2, <3>3
  <2> QED BY <2>2, <2>3
<1>11. PolledWhileStarted'
  <2> SUFFICES ASSUME streamUp \/ reconnecting, ~outageStart', Live(ContractIds)' # {}
               PROVE  subscriberOn'
    BY <1>3 DEF PolledWhileStarted
  <2>1. CASE registry[k] = NoOne /\ k \in ContractIds
    BY <1>3, <2>1 DEF StartsSubscriber
  <2>2. CASE ~(registry[k] = NoOne /\ k \in ContractIds)
    <3>1. \A j \in ContractIds : j \in Keys /\ registry'[j] = registry[j]
      BY <1>1, <1>7, <2>2 DEF Keys
    <3>2. Live(ContractIds) # {}
      BY <3>1 DEF Live
    <3> QED BY <1>3, <1>4, <3>2 DEF PolledWhileStarted
  <2> QED BY <2>1, <2>2
<1> QED BY <1>9, <1>10, <1>11 DEF SubInv

(* unsubscribe: the count is that of the holders, so nobody who holds the    *)
(* watcher is left when the last one stops it.                               *)
LEMMA UnsubscribeKeeps ==
    ASSUME SubInv, NEW h \in holding, UnsubscribeFrom(h)
    PROVE  SubInv'
<1>1. RegistrySound /\ PolledWhileStarted /\ (~lateRelease => Served /\ CountsSuffice)
  BY DEF SubInv
<1>2. PICK k \in Keys : k = h.key
  BY <1>1 DEF RegistrySound, Holds
<1>3. /\ holding' = holding \ {h} /\ lateRelease' = (lateRelease \/ h.watcher \in dead)
      /\ UNCHANGED <<made, streamUp, reconnecting, stopping, calls, torn, outageStart>>
  BY DEF UnsubscribeFrom
<1>4. ~lateRelease' => /\ ~lateRelease /\ Served /\ CountsSuffice /\ h \in HoldersOf(k)
                       /\ registry[k] = h.watcher
  BY <1>1, <1>2, <1>3 DEF Served, HoldersOf, RegistrySound
<1>5. IsFiniteSet(holding') /\ holding' \subseteq Holds /\ \A g \in holding' : g.watcher <= made
  BY <1>1, <1>3, FS_Subset DEF RegistrySound
<1>6. ASSUME UNCHANGED <<registry, dead, subscriberOn>>
      PROVE  PolledWhileStarted' /\ (Served => Served')
  BY <1>1, <1>3, <1>6 DEF PolledWhileStarted, Live, Served
<1>7. CASE registry[k] = NoOne
  <2>1. UNCHANGED <<registry, refCounts, dead, subscriberOn>>
    BY <1>2, <1>7 DEF UnsubscribeFrom
  <2>2. h.watcher # NoOne
    BY <1>1 DEF RegistrySound, Holds, Watchers, NoOne
  <2>3. lateRelease'
    BY <1>4, <1>7, <2>2
  <2>4. RegistrySound'
    BY <1>1, <1>3, <1>5, <2>1 DEF RegistrySound
  <2> QED BY <1>6, <2>1, <2>3, <2>4 DEF SubInv
<1>8. CASE registry[k] # NoOne /\ Release(k)
  <2>1. StopWatchers({registry[k]})
    BY <1>2, <1>8 DEF UnsubscribeFrom
  <2>2. NoOne \notin {registry[k]} /\ torn' \subseteq dead' /\ holding' \subseteq holding
    BY <1>1, <1>3, <1>8, <2>1 DEF StopWatchers, RegistrySound
  <2>3. /\ RegistrySound' /\ (CountsSuffice => CountsSuffice')
        /\ \A j \in Keys : registry'[j] = IF registry[j] \in {registry[k]} THEN NoOne ELSE registry[j]
        /\ Live(ContractIds)' # {} => Live(ContractIds) # {} /\ (subscriberOn => subscriberOn')
    BY <1>1, <1>3, <2>1, <2>2, StoppingWatchers
  <2>4. PolledWhileStarted'
    BY <1>1, <1>3, <2>3 DEF PolledWhileStarted
  <2>5. ASSUME ~lateRelease' PROVE Served'
    <3> SUFFICES ASSUME NEW g \in holding'
                 PROVE  g.watcher \in torn' \/ registry'[g.key] = g.watcher
      BY DEF Served
    <3>1. g \in holding /\ g # h /\ g.key \in Keys
      BY <1>1, <1>3 DEF RegistrySound, Holds
    <3>2. CASE g.watcher \in torn
      BY <1>3, <3>2
    <3>3. CASE registry[g.key] = g.watcher
      <4>1. CASE registry[g.key] = registry[k]
        <5>1. g.key = k
          BY <1>1, <1>8, <3>1, <4>1 DEF RegistrySound
        <5>2. g \in HoldersOf(k) /\ h \in HoldersOf(k)
          BY <1>4, <2>5, <3>1, <3>3, <5>1 DEF HoldersOf
        <5>3. Cardinality(HoldersOf(k)) <= 1
          <6>1. Cardinality(HoldersOf(k)) <= refCounts[k] /\ Cardinality(HoldersOf(k)) \in Nat
                /\ refCounts[k] \in Nat /\ refCounts[k] <= 1
            BY <1>1, <1>4, <1>8, <2>5, HoldersFinite DEF CountsSuffice, RegistrySound, Release
          <6> QED BY <6>1
        <5>4. {g, h} \subseteq HoldersOf(k) /\ IsFiniteSet(HoldersOf(k))
          BY <1>1, <5>2, HoldersFinite
        <5>5. IsFiniteSet({h}) /\ Cardinality({h}) = 1
          BY FS_Singleton
        <5>6. Cardinality({h} \cup {g}) = 2
          <6>1. g \notin {h}
            BY <3>1
          <6>2. Cardinality({h} \cup {g}) = Cardinality({h}) + 1
            BY <5>5, <6>1, FS_AddElement
          <6> QED BY <5>5, <6>2
        <5>7. Cardinality({h} \cup {g}) <= Cardinality(HoldersOf(k))
          BY <5>4, FS_Subset
        <5>8. Cardinality(HoldersOf(k)) \in Nat
          BY <1>1, HoldersFinite
        <5> QED BY <5>3, <5>6, <5>7, <5>8
      <4>2. CASE registry[g.key] # registry[k]
        BY <2>3, <3>1, <3>3, <4>2
      <4> QED BY <4>1, <4>2
    <3> QED BY <1>4, <2>5, <3>1, <3>2, <3>3 DEF Served
  <2> QED BY <1>4, <2>3, <2>4, <2>5 DEF SubInv
<1>9. CASE registry[k] # NoOne /\ ~Release(k)
  <2>1. refCounts' = [refCounts EXCEPT ![k] = @ - 1] /\ UNCHANGED <<registry, dead, subscriberOn>>
    BY <1>2, <1>9 DEF UnsubscribeFrom
  <2>2. refCounts[k] \in Nat /\ refCounts[k] > 1
    BY <1>1, <1>9 DEF RegistrySound, Release
  <2>3. refCounts' \in [Keys -> Nat] /\ refCounts'[k] = refCounts[k] - 1
        /\ \A j \in Keys : j # k => refCounts'[j] = refCounts[j]
    BY <1>1, <2>1, <2>2 DEF RegistrySound
  <2>4. RegistrySound'
    BY <1>1, <1>3, <1>5, <2>1, <2>3 DEF RegistrySound
  <2>5. ASSUME ~lateRelease' PROVE CountsSuffice'
    <3> SUFFICES ASSUME NEW j \in Keys PROVE Cardinality(HoldersOf(j)') <= refCounts'[j]
      BY DEF CountsSuffice
    <3>1. Cardinality(HoldersOf(j)) <= refCounts[j] /\ Cardinality(HoldersOf(j)) \in Nat
          /\ IsFiniteSet(HoldersOf(j)) /\ refCounts[j] \in Nat
      BY <1>1, <1>4, <2>5, HoldersFinite DEF CountsSuffice, RegistrySound
    <3>2. CASE j = k
      <4>1. HoldersOf(k)' = HoldersOf(k) \ {h}
        BY <1>3, <2>1 DEF HoldersOf
      <4>2. Cardinality(HoldersOf(k) \ {h}) = Cardinality(HoldersOf(k)) - 1
        BY <1>4, <2>5, <3>1, <3>2, FS_RemoveElement
      <4> QED BY <2>3, <3>1, <3>2, <4>1, <4>2
    <3>3. CASE j # k
      <4>1. HoldersOf(j)' = HoldersOf(j)
        BY <1>2, <1>3, <2>1, <3>3 DEF HoldersOf
      <4> QED BY <2>3, <3>1, <3>3, <4>1
    <3> QED BY <3>2, <3>3
  <2> QED BY <1>4, <1>6, <2>1, <2>4, <2>5 DEF SubInv
<1> QED BY <1>7, <1>8, <1>9

(* Watchers that are stopped for good: unsubscribeAll, stop() and a holder   *)
(* that stops the shared watcher.                                            *)
LEMMA TearingDownKeeps ==
    ASSUME SubInv, NEW W, NoOne \notin W, StopWatchers(W), torn' = torn \cup W,
           holding' \subseteq holding,
           UNCHANGED <<made, streamUp, reconnecting, lateRelease, outageStart>>
    PROVE  SubInv'
<1>1. RegistrySound /\ PolledWhileStarted /\ (~lateRelease => Served /\ CountsSuffice)
  BY DEF SubInv
<1>2. torn' \subseteq dead'
  BY <1>1 DEF StopWatchers, RegistrySound
<1>3. /\ RegistrySound' /\ (CountsSuffice => CountsSuffice')
      /\ \A j \in Keys : registry'[j] = IF registry[j] \in W THEN NoOne ELSE registry[j]
      /\ Live(ContractIds)' # {} => Live(ContractIds) # {} /\ (subscriberOn => subscriberOn')
  BY <1>1, <1>2, StoppingWatchers
<1>4. PolledWhileStarted'
  BY <1>1, <1>3 DEF PolledWhileStarted
<1>5. Served => Served'
  <2>1. \A g \in holding : g.key \in Keys
    BY <1>1 DEF RegistrySound, Holds
  <2> QED BY <1>3, <2>1 DEF Served
<1> QED BY <1>1, <1>3, <1>4, <1>5 DEF SubInv

(* start, an outage, its end and the beginning of stop.                      *)
LEMMA EngineMovesKeep ==
    ASSUME SubInv, EngineStart \/ StreamFails \/ StreamReopens \/ EngineStop
    PROVE  SubInv'
<1>1. UNCHANGED <<registry, refCounts, made, dead, holding, torn, lateRelease, outageStart>>
  BY DEF EngineStart, StreamFails, StreamReopens, EngineStop
<1>2. PolledWhileStarted'
  BY <1>1 DEF SubInv, PolledWhileStarted, Live, EngineStart, StreamFails, StreamReopens, EngineStop
<1> QED BY <1>1, <1>2 DEF SubInv, RegistrySound, Served, CountsSuffice, HoldersOf

(* For any number of callers, keys, watchers, starts and outages: whoever    *)
(* holds a subscription that was not torn down has the running watcher of    *)
(* its key, as long as no stopped watcher is released; and the Soroban       *)
(* subscriber polls while a contract id is watched and the stream is open,   *)
(* unless one was subscribed to during an outage.                            *)
THEOREM SubscribersAreServed == SubSpec => []SubscribersServed
<1>1. SubInit => SubInv
  <2> SUFFICES ASSUME SubInit PROVE SubInv
    OBVIOUS
  <2>1. RegistrySound
    BY FS_EmptySet DEF SubInit, RegistrySound, NoOne
  <2>2. CountsSuffice
    <3>1. \A k \in Keys : HoldersOf(k) = {} /\ refCounts[k] = 0
      BY DEF SubInit, HoldersOf
    <3> QED BY <3>1, FS_EmptySet DEF CountsSuffice
  <2> QED BY <2>1, <2>2 DEF SubInit, SubInv, Served, PolledWhileStarted
<1>2. SubInv /\ [SubNext]_subVars => SubInv'
  <2> SUFFICES ASSUME SubInv, [SubNext]_subVars PROVE SubInv'
    OBVIOUS
  <2>0. \A S : NoOne \notin Live(S)
    BY DEF Live
  <2>1. CASE \E c \in Callers, k \in Keys : SubscribeTo(c, k)
    BY <2>1, SubscribeKeeps
  <2>2. CASE \E h \in holding : UnsubscribeFrom(h)
    BY <2>2, UnsubscribeKeeps
  <2>3. CASE \E h \in holding : WatcherStopped(h)
    <3>1. PICK h \in holding : WatcherStopped(h)
      BY <2>3
    <3>2. NoOne \notin {h.watcher}
      BY DEF SubInv, RegistrySound, Holds, Watchers, NoOne
    <3>3. StopWatchers({h.watcher}) /\ torn' = torn \cup {h.watcher} /\ holding' \subseteq holding
          /\ UNCHANGED <<made, streamUp, reconnecting, lateRelease, outageStart>>
      BY <3>1 DEF WatcherStopped
    <3> QED BY <3>2, <3>3, TearingDownKeeps
  <2>4. CASE UnsubscribeAll \/ UnsubscribeAllContracts
    <3>1. PICK S : Teardown(S)
      BY <2>4 DEF UnsubscribeAll, UnsubscribeAllContracts
    <3>2. StopWatchers(Live(S)) /\ torn' = torn \cup Live(S) /\ holding' \subseteq holding
          /\ UNCHANGED <<made, streamUp, reconnecting, lateRelease, outageStart>>
      BY <3>1 DEF Teardown
    <3> QED BY <2>0, <3>2, TearingDownKeeps
  <2>5. CASE EngineStopped
    <3>1. StopWatchers(Live(Addresses)) /\ torn' = torn \cup Live(Addresses)
          /\ holding' \subseteq holding
          /\ UNCHANGED <<made, streamUp, reconnecting, lateRelease, outageStart>>
      BY <2>5 DEF EngineStopped
    <3> QED BY <2>0, <3>1, TearingDownKeeps
  <2>6. CASE EngineStart \/ StreamFails \/ StreamReopens \/ EngineStop
    BY <2>6, EngineMovesKeep
  <2>7. CASE UNCHANGED subVars
    BY <2>7 DEF subVars, SubInv, RegistrySound, Served, CountsSuffice, HoldersOf,
       PolledWhileStarted, Live
  <2> QED BY <2>1, <2>2, <2>3, <2>4, <2>5, <2>6, <2>7 DEF SubNext
<1>3. SubInv => SubscribersServed
  BY DEF SubInv, Served, PolledWhileStarted, SubscribersServed, HoldersAreServed, IdsArePolledFor
<1> QED BY <1>1, <1>2, <1>3, PTL DEF SubSpec

-----------------------------------------------------------------------------
(* DualTransport                                                             *)

(* What the window remembers of an operation: at most one set of transports. *)
By(n) == {window[i].by : i \in Slot(n)}

WindowTyped ==
    /\ window \in Seq([key : Ops, by : SUBSET Transports]) /\ deliveries \in [Ops -> Nat]
    /\ \A i, j \in DOMAIN window : window[i].key = window[j].key => i = j

(* The queue holds what Horizon reported, once unless Horizon repeated it.   *)
QueueTyped ==
    /\ hzQueue \in Seq(Ops) /\ hzHeard \subseteq Ops /\ unHeard \subseteq DOMAIN Unified
    /\ \A i \in DOMAIN hzQueue : hzQueue[i] \in hzHeard
    /\ \A i, j \in DOMAIN hzQueue : hzQueue[i] = hzQueue[j] => i = j \/ hzQueue[i] \in hzTwice

Poll == [at : {"none", "reading", "polling", "ended"}, aborted : BOOLEAN, cursor : 0..Len(Unified)]

PollTyped ==
    /\ polls \in [1..MaxRuns -> Poll] /\ pollPromise \in 0..MaxRuns /\ runs \in 0..MaxRuns
    /\ unStored \in Nat /\ unWrites \in Seq(Nat)
    /\ stopCall \in [at : {"no", "subscriber", "poller", "writes"}, of : 0..MaxRuns, left : Nat]

(* What was delivered of an operation follows from who has reported it:      *)
(* once for Horizon alone, and once per movement seen as soon as the unified *)
(* transport reported any.                                                   *)
Counted(n) ==
    /\ By(n) = {} => deliveries[n] = 0 /\ Passed(n) = 0 /\ Awaited(n)
    /\ \A b \in By(n) :
          /\ b # {}
          /\ "horizon" \in b <=> ~Awaited(n)
          /\ "unified" \notin b => deliveries[n] = 1 /\ Passed(n) = 0
          /\ "unified" \in b => deliveries[n] >= 1 /\ deliveries[n] = Passed(n)

Alive(r) == polls[r].at \in {"reading", "polling"}

(* As long as every start follows a finished stop() and every cursor is      *)
(* read, one poller is alive at a time, it begins when no write is under     *)
(* way, and the cursors are in order: the stored one, those to be written,   *)
(* the poller's.                                                             *)
CursorsInOrder ==
    /\ engine # "off" => stopCall.at = "no"
    /\ verifying => engine # "off"
    /\ (verifying \/ (engine = "off" /\ stopCall.at = "no"))
          => unWrites = <<>> /\ \A r \in 1..MaxRuns : ~Alive(r)
    /\ stopCall.at = "writes" => stopCall.left = Len(unWrites) /\ \A r \in 1..MaxRuns : ~Alive(r)
    /\ \A r \in 1..MaxRuns : Alive(r) =>
          /\ r = pollPromise
          /\ stopCall.at = "poller" => stopCall.of = r
          /\ polls[r].at = "reading" => unWrites = <<>>
          /\ polls[r].at = "polling" =>
                unStored <= polls[r].cursor /\ \A i \in DOMAIN unWrites : unWrites[i] <= polls[r].cursor
    /\ \A i \in DOMAIN unWrites : unStored <= unWrites[i]
    /\ \A i, j \in DOMAIN unWrites : i < j => unWrites[i] <= unWrites[j]

(* As long as the writes land too, no movement reported is beyond the last   *)
(* cursor.                                                                   *)
HeardBefore ==
    /\ \A u \in unHeard : u <= IF unWrites = <<>> THEN unStored ELSE unWrites[Len(unWrites)]
    /\ \A r \in 1..MaxRuns : polls[r].at = "polling" => \A u \in unHeard : u <= polls[r].cursor
    /\ unTwice = {}

Orderly == lapses \cap {"read", "unstopped"} = {}

DualInv ==
    /\ WindowTyped /\ QueueTyped /\ PollTyped
    /\ \A n \in Plain : Counted(n)
    /\ Orderly => CursorsInOrder
    /\ lapses = {} => HeardBefore

(* The movements the poller has reported.                                    *)
LEMMA PassedCounts ==
    ASSUME QueueTyped, NEW n
    PROVE  Passed(n) \in Nat /\ IsFiniteSet({u \in unHeard : Unified[u] = n})
<1>1. Unified \in Seq(Ops) /\ DOMAIN Unified = 1..Len(Unified) /\ Len(Unified) \in Nat
  BY DualAssumption
<1>2. IsFiniteSet(1..Len(Unified))
  BY <1>1, FS_Interval
<1>3. {u \in unHeard : Unified[u] = n} \subseteq 1..Len(Unified)
  BY <1>1 DEF QueueTyped
<1> QED BY <1>2, <1>3, FS_Subset, FS_CardinalityType DEF Passed

(* The poller reports one movement more.                                     *)
LEMMA PassingCounts ==
    ASSUME QueueTyped, NEW u \in DOMAIN Unified, unHeard' = unHeard \cup {u}
    PROVE  /\ Unified[u] \in Ops
           /\ u \notin unHeard => Passed(Unified[u])' = Passed(Unified[u]) + 1
           /\ \A m : m # Unified[u] => Passed(m)' = Passed(m)
<1> DEFINE n == Unified[u]
<1>1. n \in Ops
  BY DualAssumption
<1>2. \A m : m # n => {v \in unHeard' : Unified[v] = m} = {v \in unHeard : Unified[v] = m}
  OBVIOUS
<1>3. ASSUME u \notin unHeard PROVE Passed(n)' = Passed(n) + 1
  <2>1. {v \in unHeard' : Unified[v] = n} = {v \in unHeard : Unified[v] = n} \cup {u}
    OBVIOUS
  <2>2. u \notin {v \in unHeard : Unified[v] = n}
    BY <1>3
  <2>3. IsFiniteSet({v \in unHeard : Unified[v] = n})
    BY PassedCounts
  <2> QED BY <2>1, <2>2, <2>3, FS_AddElement DEF Passed
<1>4. \A m : m # n => Passed(m)' = Passed(m)
  BY <1>2 DEF Passed
<1> QED BY <1>1, <1>3, <1>4

(* What route() does to the window: the operation is remembered with the     *)
(* transport that reported it, and of the others only one may be evicted.    *)
LEMMA RouteRemembers ==
    ASSUME WindowTyped, NEW n \in Ops, NEW t \in Transports, Route(n, t)
    PROVE  /\ window' \in Seq([key : Ops, by : SUBSET Transports])
           /\ \A i, j \in DOMAIN window' : window'[i].key = window'[j].key => i = j
           /\ \A m \in Ops \ forgotten' : m # n => By(m)' = By(m)
           /\ By(n)' = IF By(n) = {} THEN {{t}} ELSE {b \cup {t} : b \in By(n)}
           /\ SeenFrom(n, t) <=> \E b \in By(n) : t \notin b
           /\ forgotten \subseteq forgotten'
           /\ deliveries' = [deliveries EXCEPT ![n] = IF SeenFrom(n, t) THEN @ ELSE @ + 1]
<1> DEFINE Entry == [key : Ops, by : SUBSET Transports]
<1>1. /\ window \in Seq(Entry) /\ Len(window) \in Nat /\ DOMAIN window = 1..Len(window)
      /\ \A i, j \in DOMAIN window : window[i].key = window[j].key => i = j
      /\ \A i \in DOMAIN window : window[i] \in Entry
  <2>1. window \in Seq(Entry)
        /\ \A i, j \in DOMAIN window : window[i].key = window[j].key => i = j
    BY DEF WindowTyped
  <2> HIDE DEF Entry
  <2> QED BY <2>1
<1>2. /\ window' = Observed(n, t)
      /\ forgotten' = forgotten \cup ({window[i].key : i \in DOMAIN window}
                                       \ {window'[i].key : i \in DOMAIN window'})
      /\ deliveries' = [deliveries EXCEPT ![n] = IF SeenFrom(n, t) THEN @ ELSE @ + 1]
  BY DEF Route
<1>3. SeenFrom(n, t) <=> \E b \in By(n) : t \notin b
  BY DEF SeenFrom, By
<1>4. CASE Slot(n) # {}
  <2>1. DOMAIN window' = DOMAIN window /\ Len(window') = Len(window)
        /\ \A i \in DOMAIN window :
              window'[i] = IF i \in Slot(n) THEN [window[i] EXCEPT !.by = @ \cup {t}] ELSE window[i]
    BY <1>1, <1>2, <1>4 DEF Observed
  <2>2. \A i \in DOMAIN window : /\ window'[i] \in Entry /\ window'[i].key = window[i].key
                                 /\ i \in Slot(n) => window'[i].by = window[i].by \cup {t}
                                 /\ i \notin Slot(n) => window'[i].by = window[i].by
    BY <1>1, <2>1
  <2>3. window' \in Seq(Entry)
    <3>1. window' = [i \in 1..Len(window) |->
                       IF i \in Slot(n) THEN [window[i] EXCEPT !.by = @ \cup {t}] ELSE window[i]]
      BY <1>1, <1>2, <1>4 DEF Observed
    <3>2. window' \in [1..Len(window) -> Entry]
      BY <1>1, <2>2, <3>1
    <3> QED BY <1>1, <3>2
  <2>4. \A m : Slot(m)' = Slot(m)
    BY <2>1, <2>2 DEF Slot
  <2>5. \A m : m # n => By(m)' = By(m)
    <3> SUFFICES ASSUME NEW m, m # n PROVE By(m)' = By(m)
      OBVIOUS
    <3>1. \A i \in Slot(m) : i \in DOMAIN window /\ i \notin Slot(n)
      BY DEF Slot
    <3> QED BY <2>2, <2>4, <3>1 DEF By
  <2>6. By(n) # {} /\ By(n)' = {b \cup {t} : b \in By(n)}
    <3>1. \A i \in Slot(n) : i \in DOMAIN window /\ window'[i].by = window[i].by \cup {t}
      BY <2>2 DEF Slot
    <3>2. By(n)' = {window'[i].by : i \in Slot(n)}
      BY <2>4 DEF By
    <3>3. By(n)' = {window[i].by \cup {t} : i \in Slot(n)}
      BY <3>1, <3>2
    <3>4. {window[i].by \cup {t} : i \in Slot(n)} = {b \cup {t} : b \in By(n)}
      BY DEF By
    <3>5. By(n) # {}
      BY <1>4 DEF By
    <3> QED BY <3>3, <3>4, <3>5
  <2>7. \A i, j \in DOMAIN window' : window'[i].key = window'[j].key => i = j
    BY <1>1, <2>1, <2>2
  <2> QED BY <1>2, <1>3, <2>3, <2>5, <2>6, <2>7
<1>5. CASE Slot(n) = {}
  <2>1. PICK e \in Entry : e = [key |-> n, by |-> {t}]
    OBVIOUS
  <2>2. e.key = n /\ e.by = {t}
    BY <2>1
  <2>3. PICK w : w = Append(window, e)
    OBVIOUS
  <2>4. w \in Seq(Entry) /\ Len(w) = Len(window) + 1 /\ DOMAIN w = 1..Len(w)
        /\ w[Len(w)] = e /\ \A i \in DOMAIN window : w[i] = window[i]
    BY <1>1, <2>3
  <2>5. window' = IF Len(w) > Capacity THEN Tail(w) ELSE w
    BY <1>2, <1>5, <2>1, <2>3 DEF Observed
  <2>6. \A i, j \in DOMAIN w : w[i].key = w[j].key => i = j
    <3>1. \A i \in DOMAIN window : window[i].key # n
      BY <1>5 DEF Slot
    <3>2. \A i \in DOMAIN w : i \in DOMAIN window \/ i = Len(w)
      BY <1>1, <2>4
    <3> QED BY <1>1, <2>2, <2>4, <3>1, <3>2
  <2>7. PICK d \in {0, 1} :
           /\ window' \in Seq(Entry) /\ Len(window') = Len(w) - d /\ Len(w) > d
           /\ \A i \in 1..(Len(w) - d) : window'[i] = w[i + d]
    <3>1. CASE Len(w) > Capacity
      <4>1. w # <<>> /\ Len(w) > 1
        BY <1>1, <2>4, <3>1, DualAssumption
      <4>2. Tail(w) \in Seq(Entry) /\ Len(Tail(w)) = Len(w) - 1
            /\ \A i \in 1..(Len(w) - 1) : Tail(w)[i] = w[i + 1]
        BY <2>4, <4>1
      <4>3. /\ window' \in Seq(Entry) /\ Len(window') = Len(w) - 1 /\ Len(w) > 1
            /\ \A i \in 1..(Len(w) - 1) : window'[i] = w[i + 1]
        BY <2>5, <3>1, <4>1, <4>2
      <4> HIDE DEF Entry
      <4> QED BY <4>3
    <3>2. CASE ~(Len(w) > Capacity)
      <4>1. window' = w /\ Len(w) - 0 = Len(w) /\ Len(w) > 0
        BY <1>1, <2>4, <2>5, <3>2
      <4>2. \A i \in 1..(Len(w) - 0) : window'[i] = w[i + 0]
        BY <4>1
      <4> QED BY <2>4, <4>1, <4>2
    <3> QED BY <3>1, <3>2
  <2>8. DOMAIN window' = 1..(Len(w) - d)
    BY <2>7
  <2>9. \A i \in DOMAIN window' : i \in Nat /\ i + d \in DOMAIN w /\ window'[i] = w[i + d]
    <3>1. Len(w) \in Nat /\ DOMAIN w = 1..Len(w)
      BY <1>1, <2>4
    <3>2. \A i \in 1..(Len(w) - d) : i \in Nat /\ i + d \in 1..Len(w)
      BY <3>1
    <3> QED BY <2>7, <2>8, <3>1, <3>2
  <2>10. \A i, j \in DOMAIN window' : window'[i].key = window'[j].key => i = j
    <3> SUFFICES ASSUME NEW i \in DOMAIN window', NEW j \in DOMAIN window',
                        window'[i].key = window'[j].key
                 PROVE  i = j
      OBVIOUS
    <3>1. i \in Nat /\ j \in Nat /\ i + d \in DOMAIN w /\ j + d \in DOMAIN w
      BY <2>9
    <3>2. i + d = j + d
      BY <2>6, <2>9, <3>1
    <3> QED BY <3>1, <3>2
  <2>11. By(n)' = {{t}}
    <3>1. Len(w) - d \in DOMAIN window' /\ window'[Len(w) - d] = e
      BY <1>1, <2>4, <2>7, <2>8
    <3>2. Slot(n)' = {Len(w) - d}
      BY <2>2, <2>10, <3>1 DEF Slot
    <3> QED BY <2>2, <3>1, <3>2 DEF By
  <2>12. By(n) = {}
    BY <1>5 DEF By
  <2>13. ASSUME NEW m \in Ops \ forgotten', m # n PROVE By(m)' = By(m)
    <3>1. By(m)' \subseteq By(m)
      <4> SUFFICES ASSUME NEW i \in Slot(m)' PROVE window'[i].by \in By(m)
        BY DEF By
      <4>1. i \in DOMAIN window' /\ window'[i].key = m
        BY DEF Slot
      <4>2. i + d \in DOMAIN w /\ window'[i] = w[i + d]
        BY <2>9, <4>1
      <4>3. i + d \in DOMAIN window
        BY <1>1, <2>2, <2>4, <2>13, <4>1, <4>2
      <4>4. i + d \in Slot(m) /\ window'[i].by = window[i + d].by
        BY <2>4, <4>1, <4>2, <4>3 DEF Slot
      <4> QED BY <4>4 DEF By
    <3>2. By(m) \subseteq By(m)'
      <4> SUFFICES ASSUME NEW j \in Slot(m) PROVE window[j].by \in By(m)'
        BY DEF By
      <4>1. j \in DOMAIN window /\ window[j].key = m
        BY DEF Slot
      <4>2. m \in {window'[i].key : i \in DOMAIN window'}
        BY <1>2, <2>13, <4>1
      <4>3. PICK i \in DOMAIN window' : window'[i].key = m
        BY <4>2
      <4>4. i + d \in DOMAIN w /\ window'[i] = w[i + d]
        BY <2>9, <4>3
      <4>5. i + d = j
        BY <1>1, <2>4, <2>6, <4>1, <4>3, <4>4
      <4>6. i \in Slot(m)' /\ window'[i].by = window[j].by
        BY <2>4, <4>1, <4>3, <4>4, <4>5 DEF Slot
      <4> QED BY <4>6 DEF By
    <3> QED BY <3>1, <3>2
  <2> QED BY <1>2, <1>3, <2>7, <2>10, <2>11, <2>12, <2>13
<1> QED BY <1>4, <1>5

(* An operation of which nothing changes.                                    *)
LEMMA CountStands ==
    ASSUME NEW m \in Ops, Counted(m), By(m)' = By(m), deliveries'[m] = deliveries[m],
           Passed(m)' = Passed(m), Awaited(m)' <=> Awaited(m)
    PROVE  Counted(m)'
BY DEF Counted

(* The counts, if a step leaves the window, the queue and the reports alone. *)
LEMMA CountsStand ==
    ASSUME WindowTyped, QueueTyped, \A n \in Plain : Counted(n),
           UNCHANGED <<hzQueue, seenVars>>
    PROVE  WindowTyped' /\ QueueTyped' /\ \A n \in Plain' : Counted(n)'
<1>1. UNCHANGED <<hzQueue, window, deliveries, forgotten, hzHeard, unHeard, hzTwice, unTwice>>
  BY DEF seenVars
<1>2. WindowTyped' /\ QueueTyped' /\ Plain' = Plain
  BY <1>1 DEF WindowTyped, QueueTyped, Plain
<1>3. \A n : By(n)' = By(n) /\ Passed(n)' = Passed(n) /\ (Awaited(n)' <=> Awaited(n))
  BY <1>1 DEF By, Slot, Passed, Awaited, Queued
<1>4. \A n \in Plain : n \in Ops
  BY DEF Plain
<1> QED BY <1>1, <1>2, <1>3, <1>4, CountStands

(* The engine's queue after a record is appended to it.                      *)
LEMMA QueueGrows ==
    ASSUME QueueTyped, NEW n \in Ops, hzQueue' = Append(hzQueue, n), hzHeard' = hzHeard \cup {n},
           hzTwice' = hzTwice \cup (hzHeard \cap {n}), unHeard' = unHeard
    PROVE  QueueTyped' /\ \A m \in Ops \ hzTwice' : Awaited(m)' <=> Awaited(m)
<1>1. /\ hzQueue \in Seq(Ops) /\ Len(hzQueue) \in Nat /\ DOMAIN hzQueue = 1..Len(hzQueue)
      /\ \A i \in DOMAIN hzQueue : hzQueue[i] \in hzHeard
      /\ \A i, j \in DOMAIN hzQueue : hzQueue[i] = hzQueue[j] => i = j \/ hzQueue[i] \in hzTwice
  BY DEF QueueTyped
<1>2. /\ hzQueue' \in Seq(Ops) /\ Len(hzQueue') = Len(hzQueue) + 1 /\ DOMAIN hzQueue' = 1..Len(hzQueue')
      /\ hzQueue'[Len(hzQueue) + 1] = n /\ \A i \in DOMAIN hzQueue : hzQueue'[i] = hzQueue[i]
  BY <1>1
<1>3. \A i \in DOMAIN hzQueue' : i \in DOMAIN hzQueue \/ i = Len(hzQueue) + 1
  BY <1>1, <1>2
<1>4. \A i, j \in DOMAIN hzQueue' : hzQueue'[i] = hzQueue'[j] => i = j \/ hzQueue'[i] \in hzTwice'
  <2> SUFFICES ASSUME NEW i \in DOMAIN hzQueue', NEW j \in DOMAIN hzQueue', i # j,
                      hzQueue'[i] = hzQueue'[j]
               PROVE  hzQueue'[i] \in hzTwice'
    OBVIOUS
  <2>1. CASE i \in DOMAIN hzQueue /\ j \in DOMAIN hzQueue
    BY <1>1, <1>2, <2>1
  <2>2. CASE i \notin DOMAIN hzQueue \/ j \notin DOMAIN hzQueue
    <3>1. hzQueue'[i] = n /\ (i \in DOMAIN hzQueue \/ j \in DOMAIN hzQueue)
      BY <1>2, <1>3, <2>2
    <3>2. n \in hzHeard
      BY <1>1, <1>2, <3>1
    <3> QED BY <3>1, <3>2
  <2> QED BY <2>1, <2>2
<1>5. \A i \in DOMAIN hzQueue' : hzQueue'[i] \in hzHeard'
  BY <1>1, <1>2, <1>3
<1>6. QueueTyped'
  BY <1>2, <1>4, <1>5 DEF QueueTyped
<1>7. \A m \in Ops : Queued(m)' <=> Queued(m) \/ m = n
  <2>1. \A i \in DOMAIN hzQueue : i \in DOMAIN hzQueue'
    BY <1>1, <1>2
  <2>2. Len(hzQueue) + 1 \in DOMAIN hzQueue'
    BY <1>1, <1>2
  <2> QED BY <1>2, <1>3, <2>1, <2>2 DEF Queued
<1> QED BY <1>6, <1>7 DEF Awaited

(* The first record of the queue leaves it.                                  *)
LEMMA QueueShrinks ==
    ASSUME QueueTyped, NEW n, n = Head(hzQueue), hzQueue # <<>>, hzQueue' = Tail(hzQueue),
           UNCHANGED <<hzHeard, hzTwice, unHeard>>
    PROVE  /\ QueueTyped' /\ n \in Ops
           /\ Awaited(n)
           /\ n \notin hzTwice => ~Awaited(n)'
           /\ \A m \in Ops : m # n => (Awaited(m)' <=> Awaited(m))
<1>1. /\ hzQueue \in Seq(Ops) /\ Len(hzQueue) \in Nat /\ DOMAIN hzQueue = 1..Len(hzQueue)
      /\ \A i \in DOMAIN hzQueue : hzQueue[i] \in hzHeard
      /\ \A i, j \in DOMAIN hzQueue : hzQueue[i] = hzQueue[j] => i = j \/ hzQueue[i] \in hzTwice
  BY DEF QueueTyped
<1>2. hzQueue' \in Seq(Ops) /\ Len(hzQueue') = Len(hzQueue) - 1 /\ DOMAIN hzQueue' = 1..Len(hzQueue')
      /\ Len(hzQueue) > 0 /\ \A i \in 1..(Len(hzQueue) - 1) : hzQueue'[i] = hzQueue[i + 1]
  BY <1>1
<1>3. n = hzQueue[1] /\ 1 \in DOMAIN hzQueue /\ n \in Ops
  BY <1>1, <1>2
<1>4. \A i \in DOMAIN hzQueue' : /\ i \in Nat /\ i + 1 \in DOMAIN hzQueue /\ i + 1 # 1
                                 /\ hzQueue'[i] = hzQueue[i + 1]
  BY <1>1, <1>2
<1>5. \A i, j \in DOMAIN hzQueue' : hzQueue'[i] = hzQueue'[j] => i = j \/ hzQueue'[i] \in hzTwice'
  <2> SUFFICES ASSUME NEW i \in DOMAIN hzQueue', NEW j \in DOMAIN hzQueue',
                      hzQueue'[i] = hzQueue'[j], hzQueue'[i] \notin hzTwice'
               PROVE  i = j
    OBVIOUS
  <2>1. i + 1 = j + 1
    BY <1>1, <1>4
  <2> QED BY <1>4, <2>1
<1>6. QueueTyped'
  BY <1>1, <1>2, <1>4, <1>5 DEF QueueTyped
<1>7. Queued(n) /\ (n \notin hzTwice => ~Queued(n)')
  <2>1. n \notin hzTwice => \A i \in DOMAIN hzQueue' : hzQueue'[i] # n
    BY <1>1, <1>3, <1>4
  <2> QED BY <1>3, <2>1 DEF Queued
<1>8. \A m \in Ops : m # n => (Queued(m)' <=> Queued(m))
  <2> SUFFICES ASSUME NEW m \in Ops, m # n PROVE Queued(m)' <=> Queued(m)
    OBVIOUS
  <2>1. ASSUME NEW j \in DOMAIN hzQueue, hzQueue[j] = m PROVE Queued(m)'
    <3>1. j # 1 /\ j \in Nat /\ j - 1 \in 1..(Len(hzQueue) - 1) /\ (j - 1) + 1 = j
      BY <1>1, <1>3, <2>1
    <3>2. j - 1 \in DOMAIN hzQueue' /\ hzQueue'[j - 1] = m
      BY <1>2, <2>1, <3>1
    <3> QED BY <3>2 DEF Queued
  <2>2. Queued(m)' => Queued(m)
    BY <1>4 DEF Queued
  <2> QED BY <2>1, <2>2 DEF Queued
<1>9. n \in hzHeard
  BY <1>1, <1>3
<1> QED BY <1>3, <1>6, <1>7, <1>8, <1>9 DEF Awaited

(* A record of Horizon arrives.                                              *)
LEMMA HorizonKeeps ==
    ASSUME DualInv, HorizonRecord
    PROVE  WindowTyped' /\ QueueTyped' /\ \A n \in Plain' : Counted(n)'
<1>1. WindowTyped /\ QueueTyped /\ \A n \in Plain : Counted(n)
  BY DEF DualInv
<1>2. PICK n \in Ops : n = hzAt + 1
  BY DEF HorizonRecord
<1>3. UNCHANGED <<window, deliveries, forgotten, unHeard, unTwice>>
  BY DEF HorizonRecord
<1>4. CASE hzQueue' = Append(hzQueue, n) /\ hzHeard' = hzHeard \cup {n}
           /\ hzTwice' = hzTwice \cup (hzHeard \cap {n})
  <2>1. QueueTyped' /\ \A m \in Ops \ hzTwice' : Awaited(m)' <=> Awaited(m)
    BY <1>1, <1>3, <1>4, QueueGrows
  <2>2. \A m \in Plain' : m \in Plain /\ m \in Ops /\ m \notin hzTwice'
    BY <1>3, <1>4 DEF Plain
  <2>3. \A m : By(m)' = By(m) /\ Passed(m)' = Passed(m)
    BY <1>3 DEF By, Slot, Passed
  <2>4. \A m \in Plain' : Counted(m)'
    BY <1>1, <1>3, <2>1, <2>2, <2>3, CountStands
  <2> QED BY <1>1, <1>3, <2>1, <2>4 DEF WindowTyped
<1>5. CASE UNCHANGED <<hzQueue, hzHeard, hzTwice>>
  BY <1>1, <1>3, <1>5, CountsStand DEF seenVars
<1> QED BY <1>2, <1>4, <1>5 DEF HorizonRecord

(* A queued record is routed: it is the unified transport's already, or the  *)
(* first report of the operation.                                            *)
LEMMA QueuedKeeps ==
    ASSUME DualInv, RouteQueued
    PROVE  WindowTyped' /\ QueueTyped' /\ \A n \in Plain' : Counted(n)'
<1>1. WindowTyped /\ QueueTyped /\ \A m \in Plain : Counted(m)
  BY DEF DualInv
<1>2. PICK n : n = Head(hzQueue)
  OBVIOUS
<1>3. /\ hzQueue # <<>> /\ hzQueue' = Tail(hzQueue) /\ Route(n, "horizon")
      /\ UNCHANGED <<hzHeard, unHeard, hzTwice, unTwice>>
  BY <1>2 DEF RouteQueued
<1>4. /\ QueueTyped' /\ n \in Ops
      /\ Awaited(n)
      /\ n \notin hzTwice => ~Awaited(n)'
      /\ \A m \in Ops : m # n => (Awaited(m)' <=> Awaited(m))
  BY <1>1, <1>2, <1>3, QueueShrinks
<1>5. /\ window' \in Seq([key : Ops, by : SUBSET Transports])
      /\ \A i, j \in DOMAIN window' : window'[i].key = window'[j].key => i = j
      /\ \A m \in Ops \ forgotten' : m # n => By(m)' = By(m)
      /\ By(n)' = IF By(n) = {} THEN {{"horizon"}} ELSE {b \cup {"horizon"} : b \in By(n)}
      /\ SeenFrom(n, "horizon") <=> \E b \in By(n) : "horizon" \notin b
      /\ forgotten \subseteq forgotten'
      /\ deliveries' = [deliveries EXCEPT ![n] = IF SeenFrom(n, "horizon") THEN @ ELSE @ + 1]
  BY <1>1, <1>3, <1>4, RouteRemembers DEF Transports
<1>6. /\ deliveries' \in [Ops -> Nat]
      /\ \A m \in Ops : m # n => deliveries'[m] = deliveries[m]
      /\ deliveries'[n] = IF SeenFrom(n, "horizon") THEN deliveries[n] ELSE deliveries[n] + 1
  BY <1>1, <1>4, <1>5 DEF WindowTyped
<1>7. WindowTyped'
  BY <1>5, <1>6 DEF WindowTyped
<1>8. \A m : Passed(m)' = Passed(m)
  BY <1>3 DEF Passed
<1>9. \A m \in Plain' : m \in Plain /\ m \in Ops \ forgotten' /\ m \notin hzTwice
  BY <1>3, <1>5 DEF Plain
<1>10. \A m \in Plain' : m # n => Counted(m)'
  <2> SUFFICES ASSUME NEW m \in Plain', m # n PROVE Counted(m)'
    OBVIOUS
  <2>1. m \in Ops /\ Counted(m) /\ By(m)' = By(m)
    BY <1>1, <1>5, <1>9
  <2> QED BY <1>4, <1>6, <1>8, <2>1, CountStands
<1>11. ASSUME n \in Plain' PROVE Counted(n)'
  <2>1. Counted(n) /\ deliveries[n] \in Nat /\ ~Awaited(n)'
    BY <1>1, <1>4, <1>9, <1>11 DEF WindowTyped
  <2>2. CASE By(n) = {}
    <3>1. By(n)' = {{"horizon"}} /\ deliveries'[n] = 1
      BY <1>5, <1>6, <2>1, <2>2 DEF Counted
    <3>2. Passed(n)' = 0
      BY <1>8, <2>1, <2>2 DEF Counted
    <3>3. \A b \in By(n)' : b # {} /\ "horizon" \in b /\ "unified" \notin b
      BY <3>1
    <3>4. By(n)' # {}
      BY <3>1
    <3> QED BY <2>1, <3>1, <3>2, <3>3, <3>4 DEF Counted
  <2>3. CASE By(n) # {}
    <3>1. \A b \in By(n) : "horizon" \notin b /\ b # {}
      BY <1>4, <2>1 DEF Counted
    <3>2. \A b \in By(n) : "unified" \in b
      <4>1. \A b \in By(n) : b \subseteq Transports
        <5> DEFINE Entry == [key : Ops, by : SUBSET Transports]
        <5>1. window \in Seq(Entry)
          BY <1>1 DEF WindowTyped
        <5>2. \A i \in DOMAIN window : window[i] \in Entry
          <6> HIDE DEF Entry
          <6> QED BY <5>1
        <5>3. \A i \in DOMAIN window : window[i].by \subseteq Transports
          BY <5>2
        <5> QED BY <5>3 DEF By, Slot
      <4> QED BY <3>1, <4>1 DEF Transports
    <3>3. deliveries'[n] = deliveries[n]
      BY <1>5, <1>6, <2>3, <3>1
    <3>4. \A b \in By(n)' : "horizon" \in b /\ "unified" \in b
      BY <1>5, <2>3, <3>2
    <3>5. By(n)' # {}
      BY <1>5, <2>3
    <3>6. deliveries[n] >= 1 /\ deliveries[n] = Passed(n)
      BY <2>1, <2>3, <3>2 DEF Counted
    <3> QED BY <1>8, <2>1, <3>3, <3>4, <3>5, <3>6 DEF Counted
  <2> QED BY <2>2, <2>3
<1> QED BY <1>4, <1>7, <1>10, <1>11

(* A movement of the unified stream arrives: the first one of an operation   *)
(* Horizon has reported is dropped, any other delivered.                     *)
LEMMA UnifiedKeeps ==
    ASSUME DualInv, NEW r, UnifiedEvent(r)
    PROVE  WindowTyped' /\ QueueTyped' /\ \A n \in Plain' : Counted(n)'
<1>1. WindowTyped /\ QueueTyped /\ \A m \in Plain : Counted(m)
  BY DEF DualInv
<1>2. PICK u \in DOMAIN Unified : u = polls[r].cursor + 1
  BY DEF UnifiedEvent
<1>3. PICK n : n = Unified[u]
  OBVIOUS
<1>4. UNCHANGED <<hzQueue, hzHeard, hzTwice>>
  BY DEF UnifiedEvent
<1>5. CASE UNCHANGED <<window, deliveries, forgotten, unHeard, unTwice>>
  BY <1>1, <1>4, <1>5, CountsStand DEF seenVars
<1>6. CASE /\ Route(n, "unified") /\ unHeard' = unHeard \cup {u}
           /\ unTwice' = unTwice \cup {Unified[v] : v \in unHeard \cap {u}}
  <2>1. /\ n \in Ops
        /\ u \notin unHeard => Passed(n)' = Passed(n) + 1
        /\ \A m : m # n => Passed(m)' = Passed(m)
    BY <1>1, <1>3, <1>6, PassingCounts
  <2>2. \A m : Awaited(m)' <=> Awaited(m)
    BY <1>4 DEF Awaited, Queued
  <2>3. Passed(n) \in Nat /\ deliveries[n] \in Nat
    BY <1>1, <2>1, PassedCounts DEF WindowTyped
  <2>4. /\ window' \in Seq([key : Ops, by : SUBSET Transports])
        /\ \A i, j \in DOMAIN window' : window'[i].key = window'[j].key => i = j
        /\ \A m \in Ops \ forgotten' : m # n => By(m)' = By(m)
        /\ By(n)' = IF By(n) = {} THEN {{"unified"}} ELSE {b \cup {"unified"} : b \in By(n)}
        /\ SeenFrom(n, "unified") <=> \E b \in By(n) : "unified" \notin b
        /\ forgotten \subseteq forgotten'
        /\ deliveries' = [deliveries EXCEPT ![n] = IF SeenFrom(n, "unified") THEN @ ELSE @ + 1]
    BY <1>1, <1>6, <2>1, RouteRemembers DEF Transports
  <2>5. /\ deliveries' \in [Ops -> Nat]
        /\ \A m \in Ops : m # n => deliveries'[m] = deliveries[m]
        /\ deliveries'[n] = IF SeenFrom(n, "unified") THEN deliveries[n] ELSE deliveries[n] + 1
    BY <1>1, <2>1, <2>4 DEF WindowTyped
  <2>6. WindowTyped' /\ QueueTyped'
    BY <1>1, <1>4, <1>6, <2>4, <2>5 DEF WindowTyped, QueueTyped
  <2>7. \A m \in Plain' : m \in Plain /\ m \in Ops \ forgotten' /\ m \notin unTwice'
    BY <1>4, <1>6, <2>4 DEF Plain
  <2>8. \A m \in Plain' : m # n => Counted(m)'
    <3> SUFFICES ASSUME NEW m \in Plain', m # n PROVE Counted(m)'
      OBVIOUS
    <3>1. m \in Ops /\ Counted(m) /\ By(m)' = By(m)
      BY <1>1, <2>4, <2>7
    <3> QED BY <2>1, <2>2, <2>5, <3>1, CountStands
  <2>9. ASSUME n \in Plain' PROVE Counted(n)'
    <3>1. Counted(n)
      BY <1>1, <2>7, <2>9
    <3>2. u \notin unHeard
      BY <1>3, <1>6, <2>7, <2>9
    <3>3. Passed(n)' = Passed(n) + 1
      BY <2>1, <3>2
    <3>4. CASE By(n) = {}
      <4>1. By(n)' = {{"unified"}} /\ deliveries'[n] = 1
        BY <2>4, <2>5, <3>1, <3>4 DEF Counted
      <4>2. Passed(n)' = 1 /\ Awaited(n)'
        BY <2>2, <3>1, <3>3, <3>4 DEF Counted
      <4>3. \A b \in By(n)' : b # {} /\ "unified" \in b /\ "horizon" \notin b
        BY <4>1
      <4>4. By(n)' # {} /\ deliveries'[n] >= 1 /\ deliveries'[n] = Passed(n)'
        BY <4>1, <4>2
      <4> QED BY <4>2, <4>3, <4>4 DEF Counted
    <3>5. CASE By(n) # {}
      <4>1. PICK b \in By(n) : By(n) = {b}
        <5>1. PICK i \in Slot(n) : TRUE
          BY <3>5 DEF By
        <5>2. Slot(n) = {i}
          BY <1>1 DEF Slot, WindowTyped
        <5> QED BY <5>2 DEF By
      <4>2. By(n)' = {b \cup {"unified"}}
        BY <2>4, <4>1
      <4>3. "horizon" \in b <=> ~Awaited(n)'
        BY <2>2, <3>1, <4>1 DEF Counted
      <4>4. CASE "unified" \in b
        <5>1. deliveries'[n] = deliveries[n] + 1
          BY <2>4, <2>5, <4>1, <4>4
        <5>2. deliveries[n] >= 1 /\ deliveries[n] = Passed(n)
          BY <3>1, <4>1, <4>4 DEF Counted
        <5>3. deliveries'[n] >= 1 /\ deliveries'[n] = Passed(n)'
          BY <2>3, <3>3, <5>1, <5>2
        <5> QED BY <4>2, <4>3, <5>3 DEF Counted
      <4>5. CASE "unified" \notin b
        <5>1. deliveries'[n] = deliveries[n]
          BY <2>4, <2>5, <4>1, <4>5
        <5>2. deliveries[n] = 1 /\ Passed(n) = 0
          BY <3>1, <4>1, <4>5 DEF Counted
        <5>3. deliveries'[n] >= 1 /\ deliveries'[n] = Passed(n)'
          BY <3>3, <5>1, <5>2
        <5> QED BY <4>2, <4>3, <5>3 DEF Counted
      <4> QED BY <4>4, <4>5
    <3> QED BY <3>4, <3>5
  <2> QED BY <2>6, <2>8, <2>9
<1> QED BY <1>2, <1>3, <1>5, <1>6 DEF UnifiedEvent

(* The cursors are numbers, and so are the positions reported.               *)
LEMMA CursorFacts ==
    ASSUME PollTyped, QueueTyped
    PROVE  /\ unStored \in Nat /\ unWrites \in Seq(Nat) /\ Len(unWrites) \in Nat
           /\ DOMAIN unWrites = 1..Len(unWrites) /\ \A i \in DOMAIN unWrites : unWrites[i] \in Nat
           /\ unWrites = <<>> <=> Len(unWrites) = 0
           /\ \A r \in 1..MaxRuns : polls[r].cursor \in Nat
           /\ \A u \in unHeard : u \in Nat /\ u >= 1
<1>1. unStored \in Nat /\ unWrites \in Seq(Nat)
  BY DEF PollTyped
<1>2. \A r \in 1..MaxRuns : polls[r] \in Poll
  BY DEF PollTyped
<1>3. \A r \in 1..MaxRuns : polls[r].cursor \in Nat
  BY <1>2 DEF Poll
<1>4. \A u \in unHeard : u \in Nat /\ u >= 1
  <2>1. DOMAIN Unified = 1..Len(Unified) /\ Len(Unified) \in Nat
    BY DualAssumption
  <2> QED BY <2>1 DEF QueueTyped
<1> QED BY <1>1, <1>3, <1>4

(* The cursor of an event is queued behind the others.                       *)
LEMMA CursorQueued ==
    ASSUME PollTyped, QueueTyped, NEW u \in Nat, unWrites' = Append(unWrites, u)
    PROVE  /\ unWrites' \in Seq(Nat) /\ unWrites' # <<>> /\ unWrites'[Len(unWrites')] = u
           /\ DOMAIN unWrites' \subseteq Nat
           /\ \A i \in DOMAIN unWrites' :
                 \/ i \in DOMAIN unWrites /\ unWrites'[i] = unWrites[i]
                 \/ i = Len(unWrites) + 1 /\ unWrites'[i] = u
           /\ Len(unWrites) \in Nat /\ \A i \in DOMAIN unWrites : i \in Nat /\ i < Len(unWrites) + 1
<1>1. unWrites \in Seq(Nat) /\ Len(unWrites) \in Nat /\ DOMAIN unWrites = 1..Len(unWrites)
  BY CursorFacts
<1>2. unWrites' \in Seq(Nat) /\ Len(unWrites') = Len(unWrites) + 1
      /\ DOMAIN unWrites' = 1..Len(unWrites')
      /\ unWrites'[Len(unWrites) + 1] = u /\ \A i \in DOMAIN unWrites : unWrites'[i] = unWrites[i]
  BY <1>1
<1>3. \A i \in DOMAIN unWrites' : i \in Nat /\ (i \in DOMAIN unWrites \/ i = Len(unWrites) + 1)
  BY <1>1, <1>2
<1>4. unWrites' # <<>>
  BY <1>1, <1>2
<1> QED BY <1>1, <1>2, <1>3, <1>4

(* The oldest cursor leaves the queue.                                       *)
LEMMA WriteTaken ==
    ASSUME PollTyped, QueueTyped, unWrites # <<>>, unWrites' = RemoveAt(unWrites, 1)
    PROVE  /\ unWrites' \in Seq(Nat) /\ Len(unWrites') = Len(unWrites) - 1
           /\ 1 \in DOMAIN unWrites /\ Len(unWrites) \in DOMAIN unWrites
           /\ unWrites' = <<>> => Len(unWrites) = 1
           /\ unWrites' # <<>> => unWrites'[Len(unWrites')] = unWrites[Len(unWrites)]
           /\ \A j \in DOMAIN unWrites' : /\ j \in Nat /\ j + 1 \in DOMAIN unWrites /\ 1 < j + 1
                                          /\ unWrites'[j] = unWrites[j + 1]
<1>1. unWrites \in Seq(Nat) /\ Len(unWrites) \in Nat
      /\ DOMAIN unWrites = 1..Len(unWrites) /\ Len(unWrites) > 0
  BY CursorFacts
<1>2. SubSeq(unWrites, 1, 0) = <<>>
  BY SubSeqEmpty
<1>3. SubSeq(unWrites, 2, Len(unWrites)) \in Seq(Nat)
      /\ Len(SubSeq(unWrites, 2, Len(unWrites))) = Len(unWrites) - 1
      /\ \A j \in 1..(Len(unWrites) - 1) :
            SubSeq(unWrites, 2, Len(unWrites))[j] = unWrites[j + 1]
  <2>1. unWrites # <<>> /\ Tail(unWrites) = SubSeq(unWrites, 2, Len(unWrites))
    BY <1>1, TailIsSubSeq
  <2>2. Tail(unWrites) \in Seq(Nat) /\ Len(Tail(unWrites)) = Len(unWrites) - 1
        /\ \A j \in 1..(Len(unWrites) - 1) : Tail(unWrites)[j] = unWrites[j + 1]
    BY <1>1, <2>1
  <2> QED BY <2>1, <2>2
<1>4. unWrites' = <<>> \o SubSeq(unWrites, 2, Len(unWrites))
  BY <1>2 DEF RemoveAt
<1>5. unWrites' = SubSeq(unWrites, 2, Len(unWrites))
  BY <1>3, <1>4
<1>6. unWrites' \in Seq(Nat) /\ Len(unWrites') = Len(unWrites) - 1
      /\ \A j \in 1..(Len(unWrites) - 1) : unWrites'[j] = unWrites[j + 1]
  BY <1>3, <1>5
<1>7. DOMAIN unWrites' = 1..(Len(unWrites) - 1)
  BY <1>6
<1>8. \A j \in 1..(Len(unWrites) - 1) : j \in Nat /\ j + 1 \in 1..Len(unWrites) /\ 1 < j + 1
  BY <1>1
<1>9. ASSUME unWrites' = <<>> PROVE Len(unWrites) = 1
  <2>1. Len(unWrites') = 0
    BY <1>9
  <2> QED BY <1>1, <1>6, <2>1
<1>10. ASSUME unWrites' # <<>> PROVE unWrites'[Len(unWrites')] = unWrites[Len(unWrites)]
  <2>1. Len(unWrites') # 0
    <3>1. unWrites' \in Seq(Nat)
      BY <1>6
    <3> QED BY <1>10, <3>1
  <2>2. Len(unWrites') = Len(unWrites) - 1 /\ Len(unWrites) \in Nat /\ Len(unWrites) > 0
    BY <1>1, <1>6
  <2>3. Len(unWrites') \in 1..(Len(unWrites) - 1) /\ Len(unWrites') + 1 = Len(unWrites)
    BY <2>1, <2>2
  <2> QED BY <1>6, <2>3
<1>11. 1 \in DOMAIN unWrites /\ Len(unWrites) \in DOMAIN unWrites
  BY <1>1
<1>12. \A j \in DOMAIN unWrites' : /\ j \in Nat /\ j + 1 \in DOMAIN unWrites /\ 1 < j + 1
                                   /\ unWrites'[j] = unWrites[j + 1]
  BY <1>1, <1>6, <1>7, <1>8
<1> QED BY <1>6, <1>9, <1>10, <1>11, <1>12

(* What each step does to the pollers, as far as the cursors go by it.       *)
LEMMA PollersMove ==
    ASSUME PollTyped, QueueTyped, DualNext
    PROVE  PollTyped' /\ lapses \subseteq lapses'
<1>1. CASE HorizonRecord \/ RouteQueued \/ StartEngine \/ HorizonGivesUp
  <2>1. UNCHANGED <<polls, pollPromise, unStored, unWrites, stopCall>>
        /\ lapses \subseteq lapses' /\ runs' \in 0..MaxRuns
    BY <1>1, DualAssumption DEF HorizonRecord, RouteQueued, StartEngine, HorizonGivesUp, pollVars, PollTyped
  <2> QED BY <2>1 DEF PollTyped
<1>2. CASE \E r \in 1..MaxRuns : CursorRead(r) \/ PollerEnds(r)
  <2>1. PICK r \in 1..MaxRuns : CursorRead(r) \/ PollerEnds(r)
    BY <1>2
  <2>2. polls[r] \in Poll
    BY DEF PollTyped
  <2>3. UNCHANGED <<pollPromise, runs, unStored, unWrites, stopCall>> /\ lapses \subseteq lapses'
    BY <2>1 DEF CursorRead, PollerEnds, Ended
  <2>4. polls' = [polls EXCEPT ![r].at = "ended"]
        \/ \E c \in 0..Len(Unified) : polls' = [polls EXCEPT ![r].at = "polling", ![r].cursor = c]
    BY <2>1 DEF CursorRead, PollerEnds, Ended
  <2>5. polls' \in [1..MaxRuns -> Poll]
    <3>1. CASE polls' = [polls EXCEPT ![r].at = "ended"]
      BY <2>2, <3>1 DEF PollTyped, Poll
    <3>2. CASE \E c \in 0..Len(Unified) : polls' = [polls EXCEPT ![r].at = "polling", ![r].cursor = c]
      <4>1. PICK c \in 0..Len(Unified) : polls' = [polls EXCEPT ![r].at = "polling", ![r].cursor = c]
        BY <3>2
      <4>2. [polls[r] EXCEPT !.at = "polling", !.cursor = c] \in Poll
        BY <2>2 DEF Poll
      <4>3. polls' = [polls EXCEPT ![r] = [polls[r] EXCEPT !.at = "polling", !.cursor = c]]
        BY <4>1
      <4> QED BY <4>2, <4>3 DEF PollTyped
    <3> QED BY <2>4, <3>1, <3>2
  <2> QED BY <2>3, <2>5 DEF PollTyped
<1>3. CASE \E r \in 1..MaxRuns : UnifiedEvent(r)
  <2>1. PICK r \in 1..MaxRuns : UnifiedEvent(r)
    BY <1>3
  <2>2. polls[r] \in Poll /\ polls[r].cursor \in Nat
    BY CursorFacts DEF PollTyped
  <2>3. PICK u : u = polls[r].cursor + 1
    OBVIOUS
  <2>4. u \in 0..Len(Unified) /\ u \in Nat
    <3>1. u \in DOMAIN Unified
      BY <2>1, <2>3 DEF UnifiedEvent
    <3>2. DOMAIN Unified = 1..Len(Unified) /\ Len(Unified) \in Nat
      BY DualAssumption
    <3> QED BY <3>1, <3>2
  <2>5. polls' = [polls EXCEPT ![r].cursor = u,
                               ![r].at = IF polls[r].aborted THEN "ended" ELSE @]
        /\ UNCHANGED <<pollPromise, runs, unStored, stopCall, lapses>> /\ unWrites' = Append(unWrites, u)
    BY <2>1, <2>3 DEF UnifiedEvent
  <2>6. polls' \in [1..MaxRuns -> Poll]
    BY <2>2, <2>4, <2>5 DEF PollTyped, Poll
  <2>7. unWrites' \in Seq(Nat)
    BY <2>4, <2>5, CursorQueued
  <2> QED BY <2>5, <2>6, <2>7 DEF PollTyped
<1>4. CASE \E i \in DOMAIN unWrites : CursorWritten(i)
  <2>1. /\ unWrites # <<>> /\ unWrites' = RemoveAt(unWrites, 1)
        /\ unStored' = unStored \/ unStored' = unWrites[1]
        /\ stopCall' = [stopCall EXCEPT !.left = IF @ > 0 THEN @ - 1 ELSE 0]
        /\ UNCHANGED <<polls, pollPromise, runs>> /\ lapses \subseteq lapses'
    BY <1>4 DEF CursorWritten, Write, pollVars
  <2>2. unWrites' \in Seq(Nat) /\ 1 \in DOMAIN unWrites
    BY <2>1, WriteTaken
  <2>3. unStored' \in Nat
    BY <2>1, <2>2, CursorFacts
  <2>4. stopCall' \in [at : {"no", "subscriber", "poller", "writes"}, of : 0..MaxRuns, left : Nat]
    BY <2>1 DEF PollTyped
  <2> QED BY <2>1, <2>2, <2>3, <2>4 DEF PollTyped
<1>5. CASE NetworkVerified
  <2>1. UNCHANGED <<runs, unStored, unWrites, stopCall, lapses>>
    BY <1>5 DEF NetworkVerified
  <2>2. CASE UNCHANGED pollVars
    BY <2>1, <2>2 DEF PollTyped, pollVars
  <2>3. CASE polls' = [polls EXCEPT ![runs].at = "reading"] /\ pollPromise' = runs
    <3>1. runs \in 1..MaxRuns => polls[runs] \in Poll
      BY DEF PollTyped
    <3>2. polls' \in [1..MaxRuns -> Poll]
      BY <2>3, <3>1 DEF PollTyped, Poll
    <3> QED BY <2>1, <2>3, <3>2, DualAssumption DEF PollTyped
  <2> QED BY <1>5, <2>2, <2>3 DEF NetworkVerified
<1>6. CASE BeginStop \/ StopAborts \/ StopFlushes \/ StopEnds
  <2>1. UNCHANGED <<runs, unStored, unWrites, lapses>>
    BY <1>6 DEF BeginStop, StopAborts, StopFlushes, StopEnds, pollVars
  <2>2. Len(unWrites) \in Nat
    BY CursorFacts
  <2>3. stopCall' \in [at : {"no", "subscriber", "poller", "writes"}, of : 0..MaxRuns, left : Nat]
    <3>1. 0 \in 0..MaxRuns
      BY DualAssumption
    <3>2. stopCall' \in {[at |-> "subscriber", of |-> 0, left |-> 0],
                         [at |-> "poller", of |-> pollPromise, left |-> 0],
                         [at |-> "writes", of |-> 0, left |-> Len(unWrites)],
                         [stopCall EXCEPT !.at = "no"]}
      BY <1>6 DEF BeginStop, StopAborts, StopFlushes, StopEnds
    <3> QED BY <2>2, <3>1, <3>2 DEF PollTyped
  <2>4. pollPromise' \in 0..MaxRuns
    BY <1>6, DualAssumption DEF BeginStop, StopAborts, StopFlushes, StopEnds, PollTyped, pollVars
  <2>5. polls' \in [1..MaxRuns -> Poll]
    <3>1. CASE StopAborts
      <4>1. \A r \in 1..MaxRuns : polls[r] \in Poll /\ [polls[r] EXCEPT !.aborted = TRUE] \in Poll
        BY DEF PollTyped, Poll
      <4>2. polls' = [r \in 1..MaxRuns |->
                        IF r = controller THEN [polls[r] EXCEPT !.aborted = TRUE] ELSE polls[r]]
        BY <3>1 DEF StopAborts, PollTyped
      <4> QED BY <4>1, <4>2
    <3>2. CASE polls' = polls
      BY <3>2 DEF PollTyped
    <3> QED BY <1>6, <3>1, <3>2 DEF BeginStop, StopFlushes, StopEnds, pollVars
  <2> QED BY <2>1, <2>3, <2>4, <2>5 DEF PollTyped
<1> QED BY <1>1, <1>2, <1>3, <1>4, <1>5, <1>6 DEF DualNext

(* The cursors stay in order, step by step.                                  *)
LEMMA CursorsKeep ==
    ASSUME DualInv, DualNext, Orderly'
    PROVE  CursorsInOrder' /\ unStored' >= unStored
<1>1. PollTyped /\ QueueTyped /\ PollTyped' /\ lapses \subseteq lapses'
  BY PollersMove DEF DualInv
<1>2. Orderly /\ CursorsInOrder
  BY <1>1 DEF Orderly, DualInv
<1>3. /\ unStored \in Nat /\ \A i \in DOMAIN unWrites : i \in Nat /\ unWrites[i] \in Nat
      /\ Len(unWrites) \in Nat /\ (unWrites = <<>> <=> Len(unWrites) = 0)
      /\ \A r \in 1..MaxRuns : polls[r].cursor \in Nat
  BY <1>1, CursorFacts
<1>4. polls \in [1..MaxRuns -> Poll] /\ pollPromise \in 0..MaxRuns
  BY <1>1 DEF PollTyped
<1>5. CASE HorizonRecord \/ RouteQueued
  <2>1. UNCHANGED <<engine, verifying, polls, pollPromise, stopCall, unWrites, unStored>>
    BY <1>5 DEF HorizonRecord, RouteQueued, pollVars
  <2> QED BY <1>2, <1>3, <2>1 DEF CursorsInOrder, Alive
<1>6. CASE StartEngine \/ HorizonGivesUp \/ BeginStop
  <2>1. UNCHANGED <<polls, pollPromise, unWrites, unStored>>
    BY <1>6 DEF StartEngine, HorizonGivesUp, BeginStop, pollVars
  <2>2. CASE StartEngine
    <3>1. engine = "off" /\ stopCall.at = "no"
      BY <2>2 DEF StartEngine, Orderly
    <3>2. stopCall' = stopCall /\ engine' = "on"
      BY <2>2 DEF StartEngine
    <3>3. unWrites = <<>> /\ \A r \in 1..MaxRuns : ~Alive(r) /\ ~Alive(r)'
      BY <1>2, <2>1, <3>1 DEF CursorsInOrder, Alive
    <3> QED BY <1>3, <2>1, <3>1, <3>2, <3>3 DEF CursorsInOrder
  <2>3. CASE HorizonGivesUp
    <3>1. engine # "off" /\ engine' # "off" /\ UNCHANGED <<verifying, stopCall>>
      BY <2>3 DEF HorizonGivesUp
    <3> QED BY <1>2, <1>3, <2>1, <3>1 DEF CursorsInOrder, Alive
  <2>4. CASE BeginStop
    <3>1. engine' = "off" /\ verifying' = FALSE /\ stopCall'.at = "subscriber"
      BY <2>4 DEF BeginStop
    <3> QED BY <1>2, <1>3, <2>1, <3>1 DEF CursorsInOrder, Alive
  <2> QED BY <1>6, <2>2, <2>3, <2>4
<1>7. CASE \E r \in 1..MaxRuns : CursorRead(r)
  <2>1. PICK r \in 1..MaxRuns : CursorRead(r)
    BY <1>7
  <2>2. polls[r].at = "reading" /\ Alive(r) /\ unWrites = <<>>
        /\ UNCHANGED <<engine, verifying, pollPromise, stopCall, unWrites, unStored>>
    BY <1>2, <2>1 DEF CursorRead, CursorsInOrder, Alive
  <2>3. \A q \in 1..MaxRuns : q # r => polls'[q] = polls[q]
    BY <1>4, <2>1 DEF CursorRead, Ended
  <2>4. polls'[r].at = "ended" \/ (polls'[r].at = "polling" /\ unStored <= polls'[r].cursor)
    <3>1. CASE Ended(r)
      BY <1>4, <3>1 DEF Ended, Poll
    <3>2. CASE \E c \in 0..Len(Unified) :
                 /\ polls' = [polls EXCEPT ![r].at = "polling", ![r].cursor = c]
                 /\ c = unStored \/ unStored = 0
      <4>1. PICK c \in 0..Len(Unified) :
                 /\ polls' = [polls EXCEPT ![r].at = "polling", ![r].cursor = c]
                 /\ c = unStored \/ unStored = 0
        BY <3>2
      <4>2. polls[r] \in Poll
        BY <1>4
      <4>3. polls'[r] = [polls[r] EXCEPT !.at = "polling", !.cursor = c]
        BY <1>4, <4>1
      <4>4. polls'[r].at = "polling" /\ polls'[r].cursor = c
        BY <4>2, <4>3 DEF Poll
      <4>5. unStored <= c
        BY <1>3, <4>1, DualAssumption
      <4> QED BY <4>4, <4>5
    <3> QED BY <2>1, <3>1, <3>2 DEF CursorRead, Orderly
  <2>5. \A q \in 1..MaxRuns : Alive(q)' => Alive(q)
    BY <2>2, <2>3 DEF Alive
  <2> QED BY <1>2, <1>3, <2>2, <2>3, <2>4, <2>5 DEF CursorsInOrder
<1>8. CASE \E r \in 1..MaxRuns : PollerEnds(r)
  <2>1. PICK r \in 1..MaxRuns : PollerEnds(r)
    BY <1>8
  <2>2. UNCHANGED <<engine, verifying, pollPromise, stopCall, unWrites, unStored>>
    BY <2>1 DEF PollerEnds
  <2>3. \A q \in 1..MaxRuns : polls'[q] = polls[q] \/ polls'[q].at = "ended"
    BY <1>4, <2>1 DEF PollerEnds, Ended, Poll
  <2>4. \A q \in 1..MaxRuns : Alive(q)' => Alive(q) /\ polls'[q] = polls[q]
    BY <2>3 DEF Alive
  <2> QED BY <1>2, <1>3, <2>2, <2>4 DEF CursorsInOrder, Alive
<1>9. CASE \E r \in 1..MaxRuns : UnifiedEvent(r)
  <2>1. PICK r \in 1..MaxRuns : UnifiedEvent(r)
    BY <1>9
  <2>2. PICK u \in Nat : u = polls[r].cursor + 1
    BY <1>3
  <2>3. /\ polls[r].at = "polling" /\ Alive(r) /\ unWrites' = Append(unWrites, u)
        /\ polls' = [polls EXCEPT ![r].cursor = u,
                                  ![r].at = IF polls[r].aborted THEN "ended" ELSE @]
        /\ UNCHANGED <<engine, verifying, pollPromise, stopCall, unStored>>
    BY <2>1, <2>2 DEF UnifiedEvent, Alive
  <2>4. /\ unWrites' # <<>> /\ DOMAIN unWrites' \subseteq Nat
        /\ \A i \in DOMAIN unWrites' :
              \/ i \in DOMAIN unWrites /\ unWrites'[i] = unWrites[i]
              \/ i = Len(unWrites) + 1 /\ unWrites'[i] = u
        /\ \A i \in DOMAIN unWrites : i \in Nat /\ i < Len(unWrites) + 1
    BY <1>1, <2>3, CursorQueued
  <2>5. /\ \A q \in 1..MaxRuns : q # r => polls'[q] = polls[q] /\ ~Alive(q)
        /\ polls'[r].cursor = u /\ polls'[r].at \in {"polling", "ended"}
    <3>1. \A q \in 1..MaxRuns : q # r => polls'[q] = polls[q] /\ ~Alive(q)
      BY <1>2, <1>4, <2>3 DEF CursorsInOrder
    <3>2. polls'[r] = [polls[r] EXCEPT !.cursor = u, !.at = IF polls[r].aborted THEN "ended" ELSE @]
      BY <1>4, <2>3
    <3>3. polls[r] \in Poll
      BY <1>4
    <3>4. polls'[r].cursor = u /\ polls'[r].at \in {"polling", "ended"}
      BY <2>3, <3>2, <3>3 DEF Poll
    <3> QED BY <3>1, <3>4
  <2>6. unStored <= u /\ \A i \in DOMAIN unWrites : unWrites[i] <= u
    <3>1. /\ unStored <= polls[r].cursor
          /\ \A i \in DOMAIN unWrites : unWrites[i] <= polls[r].cursor
      BY <1>2, <2>3 DEF CursorsInOrder
    <3>2. polls[r].cursor \in Nat
      BY <1>3
    <3>3. \A x \in Nat : x <= polls[r].cursor => x <= u
      BY <2>2, <3>2
    <3> QED BY <1>3, <3>1, <3>3
  <2>7. \A i \in DOMAIN unWrites' : unStored' <= unWrites'[i] /\ unWrites'[i] <= u
    BY <1>2, <2>2, <2>3, <2>4, <2>6 DEF CursorsInOrder
  <2>8. \A i, j \in DOMAIN unWrites' : i < j => unWrites'[i] <= unWrites'[j]
    <3> SUFFICES ASSUME NEW i \in DOMAIN unWrites', NEW j \in DOMAIN unWrites', i < j
                 PROVE  unWrites'[i] <= unWrites'[j]
      OBVIOUS
    <3>1. CASE unWrites'[j] = u
      BY <2>7, <3>1
    <3>2. CASE unWrites'[j] # u
      <4>1. j \in DOMAIN unWrites /\ unWrites'[j] = unWrites[j] /\ j < Len(unWrites) + 1
        BY <2>4, <3>2
      <4>2. i \in DOMAIN unWrites /\ unWrites'[i] = unWrites[i]
        BY <1>3, <2>4, <4>1
      <4> QED BY <1>2, <4>1, <4>2 DEF CursorsInOrder
    <3> QED BY <3>1, <3>2
  <2>9. ~verifying /\ ~(engine = "off" /\ stopCall.at = "no") /\ stopCall.at # "writes"
    BY <1>2, <2>3 DEF CursorsInOrder
  <2>10. \A q \in 1..MaxRuns : Alive(q)' => /\ q = r /\ q = pollPromise' /\ polls'[q].at = "polling"
                                            /\ stopCall'.at = "poller" => stopCall'.of = q
    BY <1>2, <2>3, <2>5 DEF CursorsInOrder, Alive
  <2>11. unStored' <= polls'[r].cursor /\ \A i \in DOMAIN unWrites' : unWrites'[i] <= polls'[r].cursor
    BY <2>3, <2>5, <2>6, <2>7
  <2>12. unStored' >= unStored
    BY <1>3, <2>3
  <2>13. (engine # "off" => stopCall.at = "no") /\ (verifying => engine # "off")
    BY <1>2 DEF CursorsInOrder
  <2> QED BY <2>3, <2>7, <2>8, <2>9, <2>10, <2>11, <2>12, <2>13 DEF CursorsInOrder
<1>10. CASE \E i \in DOMAIN unWrites : CursorWritten(i)
  <2>1. /\ unWrites # <<>> /\ unWrites' = RemoveAt(unWrites, 1)
        /\ unStored' = unStored \/ unStored' = unWrites[1]
        /\ stopCall' = [stopCall EXCEPT !.left = IF @ > 0 THEN @ - 1 ELSE 0]
        /\ UNCHANGED <<engine, verifying, polls, pollPromise>>
    BY <1>10 DEF CursorWritten, Write, pollVars
  <2>2. /\ unWrites' \in Seq(Nat) /\ Len(unWrites') = Len(unWrites) - 1
        /\ 1 \in DOMAIN unWrites
        /\ \A j \in DOMAIN unWrites' : /\ j \in Nat /\ j + 1 \in DOMAIN unWrites /\ 1 < j + 1
                                       /\ unWrites'[j] = unWrites[j + 1]
    BY <1>1, <2>1, WriteTaken
  <2>3. unStored' >= unStored /\ unStored' \in Nat
    BY <1>2, <1>3, <2>1, <2>2 DEF CursorsInOrder
  <2>4. \A j \in DOMAIN unWrites' : unStored' <= unWrites'[j]
    BY <1>2, <2>1, <2>2 DEF CursorsInOrder
  <2>5. \A j, k \in DOMAIN unWrites' : j < k => unWrites'[j] <= unWrites'[k]
    <3> SUFFICES ASSUME NEW j \in DOMAIN unWrites', NEW k \in DOMAIN unWrites', j < k
                 PROVE  unWrites'[j] <= unWrites'[k]
      OBVIOUS
    <3>1. j + 1 < k + 1 /\ j + 1 \in DOMAIN unWrites /\ k + 1 \in DOMAIN unWrites
      BY <2>2
    <3> QED BY <1>2, <2>2, <3>1 DEF CursorsInOrder
  <2>6. /\ stopCall'.at = stopCall.at /\ stopCall'.of = stopCall.of
        /\ stopCall.left = Len(unWrites) => stopCall'.left = Len(unWrites')
    BY <1>1, <1>3, <2>1, <2>2 DEF PollTyped
  <2>7. \A r \in 1..MaxRuns : polls[r].at = "polling" =>
           unStored' <= polls[r].cursor /\ \A j \in DOMAIN unWrites' : unWrites'[j] <= polls[r].cursor
    <3> SUFFICES ASSUME NEW r \in 1..MaxRuns, polls[r].at = "polling"
                 PROVE  /\ unStored' <= polls[r].cursor
                        /\ \A j \in DOMAIN unWrites' : unWrites'[j] <= polls[r].cursor
      OBVIOUS
    <3>1. unStored <= polls[r].cursor /\ \A i \in DOMAIN unWrites : unWrites[i] <= polls[r].cursor
      BY <1>2 DEF CursorsInOrder, Alive
    <3> QED BY <2>1, <2>2, <3>1
  <2>8. ~verifying /\ ~(engine = "off" /\ stopCall.at = "no")
        /\ \A r \in 1..MaxRuns : polls[r].at # "reading"
    BY <1>2, <2>1 DEF CursorsInOrder, Alive
  <2> QED BY <1>2, <2>1, <2>3, <2>4, <2>5, <2>6, <2>7, <2>8 DEF CursorsInOrder, Alive
<1>11. CASE NetworkVerified
  <2>1. /\ verifying /\ verifying' = FALSE
        /\ UNCHANGED <<engine, stopCall, unWrites, unStored>>
    BY <1>11 DEF NetworkVerified
  <2>2. engine # "off" /\ stopCall.at = "no" /\ unWrites = <<>> /\ \A r \in 1..MaxRuns : ~Alive(r)
    BY <1>2, <2>1 DEF CursorsInOrder
  <2>3. DOMAIN unWrites = {}
    BY <2>2
  <2>4. \A r \in 1..MaxRuns : Alive(r)' => r = pollPromise' /\ polls'[r].at = "reading"
    <3>1. CASE UNCHANGED pollVars
      BY <2>2, <3>1 DEF pollVars, Alive
    <3>2. CASE polls' = [polls EXCEPT ![runs].at = "reading"] /\ pollPromise' = runs
      <4> SUFFICES ASSUME NEW r \in 1..MaxRuns, Alive(r)'
                   PROVE  r = pollPromise' /\ polls'[r].at = "reading"
        OBVIOUS
      <4>1. polls[r] \in Poll
        BY <1>4
      <4>2. r = runs
        BY <1>4, <2>2, <3>2 DEF Alive
      <4>3. polls'[r] = [polls[r] EXCEPT !.at = "reading"]
        BY <1>4, <3>2, <4>2
      <4>4. polls'[r].at = "reading"
        BY <4>1, <4>3 DEF Poll
      <4> QED BY <3>2, <4>2, <4>4
    <3> QED BY <1>11, <3>1, <3>2 DEF NetworkVerified
  <2> QED BY <1>3, <2>1, <2>2, <2>3, <2>4 DEF CursorsInOrder
<1>12. CASE StopAborts
  <2>1. /\ stopCall.at = "subscriber" /\ stopCall' = [at |-> "poller", of |-> pollPromise, left |-> 0]
        /\ UNCHANGED <<engine, verifying, pollPromise, unWrites, unStored>>
    BY <1>12 DEF StopAborts
  <2>2. \A r \in 1..MaxRuns : polls'[r].at = polls[r].at /\ polls'[r].cursor = polls[r].cursor
    <3> SUFFICES ASSUME NEW r \in 1..MaxRuns
                 PROVE  polls'[r].at = polls[r].at /\ polls'[r].cursor = polls[r].cursor
      OBVIOUS
    <3>1. polls[r] \in Poll
      BY <1>4
    <3>2. polls'[r] = polls[r] \/ polls'[r] = [polls[r] EXCEPT !.aborted = TRUE]
      BY <1>4, <1>12 DEF StopAborts
    <3> QED BY <3>1, <3>2 DEF Poll
  <2>3. stopCall'.at = "poller" /\ stopCall'.of = pollPromise
    BY <2>1
  <2> QED BY <1>2, <1>3, <2>1, <2>2, <2>3 DEF CursorsInOrder, Alive
<1>13. CASE StopFlushes
  <2>1. /\ stopCall.at = "poller" /\ stopCall' = [at |-> "writes", of |-> 0, left |-> Len(unWrites)]
        /\ stopCall.of # 0 => polls[stopCall.of].at = "ended"
        /\ UNCHANGED <<engine, verifying, polls, unWrites, unStored>>
    BY <1>13 DEF StopFlushes
  <2>2. \A r \in 1..MaxRuns : ~Alive(r)
    BY <1>2, <2>1 DEF CursorsInOrder, Alive
  <2>3. stopCall'.at = "writes" /\ stopCall'.left = Len(unWrites)
    BY <2>1
  <2> QED BY <1>2, <1>3, <2>1, <2>2, <2>3 DEF CursorsInOrder, Alive
<1>14. CASE StopEnds
  <2>1. /\ stopCall.at = "writes" /\ stopCall.left = 0 /\ stopCall' = [stopCall EXCEPT !.at = "no"]
        /\ UNCHANGED <<engine, verifying, polls, pollPromise, unWrites, unStored>>
    BY <1>14 DEF StopEnds
  <2>2. unWrites = <<>> /\ \A r \in 1..MaxRuns : ~Alive(r)
    BY <1>2, <1>3, <2>1 DEF CursorsInOrder
  <2>3. stopCall'.at = "no"
    BY <1>1, <2>1 DEF PollTyped
  <2> QED BY <1>2, <1>3, <2>1, <2>2, <2>3 DEF CursorsInOrder, Alive
<1> QED BY <1>5, <1>6, <1>7, <1>8, <1>9, <1>10, <1>11, <1>12, <1>13, <1>14 DEF DualNext

(* With every cursor read and written in turn, nothing is reported again.    *)
LEMMA HeardKeeps ==
    ASSUME DualInv, DualNext, lapses' = {}
    PROVE  HeardBefore'
<1>1. PollTyped /\ QueueTyped /\ lapses = {} /\ Orderly /\ HeardBefore /\ CursorsInOrder
  BY PollersMove DEF DualInv, Orderly
<1>2. /\ unStored \in Nat /\ Len(unWrites) \in Nat
      /\ \A r \in 1..MaxRuns : polls[r].cursor \in Nat
      /\ \A u \in unHeard : u \in Nat /\ u >= 1
      /\ \A i \in DOMAIN unWrites : unWrites[i] \in Nat
  BY <1>1, CursorFacts
<1>3. polls \in [1..MaxRuns -> Poll]
  BY <1>1 DEF PollTyped
<1>4. CASE \E r \in 1..MaxRuns : CursorRead(r)
  <2>1. PICK r \in 1..MaxRuns : CursorRead(r)
    BY <1>4
  <2>2. unWrites = <<>> /\ UNCHANGED <<unWrites, unStored, unHeard, unTwice>>
    BY <1>1, <2>1 DEF CursorRead, CursorsInOrder, Alive, seenVars
  <2>3. \A q \in 1..MaxRuns : q # r => polls'[q] = polls[q]
    BY <1>3, <2>1 DEF CursorRead, Ended
  <2>4. \A u \in unHeard : u <= unStored
    BY <1>1, <2>2 DEF HeardBefore
  <2>5. polls'[r].at = "polling" => \A u \in unHeard : u <= polls'[r].cursor
    <3>1. polls[r] \in Poll
      BY <1>3
    <3>2. CASE Ended(r)
      <4>1. polls'[r] = [polls[r] EXCEPT !.at = "ended"]
        BY <1>3, <3>2 DEF Ended
      <4> QED BY <3>1, <4>1 DEF Poll
    <3>3. CASE \E c \in 0..Len(Unified) :
                 /\ polls' = [polls EXCEPT ![r].at = "polling", ![r].cursor = c]
                 /\ c = unStored \/ unStored = 0
      <4>1. PICK c \in 0..Len(Unified) :
                 /\ polls' = [polls EXCEPT ![r].at = "polling", ![r].cursor = c]
                 /\ c = unStored \/ unStored = 0
        BY <3>3
      <4>2. polls'[r] = [polls[r] EXCEPT !.at = "polling", !.cursor = c]
        BY <1>3, <4>1
      <4>3. polls'[r].cursor = c
        BY <3>1, <4>2 DEF Poll
      <4>4. unStored = 0 => unHeard = {}
        BY <1>2, <2>4
      <4> QED BY <2>4, <4>1, <4>3, <4>4
    <3> QED BY <2>1, <3>2, <3>3 DEF CursorRead
  <2> QED BY <1>1, <2>2, <2>3, <2>5 DEF HeardBefore
<1>5. CASE \E r \in 1..MaxRuns : UnifiedEvent(r)
  <2>1. PICK r \in 1..MaxRuns : UnifiedEvent(r)
    BY <1>5
  <2>2. PICK u \in Nat : u = polls[r].cursor + 1
    BY <1>2
  <2>3. /\ polls[r].at = "polling" /\ unWrites' = Append(unWrites, u)
        /\ polls' = [polls EXCEPT ![r].cursor = u,
                                  ![r].at = IF polls[r].aborted THEN "ended" ELSE @]
        /\ \/ UNCHANGED <<unHeard, unTwice>>
           \/ /\ unHeard' = unHeard \cup {u}
              /\ unTwice' = unTwice \cup {Unified[v] : v \in unHeard \cap {u}}
    BY <2>1, <2>2 DEF UnifiedEvent
  <2>4. \A v \in unHeard : v <= polls[r].cursor
    BY <1>1, <2>3 DEF HeardBefore
  <2>5. u \notin unHeard /\ \A v \in unHeard' : v <= u
    BY <1>2, <2>2, <2>3, <2>4
  <2>6. unTwice' = {}
    BY <1>1, <2>3, <2>5 DEF HeardBefore
  <2>7. unWrites' # <<>> /\ unWrites'[Len(unWrites')] = u
    BY <1>1, <2>3, CursorQueued
  <2>8. /\ \A q \in 1..MaxRuns : q # r => polls'[q] = polls[q] /\ polls[q].at # "polling"
        /\ polls'[r].cursor = u
    <3>1. \A q \in 1..MaxRuns : q # r => polls'[q] = polls[q] /\ polls[q].at # "polling"
      BY <1>1, <1>3, <2>3 DEF CursorsInOrder, Alive
    <3>2. polls'[r] = [polls[r] EXCEPT !.cursor = u, !.at = IF polls[r].aborted THEN "ended" ELSE @]
      BY <1>3, <2>3
    <3>3. polls[r] \in Poll
      BY <1>3
    <3> QED BY <3>1, <3>2, <3>3 DEF Poll
  <2> QED BY <2>5, <2>6, <2>7, <2>8 DEF HeardBefore
<1>6. CASE \E i \in DOMAIN unWrites : CursorWritten(i)
  <2>1. unWrites # <<>> /\ unWrites' = RemoveAt(unWrites, 1) /\ unStored' = unWrites[1]
        /\ UNCHANGED <<polls, unHeard, unTwice>>
    BY <1>6 DEF CursorWritten, Write, pollVars, seenVars
  <2>2. /\ unWrites' = <<>> => Len(unWrites) = 1
        /\ unWrites' # <<>> => unWrites'[Len(unWrites')] = unWrites[Len(unWrites)]
    BY <1>1, <2>1, WriteTaken
  <2> QED BY <1>1, <2>1, <2>2 DEF HeardBefore
<1>7. CASE \/ HorizonRecord \/ RouteQueued \/ StartEngine \/ HorizonGivesUp \/ NetworkVerified
           \/ BeginStop \/ StopAborts \/ StopFlushes \/ StopEnds \/ \E r \in 1..MaxRuns : PollerEnds(r)
  <2>1. UNCHANGED <<unWrites, unStored, unHeard, unTwice>>
    BY <1>7 DEF HorizonRecord, RouteQueued, StartEngine, HorizonGivesUp, NetworkVerified, BeginStop,
       StopAborts, StopFlushes, StopEnds, PollerEnds, seenVars
  <2>2. \A q \in 1..MaxRuns : polls'[q].at = "polling" =>
                                 polls[q].at = "polling" /\ polls'[q].cursor = polls[q].cursor
    <3> SUFFICES ASSUME NEW q \in 1..MaxRuns
                 PROVE  polls'[q].at = "polling" =>
                           polls[q].at = "polling" /\ polls'[q].cursor = polls[q].cursor
      OBVIOUS
    <3>1. polls[q] \in Poll
      BY <1>3
    <3>2. \/ polls'[q] = polls[q]
          \/ polls'[q] = [polls[q] EXCEPT !.at = "ended"]
          \/ polls'[q] = [polls[q] EXCEPT !.at = "reading"]
          \/ polls'[q] = [polls[q] EXCEPT !.aborted = TRUE]
      <4>1. CASE \E r \in 1..MaxRuns : PollerEnds(r)
        BY <1>3, <4>1 DEF PollerEnds, Ended
      <4>2. CASE NetworkVerified
        BY <1>3, <4>2 DEF NetworkVerified, pollVars
      <4>3. CASE StopAborts
        BY <1>3, <4>3 DEF StopAborts
      <4>4. CASE polls' = polls
        BY <4>4
      <4> QED BY <1>7, <4>1, <4>2, <4>3, <4>4 DEF HorizonRecord, RouteQueued, StartEngine,
          HorizonGivesUp, BeginStop, StopFlushes, StopEnds, pollVars
    <3> QED BY <3>1, <3>2 DEF Poll
  <2> QED BY <1>1, <2>1, <2>2 DEF HeardBefore
<1> QED BY <1>4, <1>5, <1>6, <1>7 DEF DualNext

(* Before anything is reported.                                              *)
LEMMA DualStarts == DualInit => DualInv
<1> SUFFICES ASSUME DualInit PROVE DualInv
  OBVIOUS
<1>1. /\ hzQueue = <<>> /\ unWrites = <<>> /\ unStored = 0 /\ window = <<>>
      /\ deliveries = [n \in Ops |-> 0] /\ hzHeard = {} /\ unHeard = {} /\ unTwice = {}
      /\ engine = "off" /\ verifying = FALSE /\ runs = 0 /\ pollPromise = 0
      /\ polls = [r \in 1..MaxRuns |-> [at |-> "none", aborted |-> FALSE, cursor |-> 0]]
      /\ stopCall = [at |-> "no", of |-> 0, left |-> 0]
  BY DEF DualInit
<1>2. DOMAIN window = {} /\ DOMAIN hzQueue = {} /\ DOMAIN unWrites = {}
  BY <1>1
<1>3. WindowTyped /\ QueueTyped
  BY <1>1, <1>2 DEF WindowTyped, QueueTyped
<1>4. PollTyped
  <2>1. 0 \in 0..Len(Unified) /\ 0 \in 0..MaxRuns /\ unWrites \in Seq(Nat)
    BY <1>1, DualAssumption
  <2> QED BY <1>1, <2>1 DEF PollTyped, Poll
<1>5. \A r \in 1..MaxRuns : polls[r].at = "none"
  BY <1>1
<1>6. CursorsInOrder
  BY <1>1, <1>2, <1>5 DEF CursorsInOrder, Alive
<1>7. HeardBefore
  BY <1>1, <1>5 DEF HeardBefore
<1>8. \A n \in Ops : By(n) = {} /\ Awaited(n)
  BY <1>1, <1>2 DEF By, Slot, Awaited
<1>9. \A n \in Ops : Passed(n) = 0
  <2>1. \A n \in Ops : {u \in unHeard : Unified[u] = n} = {}
    BY <1>1
  <2> QED BY <2>1, FS_EmptySet DEF Passed
<1>10. \A n \in Plain : Counted(n)
  BY <1>1, <1>8, <1>9 DEF Counted, Plain
<1> QED BY <1>3, <1>4, <1>6, <1>7, <1>10 DEF DualInv

(* Every step keeps the counts and, in order, the cursors.                   *)
LEMMA DualStep ==
    ASSUME DualInv, [DualNext]_dualVars
    PROVE  DualInv' /\ (Orderly' => unStored' >= unStored)
<1>1. CASE DualNext
  <2>1. PollTyped'
    BY <1>1, PollersMove DEF DualInv
  <2>2. Orderly' => CursorsInOrder' /\ unStored' >= unStored
    BY <1>1, CursorsKeep
  <2>3. lapses' = {} => HeardBefore'
    BY <1>1, HeardKeeps
  <2>4. WindowTyped' /\ QueueTyped' /\ \A n \in Plain' : Counted(n)'
    <3>1. CASE HorizonRecord
      BY <3>1, HorizonKeeps
    <3>2. CASE RouteQueued
      BY <3>2, QueuedKeeps
    <3>3. CASE \E r \in 1..MaxRuns : UnifiedEvent(r)
      BY <3>3, UnifiedKeeps
    <3>4. CASE UNCHANGED <<hzQueue, seenVars>>
      BY <3>4, CountsStand DEF DualInv
    <3> QED BY <1>1, <3>1, <3>2, <3>3, <3>4 DEF DualNext, CursorRead, PollerEnds, CursorWritten,
        StartEngine, HorizonGivesUp, NetworkVerified, BeginStop, StopAborts, StopFlushes, StopEnds
  <2> QED BY <2>1, <2>2, <2>3, <2>4 DEF DualInv
<1>2. CASE UNCHANGED dualVars
  <2>1. UNCHANGED <<hzQueue, seenVars>> /\ UNCHANGED seenVars /\ UNCHANGED pollVars
        /\ UNCHANGED <<engine, verifying, runs, stopCall, unWrites, unStored, lapses>>
    BY <1>2 DEF dualVars
  <2>2. UNCHANGED <<polls, pollPromise, unHeard, unTwice>>
    BY <2>1 DEF pollVars, seenVars
  <2>3. WindowTyped' /\ QueueTyped' /\ \A n \in Plain' : Counted(n)'
    BY <2>1, CountsStand DEF DualInv
  <2>4. PollTyped' /\ (Orderly' => CursorsInOrder') /\ (lapses' = {} => HeardBefore')
    BY <2>1, <2>2 DEF DualInv, PollTyped, Orderly, CursorsInOrder, HeardBefore, Alive
  <2>5. unStored' >= unStored
    BY <2>1 DEF DualInv, PollTyped
  <2> QED BY <2>3, <2>4, <2>5 DEF DualInv
<1> QED BY <1>1, <1>2

(* Whichever transport reports first, wherever the mode changes, however     *)
(* starts and stops of the poller cross and whichever cursor reads and       *)
(* writes fail, for any number of operations and movements and any window:   *)
(* an operation that is not evicted and of which no transport repeated a     *)
(* report has been delivered once per movement of the unified transport, or  *)
(* once for Horizon alone; and the unified transport repeats a report only   *)
(* after a failed read or write or a start that crosses a stop.              *)
THEOREM SameCountHolds == DualSpec => []SameCountEitherWay
<1>1. DualInv => SameCountEitherWay
  <2> SUFFICES ASSUME DualInv PROVE SameCountEitherWay
    OBVIOUS
  <2>1. CountedOnce
    <3> SUFFICES ASSUME NEW n \in Plain
                 PROVE  deliveries[n] = IF Passed(n) > 0 THEN Passed(n)
                                        ELSE IF Awaited(n) THEN 0 ELSE 1
      BY DEF CountedOnce
    <3>1. Counted(n) /\ Passed(n) \in Nat
      BY PassedCounts DEF DualInv
    <3>2. CASE By(n) = {}
      BY <3>1, <3>2 DEF Counted
    <3>3. CASE By(n) # {}
      <4>1. PICK b \in By(n) : TRUE
        BY <3>3
      <4>2. CASE "unified" \in b
        BY <3>1, <4>1, <4>2 DEF Counted
      <4>3. CASE "unified" \notin b
        <5>1. b # {} /\ b \subseteq Transports
          <6> DEFINE Entry == [key : Ops, by : SUBSET Transports]
          <6>1. window \in Seq(Entry)
            BY DEF DualInv, WindowTyped
          <6>2. \A i \in DOMAIN window : window[i] \in Entry
            <7> HIDE DEF Entry
            <7> QED BY <6>1
          <6>3. \A i \in DOMAIN window : window[i].by \subseteq Transports
            BY <6>2
          <6> QED BY <3>1, <4>1, <6>3 DEF By, Slot, Counted
        <5>2. "horizon" \in b
          BY <4>3, <5>1 DEF Transports
        <5> QED BY <3>1, <4>1, <4>3, <5>2 DEF Counted
      <4> QED BY <4>2, <4>3
    <3> QED BY <3>2, <3>3
  <2>2. ReplayedForAReason
    BY DEF DualInv, HeardBefore, ReplayedForAReason
  <2> QED BY <2>1, <2>2 DEF SameCountEitherWay
<1>2. DualInv /\ [DualNext]_dualVars => DualInv'
  BY DualStep
<1> QED BY <1>1, <1>2, DualStarts, PTL DEF DualSpec

(* The stored unified cursor never moves back, whichever writes of it fail   *)
(* and however they interleave with the poller (enqueueUnifiedCursorWrite),  *)
(* as long as every start follows a finished stop() and finds its cursor.    *)
THEOREM CursorNeverBack == DualSpec => StoredCursorAdvances
<1>1. DualInv /\ [DualNext]_dualVars
         => DualInv' /\ [unStored' >= unStored \/ lapses \cap {"read", "unstopped"} # {}]_dualVars
  <2> SUFFICES ASSUME DualInv, [DualNext]_dualVars
               PROVE  DualInv' /\ (unStored' >= unStored \/ lapses \cap {"read", "unstopped"} # {}
                                   \/ UNCHANGED dualVars)
    OBVIOUS
  <2>1. DualInv' /\ (Orderly' => unStored' >= unStored)
    BY DualStep
  <2>2. Orderly /\ ~Orderly' => unStored' = unStored \/ UNCHANGED dualVars
    <3> SUFFICES ASSUME DualNext, Orderly, ~Orderly', unStored' # unStored PROVE FALSE
      OBVIOUS
    <3>1. \E i \in DOMAIN unWrites : CursorWritten(i)
      BY DEF DualNext, HorizonRecord, RouteQueued, CursorRead, UnifiedEvent, PollerEnds, StartEngine,
         HorizonGivesUp, NetworkVerified, BeginStop, StopAborts, StopFlushes, StopEnds
    <3> QED BY <3>1 DEF CursorWritten, Orderly
  <2>3. unStored \in Nat
    BY DEF DualInv, PollTyped
  <2> QED BY <2>1, <2>2, <2>3 DEF Orderly
<1> QED BY <1>1, DualStarts, PTL DEF DualSpec, StoredCursorAdvances

-----------------------------------------------------------------------------
(* SorobanSubscriber                                                         *)

SorTyped ==
    /\ emitted \in 0..NumEvents
    /\ link \in [Links -> Link] /\ inflightPoll \in Promises
    /\ startLedger \in Cursors /\ {buffer, writing, inner} \subseteq Cursors
    /\ seenIds \in Seq(Events)
    /\ overlapped \in BOOLEAN /\ evicted \in BOOLEAN

(* Every event up to cursor c is handled, or was never asked for.            *)
Covered(c) == \A e \in Events : e <= c => e \in handled \cup skipped

(* Every cursor a poll may start from is covered.                            *)
CursorsCovered ==
    /\ Covered(buffer) /\ Covered(writing) /\ Covered(inner)
    /\ startLedger # None => Covered(Before(startLedger))

(* A poll asks from a covered cursor, and what it will save is covered once  *)
(* the events it still holds are handled.                                    *)
LinkSound(j) ==
    /\ link[j].at = "pages" => Covered(link[j].from)
    /\ link[j].at \in {"loop", "handler"} =>
          \A e \in Events : e <= link[j].next => e \in handled \cup skipped \cup link[j].events
    /\ link[j].at = "handler" => link[j].events # {}

(* An id in the window is the id of a handled event.                         *)
SeenHandled == \A e \in Events : Contains(seenIds, e) => e \in handled

(* Until polls overlap, one link at most is past the promise it waited for.  *)
OneAtATime == ~overlapped => \A i, j \in Polling : i = j

(* Until polls overlap or the window is full, what was handed out is in the  *)
(* window or with the handler now.                                           *)
WithHandler(e) == \E j \in Links : link[j].at = "handler" /\ Current(j) = e
HandedOnce ==
    ~overlapped /\ ~evicted =>
        repeated = {} /\ \A e \in handed : Contains(seenIds, e) \/ WithHandler(e)

SorInv ==
    /\ SorTyped /\ CursorsCovered /\ (\A j \in Links : LinkSound(j))
    /\ SeenHandled /\ OneAtATime /\ HandedOnce

(* A set of naturals below a bound has a smallest member, which Min names.   *)
LEMMA MinOfNaturals ==
    ASSUME NEW n \in Nat, NEW U, U \subseteq 0..n, U # {}
    PROVE  Min(U) \in U /\ \A y \in U : Min(U) <= y
<1> DEFINE down(x) == {y \in U : y <= x}
           T == {down(x) : x \in U}
<1>1. IsFiniteSet(U)
  <2>1. IsFiniteSet(0..n)
    BY FS_Interval
  <2> QED BY <2>1, FS_Subset
<1>2. T \subseteq FiniteSubsetsOf(U) /\ T # {}
  <2>1. \A x \in U : down(x) \in SUBSET U /\ IsFiniteSet(down(x))
    BY <1>1, FS_Subset
  <2> QED BY <2>1 DEF FiniteSubsetsOf
<1>3. PICK m \in T : \A y \in T : ~(<<y, m>> \in StrictSubsetOrdering(U))
  <2>1. IsWellFoundedOn(StrictSubsetOrdering(U), FiniteSubsetsOf(U))
    BY FS_StrictSubsetOrderingWellFounded
  <2> HIDE DEF T
  <2> QED BY <1>2, <2>1, WFMin
<1>4. PICK x \in U : m = down(x)
  OBVIOUS
<1>5. ASSUME NEW y \in U, ~(x <= y) PROVE FALSE
  <2>1. down(y) \subseteq down(x) /\ x \in down(x) /\ x \notin down(y)
    <3>1. x \in Int /\ y \in Int /\ \A z \in U : z \in Int
      OBVIOUS
    <3>2. \A z \in U : z <= y => z <= x
      BY <1>5, <3>1
    <3>3. x <= x
      BY <3>1
    <3> QED BY <1>5, <3>2, <3>3
  <2>2. down(y) \in SUBSET U /\ down(x) \in SUBSET U /\ down(y) \in T
    OBVIOUS
  <2>3. <<down(y), down(x)>> \in StrictSubsetOrdering(U)
    <3> HIDE DEF down
    <3> QED BY <2>1, <2>2 DEF StrictSubsetOrdering
  <2> QED BY <1>3, <1>4, <2>2, <2>3
<1> QED BY <1>5 DEF Min

(* And the greatest.                                                         *)
LEMMA MaxOfNaturals ==
    ASSUME NEW n \in Nat, NEW U, U \subseteq 0..n, U # {}
    PROVE  Max(U) \in U /\ \A y \in U : Max(U) >= y
<1> DEFINE W == {n - u : u \in U}
<1>1. W \subseteq 0..n /\ W # {}
  <2>1. \A u \in U : n - u \in 0..n
    OBVIOUS
  <2>2. PICK u : u \in U
    OBVIOUS
  <2> QED BY <2>1, <2>2
<1>2. Min(W) \in W /\ \A y \in W : Min(W) <= y
  <2> HIDE DEF W
  <2> QED BY <1>1, MinOfNaturals
<1>3. PICK x \in U : Min(W) = n - x
  BY <1>2
<1>4. \A y \in U : x >= y
  <2> SUFFICES ASSUME NEW y \in U PROVE x >= y
    OBVIOUS
  <2>1. n - x <= n - y
    BY <1>2, <1>3
  <2> QED BY <2>1
<1> QED BY <1>4 DEF Max

(* The window without an id keeps the other ids.                             *)
LEMMA RemoveFirstFacts ==
    ASSUME NEW s \in Seq(Events), NEW e \in Events
    PROVE  /\ RemoveFirst(s, e) \in Seq(Events)
           /\ \A x : Contains(RemoveFirst(s, e), x) => Contains(s, x)
           /\ \A x : x # e /\ Contains(s, x) => Contains(RemoveFirst(s, e), x)
<1>1. CASE ~\E i \in 1..Len(s) : s[i] = e
  BY <1>1 DEF RemoveFirst
<1>2. CASE \E i \in 1..Len(s) : s[i] = e
  <2> DEFINE I == {i \in 1..Len(s) : s[i] = e}
  <2>1. Len(s) \in Nat /\ \A i \in 1..Len(s) : s[i] \in Events
    BY LenProperties, ElementOfSeq
  <2>2. I \subseteq 0..Len(s) /\ I # {}
    BY <1>2, <2>1
  <2>3. PICK m : m = Min(I)
    OBVIOUS
  <2>4. m \in 1..Len(s) /\ s[m] = e
    <3>1. Min(I) \in I
      <4> HIDE DEF I
      <4> QED BY <2>1, <2>2, MinOfNaturals
    <3> QED BY <2>3, <3>1
  <2>5. RemoveFirst(s, e) = SubSeq(s, 1, m - 1) \o SubSeq(s, m + 1, Len(s))
    <3>1. SelectInSeq(s, LAMBDA v : v = e) = m
      BY <2>2, <2>3 DEF SelectInSeq
    <3> QED BY <1>2, <3>1 DEF RemoveFirst, RemoveAt
  <2>6. PICK a, b : a = SubSeq(s, 1, m - 1) /\ b = SubSeq(s, m + 1, Len(s))
    OBVIOUS
  <2>7. /\ a \in Seq(Events) /\ Len(a) = m - 1
        /\ \A i \in 1..(m - 1) : a[i] = s[i]
    <3>1. \A i \in 1..(m - 1) : s[i] \in Events
      BY <2>1, <2>4
    <3>2. 1 \in Int /\ m - 1 \in Int /\ m - 1 - 1 + 1 = m - 1 /\ m >= 1 /\ m \in Nat
      BY <2>4
    <3>3. /\ a \in Seq(Events) /\ Len(a) = IF 1 <= m - 1 THEN m - 1 - 1 + 1 ELSE 0
          /\ \A i \in 1..(m - 1 - 1 + 1) : a[i] = s[1 + i - 1]
      BY <2>6, <3>1, <3>2, SubSeqProperties
    <3>4. Len(a) = m - 1
      BY <3>2, <3>3
    <3>5. \A i \in 1..(m - 1) : 1 + i - 1 = i /\ a[i] = s[1 + i - 1]
      BY <3>2, <3>3
    <3> QED BY <3>3, <3>4, <3>5
  <2>8. /\ b \in Seq(Events) /\ Len(b) = Len(s) - m
        /\ \A i \in 1..(Len(s) - m) : b[i] = s[m + i]
    <3>1. \A i \in (m + 1)..Len(s) : s[i] \in Events
      BY <2>1, <2>4
    <3>2. m + 1 \in Int /\ Len(s) \in Int /\ m <= Len(s) /\ m \in Nat
      BY <2>1, <2>4
    <3>3. /\ b \in Seq(Events) /\ Len(b) = IF m + 1 <= Len(s) THEN Len(s) - (m + 1) + 1 ELSE 0
          /\ \A i \in 1..(Len(s) - (m + 1) + 1) : b[i] = s[m + 1 + i - 1]
      BY <2>6, <3>1, <3>2, SubSeqProperties
    <3>4. Len(b) = Len(s) - m
      BY <3>2, <3>3
    <3>5. \A i \in 1..(Len(s) - m) : i \in 1..(Len(s) - (m + 1) + 1) /\ m + 1 + i - 1 = m + i
      BY <3>2
    <3> QED BY <3>3, <3>4, <3>5
  <2>9. PICK r : r = RemoveFirst(s, e)
    OBVIOUS
  <2>10. /\ r \in Seq(Events) /\ Len(r) = Len(s) - 1
         /\ \A i \in 1..(Len(s) - 1) : r[i] = IF i <= m - 1 THEN s[i] ELSE s[i + 1]
    <3>1. /\ r \in Seq(Events) /\ Len(r) = m - 1 + (Len(s) - m)
          /\ \A i \in 1..(m - 1 + (Len(s) - m)) : r[i] = IF i <= m - 1 THEN a[i] ELSE b[i - (m - 1)]
      <4>1. /\ r \in Seq(Events) /\ Len(r) = Len(a) + Len(b)
            /\ \A i \in 1..(Len(a) + Len(b)) : r[i] = IF i <= Len(a) THEN a[i] ELSE b[i - Len(a)]
        <5>1. a \in Seq(Events) /\ b \in Seq(Events) /\ r = a \o b
          BY <2>5, <2>6, <2>7, <2>8, <2>9
        <5> QED BY <5>1, ConcatProperties
      <4>2. Len(a) = m - 1 /\ Len(b) = Len(s) - m
        BY <2>7, <2>8
      <4> QED BY <4>1, <4>2
    <3>2. m - 1 + (Len(s) - m) = Len(s) - 1
      BY <2>1, <2>4
    <3>3. ASSUME NEW i \in 1..(Len(s) - 1) PROVE r[i] = IF i <= m - 1 THEN s[i] ELSE s[i + 1]
      <4>1. CASE i <= m - 1
        BY <2>1, <2>4, <2>7, <3>1, <3>2, <4>1
      <4>2. CASE ~(i <= m - 1)
        <5>1. i - (m - 1) \in 1..(Len(s) - m) /\ m + (i - (m - 1)) = i + 1
          BY <2>1, <2>4, <4>2
        <5>2. r[i] = b[i - (m - 1)] /\ b[i - (m - 1)] = s[m + (i - (m - 1))]
          BY <2>8, <3>1, <3>2, <4>2, <5>1
        <5> QED BY <4>2, <5>1, <5>2
      <4> QED BY <4>1, <4>2
    <3> QED BY <3>1, <3>2, <3>3
  <2>11. ASSUME NEW x, Contains(r, x) PROVE Contains(s, x)
    <3>1. PICK i \in 1..(Len(s) - 1) : r[i] = x
      BY <2>10, <2>11 DEF Contains
    <3>2. i \in 1..Len(s) /\ i + 1 \in 1..Len(s)
      BY <2>1
    <3> QED BY <2>10, <3>1, <3>2 DEF Contains
  <2>12. ASSUME NEW x, x # e, Contains(s, x) PROVE Contains(r, x)
    <3>1. PICK i \in 1..Len(s) : s[i] = x
      BY <2>12 DEF Contains
    <3>2. i # m
      BY <2>4, <2>12, <3>1
    <3>3. CASE i < m
      <4>1. i \in 1..(Len(s) - 1) /\ i <= m - 1
        BY <2>1, <2>4, <3>3
      <4> QED BY <2>10, <3>1, <4>1 DEF Contains
    <3>4. CASE i > m
      <4>1. i - 1 \in 1..(Len(s) - 1) /\ ~(i - 1 <= m - 1) /\ i - 1 + 1 = i
        BY <2>1, <2>4, <3>4
      <4> QED BY <2>10, <3>1, <4>1 DEF Contains
    <3> QED BY <2>1, <2>4, <3>2, <3>3, <3>4
  <2> QED BY <2>9, <2>10, <2>11, <2>12
<1> QED BY <1>1, <1>2

(* An id put at the end of the window, where it may have been already.       *)
LEMMA TouchFacts ==
    ASSUME NEW s \in Seq(Events), NEW e \in Events, NEW w, w = Append(RemoveFirst(s, e), e)
    PROVE  w \in Seq(Events) /\ \A x : Contains(w, x) <=> Contains(s, x) \/ x = e
<1>1. PICK r : r = RemoveFirst(s, e)
  OBVIOUS
<1>2. /\ r \in Seq(Events) /\ Len(r) \in Nat
      /\ \A x : Contains(r, x) => Contains(s, x)
      /\ \A x : x # e /\ Contains(s, x) => Contains(r, x)
  BY <1>1, RemoveFirstFacts, LenProperties
<1>3. /\ w \in Seq(Events) /\ Len(w) = Len(r) + 1 /\ w[Len(r) + 1] = e
      /\ \A i \in 1..Len(r) : w[i] = r[i]
  BY <1>1, <1>2, AppendProperties
<1>4. \A x : Contains(w, x) <=> Contains(r, x) \/ x = e
  <2>1. \A i \in 1..Len(w) : i \in 1..Len(r) \/ i = Len(r) + 1
    BY <1>2, <1>3
  <2>2. \A i \in 1..Len(r) : i \in 1..Len(w)
    BY <1>2, <1>3
  <2>3. Len(r) + 1 \in 1..Len(w)
    BY <1>2, <1>3
  <2> QED BY <1>3, <2>1, <2>2, <2>3 DEF Contains
<1> QED BY <1>2, <1>3, <1>4

(* recordSeen: what is in the window afterwards.                             *)
LEMMA RecordedFacts ==
    ASSUME seenIds \in Seq(Events), NEW e \in Events
    PROVE  /\ Recorded(e) \in Seq(Events)
           /\ \A x : Contains(Recorded(e), x) => Contains(seenIds, x) \/ x = e
           /\ ~(Len(Append(RemoveFirst(seenIds, e), e)) > DedupCacheSize) =>
                 \A x : Contains(seenIds, x) \/ x = e => Contains(Recorded(e), x)
<1>1. PICK w : w = Append(RemoveFirst(seenIds, e), e)
  OBVIOUS
<1>2. /\ w \in Seq(Events) /\ Len(w) \in Nat /\ \A i \in 1..Len(w) : w[i] \in Events
      /\ \A x : Contains(w, x) <=> Contains(seenIds, x) \/ x = e
  BY <1>1, TouchFacts, LenProperties, ElementOfSeq
<1>3. PICK m : m = IF Len(w) > DedupCacheSize THEN Len(w) - DedupCacheSize + 1 ELSE 1
  OBVIOUS
<1>4. m \in Nat /\ m >= 1 /\ DedupCacheSize \in Nat
  BY <1>2, <1>3, SorobanAssumption
<1>5. Recorded(e) = SubSeq(w, m, Len(w))
  BY <1>1, <1>3 DEF Recorded
<1>6. /\ Recorded(e) \in Seq(Events)
      /\ Len(Recorded(e)) = IF m <= Len(w) THEN Len(w) - m + 1 ELSE 0
      /\ \A i \in 1..(Len(w) - m + 1) : Recorded(e)[i] = w[m + i - 1]
  <2>1. \A i \in m..Len(w) : w[i] \in Events
    BY <1>2, <1>4
  <2> QED BY <1>2, <1>4, <1>5, <2>1, SubSeqProperties
<1>7. ASSUME NEW x, Contains(Recorded(e), x) PROVE Contains(w, x)
  <2>1. PICK i \in 1..Len(Recorded(e)) : Recorded(e)[i] = x
    BY <1>7 DEF Contains
  <2>2. i \in 1..(Len(w) - m + 1) /\ m + i - 1 \in 1..Len(w)
    BY <1>2, <1>4, <1>6, <2>1
  <2> QED BY <1>6, <2>1, <2>2 DEF Contains
<1>8. ASSUME ~(Len(w) > DedupCacheSize) PROVE \A x : Contains(w, x) => Contains(Recorded(e), x)
  <2>1. m = 1
    BY <1>3, <1>8
  <2>2. \A i \in 1..Len(w) : i \in 1..Len(Recorded(e)) /\ i \in 1..(Len(w) - m + 1) /\ m + i - 1 = i
    BY <1>2, <1>6, <2>1
  <2> QED BY <1>6, <2>2 DEF Contains
<1> QED BY <1>1, <1>2, <1>6, <1>7, <1>8

(* Every filter of the subscription is in one group: one getEvents call per  *)
(* poll, whose cursor is the one that is saved.                              *)
OneGroup == \A n \in Events : GroupOf[n] = 1

(* A page holds every event between the cursor asked from and the cursor     *)
(* that comes with it.                                                       *)
LEMMA PageCovers ==
    ASSUME OneGroup, emitted \in 0..NumEvents, NEW c \in Cursors
    PROVE  /\ AllEvents(c) \subseteq Events /\ NextCursor(c) \in Cursors
           /\ \A e \in Events : e > c /\ e <= NextCursor(c) => e \in AllEvents(c)
<1> DEFINE M == Matching(1, c)
           upTo(n) == {m \in M : m <= n}
<1>1. NumEvents \in Nat /\ PageLimit \in Nat /\ PageLimit >= 1 /\ c \in Int
  BY SorobanAssumption DEF Cursors, None
<1>2. \A g : Matching(g, c) \subseteq Events
  BY <1>1 DEF Matching, Events
<1>3. M \subseteq 0..NumEvents /\ \A n \in Events : n \in M <=> n <= emitted /\ n > c
  BY <1>1 DEF Matching, Events, OneGroup
<1>4. IsFiniteSet(M) /\ Cardinality(M) \in Nat
  <2>1. IsFiniteSet(0..NumEvents)
    BY <1>1, FS_Interval
  <2> QED BY <1>3, <2>1, FS_Subset, FS_CardinalityType
<1>5. \A n : /\ IsFiniteSet(upTo(n)) /\ Cardinality(upTo(n)) \in Nat
             /\ Cardinality(upTo(n)) <= Cardinality(M)
  <2> SUFFICES ASSUME NEW n PROVE /\ IsFiniteSet(upTo(n)) /\ Cardinality(upTo(n)) \in Nat
                                  /\ Cardinality(upTo(n)) <= Cardinality(M)
    OBVIOUS
  <2>1. upTo(n) \in SUBSET M
    OBVIOUS
  <2> HIDE DEF upTo, M
  <2> QED BY <1>4, <2>1, FS_Subset, FS_CardinalityType
<1>6. \A m, n \in M : m <= n => Cardinality(upTo(m)) <= Cardinality(upTo(n))
  <2> SUFFICES ASSUME NEW m \in M, NEW n \in M, m <= n
               PROVE  Cardinality(upTo(m)) <= Cardinality(upTo(n))
    OBVIOUS
  <2>1. \A x \in M : x \in Int
    BY <1>3
  <2>2. \A x \in M : x <= m => x <= n
    BY <2>1
  <2>3. upTo(m) \in SUBSET upTo(n)
    BY <2>2
  <2> HIDE DEF upTo, M
  <2> QED BY <1>5, <2>3, FS_Subset
<1>7. \A n : n \in Page(1, c) <=> n \in M /\ Cardinality(upTo(n)) <= PageLimit
  BY DEF Page
<1>8. ASSUME M # {} PROVE Page(1, c) # {}
  <2>1. Min(M) \in M /\ \A y \in M : Min(M) <= y
    <3> HIDE DEF M
    <3> QED BY <1>1, <1>3, <1>8, MinOfNaturals
  <2>2. upTo(Min(M)) = {Min(M)}
    <3>1. \A x \in M : x \in Int
      BY <1>3
    <3>2. Min(M) <= Min(M) /\ \A x \in M : x <= Min(M) => x = Min(M)
      BY <2>1, <3>1
    <3> HIDE DEF M
    <3> QED BY <2>1, <3>2
  <2>3. Cardinality(upTo(Min(M))) = 1
    BY <2>2, FS_Singleton
  <2> HIDE DEF upTo, M
  <2> QED BY <1>1, <1>7, <2>1, <2>3
<1>9. CASE Cardinality(M) > PageLimit
  <2>1. Page(1, c) # {} /\ Page(1, c) \subseteq 0..NumEvents /\ Page(1, c) \subseteq M
    <3>1. M # {}
      BY <1>1, <1>9, FS_EmptySet
    <3> HIDE DEF M, upTo
    <3> QED BY <1>3, <1>7, <1>8, <3>1
  <2>2. PICK n : n = NextCursor(c)
    OBVIOUS
  <2>3. n \in M /\ Cardinality(upTo(n)) <= PageLimit
    <3>1. n = Max(Page(1, c))
      BY <1>9, <2>2 DEF NextCursor, PageCursor
    <3>2. n \in Page(1, c)
      BY <1>1, <2>1, <3>1, MaxOfNaturals
    <3> HIDE DEF M, upTo
    <3> QED BY <1>7, <3>2
  <2>4. n \in Cursors
    BY <1>3, <2>3 DEF Cursors
  <2>5. ASSUME NEW e \in Events, e > c, e <= n PROVE e \in Page(1, c)
    <3>1. e \in M
      BY <1>1, <1>3, <2>3, <2>5 DEF Events, Matching
    <3>2. Cardinality(upTo(e)) <= Cardinality(upTo(n))
      <4> HIDE DEF M, upTo
      <4> QED BY <1>6, <2>3, <2>5, <3>1
    <3>3. Cardinality(upTo(e)) <= PageLimit
      <4> HIDE DEF M, upTo
      <4> QED BY <1>1, <1>5, <2>3, <3>2
    <3> HIDE DEF M, upTo
    <3> QED BY <1>7, <3>1, <3>3
  <2> QED BY <1>2, <2>2, <2>4, <2>5 DEF AllEvents, Page, Groups, OneGroup
<1>10. CASE ~(Cardinality(M) > PageLimit)
  <2>1. NextCursor(c) = emitted /\ emitted \in Cursors
    BY <1>10 DEF NextCursor, PageCursor, Cursors
  <2>2. ASSUME NEW e \in Events, e > c, e <= emitted PROVE e \in Page(1, c)
    <3>1. e \in M
      BY <1>3, <2>2
    <3>2. Cardinality(upTo(e)) <= PageLimit
      <4>1. Cardinality(upTo(e)) <= Cardinality(M) /\ Cardinality(upTo(e)) \in Nat
        <5> HIDE DEF M, upTo
        <5> QED BY <1>5
      <4>2. Cardinality(M) <= PageLimit
        <5> HIDE DEF M
        <5> QED BY <1>1, <1>4, <1>10
      <4> HIDE DEF M, upTo
      <4> QED BY <1>1, <1>4, <4>1, <4>2
    <3> HIDE DEF M, upTo
    <3> QED BY <1>7, <3>1, <3>2
  <2> QED BY <1>2, <2>1, <2>2 DEF AllEvents, Page, Groups, OneGroup
<1> QED BY <1>9, <1>10

(* What a step does to the other polls: they stay where they are, or rest.   *)
Same(j) ==
    /\ link'[j].at = link[j].at /\ link'[j].from = link[j].from
    /\ link'[j].events = link[j].events /\ link'[j].next = link[j].next
Kept(j) == link'[j].at \in {"free", "waiting"} \/ Same(j)

(* Such a poll is as sound after a step that forgets nothing as before it.   *)
LEMMA KeptSound ==
    ASSUME handled \subseteq handled', skipped \subseteq skipped'
    PROVE  /\ \A c : Covered(c) => \A e \in Events : e <= c => e \in handled' \cup skipped'
           /\ \A j : LinkSound(j) /\ Kept(j) => LinkSound(j)'
<1>1. \A c : Covered(c) => \A e \in Events : e <= c => e \in handled' \cup skipped'
  BY DEF Covered
<1>2. ASSUME NEW j, LinkSound(j), link'[j].at \in {"free", "waiting"} PROVE LinkSound(j)'
  BY <1>2 DEF LinkSound
<1>3. ASSUME NEW j, LinkSound(j), Same(j) PROVE LinkSound(j)'
  BY <1>1, <1>3 DEF LinkSound, Same, Covered
<1> QED BY <1>1, <1>2, <1>3 DEF Kept

(* A step that hands nothing out, in which a poll goes on soundly or ends,   *)
(* keeps the invariant.                                                      *)
LEMMA QuietStep ==
    ASSUME SorInv, SorTyped', CursorsCovered',
           handled' = handled, skipped \subseteq skipped',
           UNCHANGED <<handed, repeated, overlapped, evicted>>,
           \A x : Contains(seenIds', x) <=> Contains(seenIds, x),
           \A j \in Links : Kept(j) \/ (j \in Polling /\ LinkSound(j)'),
           ~overlapped => \A j \in Links : link[j].at = "handler" => Same(j)
    PROVE  SorInv'
<1>1. \A j \in Links : LinkSound(j)'
  BY KeptSound DEF SorInv
<1>2. SeenHandled'
  BY DEF SorInv, SeenHandled
<1>3. OneAtATime'
  <2>1. Polling' \subseteq Polling
    BY DEF Polling, Kept, Same
  <2> QED BY <2>1 DEF SorInv, OneAtATime
<1>4. HandedOnce'
  <2> SUFFICES ASSUME ~overlapped, ~evicted
               PROVE  repeated' = {} /\ \A e \in handed' : Contains(seenIds', e) \/ WithHandler(e)'
    BY DEF HandedOnce
  <2>1. repeated = {} /\ \A e \in handed : Contains(seenIds, e) \/ WithHandler(e)
    BY DEF SorInv, HandedOnce
  <2>2. \A e : WithHandler(e) => WithHandler(e)'
    BY DEF WithHandler, Same, Current
  <2> QED BY <2>1, <2>2
<1> QED BY <1>1, <1>2, <1>3, <1>4 DEF SorInv

(* The links a step makes are links.                                         *)
LEMMA LinkFacts ==
    /\ Settled \in Promises /\ Rejected \in Promises
    /\ \A k \in Links : Outer(k) \in Promises /\ Inner(k) \in Promises
    /\ None \in Cursors /\ Free \in Link /\ Free.at = "free"
    /\ \A p \in Promises : Waiting(p) \in Link /\ Waiting(p).at = "waiting"
<1>1. /\ Settled \in Promises /\ Rejected \in Promises
      /\ \A k \in Links : Outer(k) \in Promises /\ Inner(k) \in Promises
  BY DEF Promises
<1>2. None \in Cursors
  BY DEF Cursors
<1>3. Free \in Link /\ Free.at = "free"
  BY <1>1, <1>2 DEF Free, Link, Awaits
<1>4. \A p \in Promises : Waiting(p) \in Link /\ Waiting(p).at = "waiting"
  BY <1>1, <1>2 DEF Waiting, Free, Link, Awaits
<1> QED BY <1>1, <1>2, <1>3, <1>4

(* A tick puts a free link behind the poll under way.                        *)
LEMMA ChainLinks ==
    ASSUME SorTyped, NEW k \in Links, Chain(k)
    PROVE  /\ link' \in [Links -> Link] /\ inflightPoll' \in Promises
           /\ \A j \in Links : Kept(j) /\ (link[j].at = "handler" => Same(j))
<1>1. link \in [Links -> Link] /\ inflightPoll \in Promises /\ link[k].at = "free"
  BY LinkFacts DEF SorTyped, Chain
<1>2. CASE inflightPoll = Rejected
  BY <1>1, <1>2 DEF Chain, Kept, Same
<1>3. CASE inflightPoll # Rejected
  <2>1. PICK w : w = Waiting(inflightPoll)
    OBVIOUS
  <2>2. w \in Link /\ w.at = "waiting"
    BY <1>1, <2>1, LinkFacts
  <2>3. link' = [link EXCEPT ![k] = w] /\ inflightPoll' = Outer(k)
    BY <1>3, <2>1 DEF Chain
  <2>4. link' \in [Links -> Link] /\ link'[k] = w /\ \A j \in Links : j # k => link'[j] = link[j]
    BY <1>1, <2>2, <2>3
  <2> QED BY <1>1, <2>2, <2>3, <2>4, LinkFacts DEF Kept, Same
<1> QED BY <1>2, <1>3

(* A poll ends: what waited for it is ready, the others stay.                *)
LEMMA EndLinks ==
    ASSUME SorTyped, NEW k \in Links, PollEnds(k)
    PROVE  /\ link' \in [Links -> Link] /\ inflightPoll' \in Promises
           /\ \A j \in Links : Kept(j)
           /\ \A j \in Links : j # k /\ link[j].at = "handler" => Same(j)
<1>1. link \in [Links -> Link] /\ inflightPoll \in Promises
  BY DEF SorTyped
<1>2. inflightPoll' \in Promises
  BY <1>1, LinkFacts DEF PollEnds, ClearedPoll
<1>3. \A j \in Links : link'[j] = IF j = k THEN Free
                                  ELSE IF link[j].at = "waiting" /\ link[j].after \in Of(k)
                                  THEN [link[j] EXCEPT !.after = Settled] ELSE link[j]
  BY DEF PollEnds, Fulfilled
<1>4. ASSUME NEW j \in Links
      PROVE  link'[j] \in Link /\ Kept(j) /\ (j # k /\ link[j].at = "handler" => Same(j))
  <2>1. CASE j = k
    BY <1>3, <2>1, LinkFacts DEF Kept
  <2>2. CASE j # k /\ link[j].at = "waiting" /\ link[j].after \in Of(k)
    <3>1. PICK r \in Link : r = link[j]
      BY <1>1
    <3>2. PICK p \in Promises : p = Settled
      BY LinkFacts
    <3>3. [r EXCEPT !.after = p] \in Link /\ [r EXCEPT !.after = p].at = r.at
      BY DEF Link
    <3> QED BY <1>3, <2>2, <3>1, <3>2, <3>3 DEF Kept
  <2>3. CASE j # k /\ ~(link[j].at = "waiting" /\ link[j].after \in Of(k))
    BY <1>1, <1>3, <2>3 DEF Kept, Same
  <2> QED BY <2>1, <2>2, <2>3
<1>5. link' \in [Links -> Link]
  BY <1>4 DEF PollEnds, Fulfilled
<1> QED BY <1>2, <1>4, <1>5

(* A poll throws: everything behind it is gone, the others stay.             *)
LEMMA ThrowLinks ==
    ASSUME SorTyped, NEW k \in Links, PollThrows(k)
    PROVE  link' \in [Links -> Link] /\ inflightPoll' \in Promises /\ \A j \in Links : Kept(j)
<1>1. link \in [Links -> Link] /\ inflightPoll \in Promises
  BY DEF SorTyped
<1>2. inflightPoll' \in {Settled, Rejected, inflightPoll}
  BY DEF PollThrows
<1>3. PICK B : B = Behind(k)
  OBVIOUS
<1>4. link' = [j \in Links |-> IF j \in B THEN Free ELSE link[j]]
  BY <1>3 DEF PollThrows
<1> QED BY <1>1, <1>2, <1>4, LinkFacts DEF Kept, Same

(* A poll goes on: its link alone changes.                                   *)
LEMMA GoLinks ==
    ASSUME SorTyped, NEW k \in Links, NEW x \in Link, GoesOn(k, x)
    PROVE  /\ link' \in [Links -> Link] /\ inflightPoll' \in Promises
           /\ link'[k] = x /\ \A j \in Links : j # k => Same(j) /\ link'[j] = link[j]
<1>1. link \in [Links -> Link] /\ inflightPoll \in Promises /\ link' = [link EXCEPT ![k] = x]
      /\ inflightPoll' = inflightPoll
  BY DEF SorTyped, GoesOn
<1>2. link' \in [Links -> Link] /\ link'[k] = x /\ \A j \in Links : j # k => link'[j] = link[j]
  BY <1>1
<1> QED BY <1>1, <1>2 DEF Same

(* Ticks, stop() and the chain emitting: no poll moves.                      *)
LEMMA TicksKeep ==
    ASSUME SorInv,
           \/ Emit \/ Stop
           \/ \E k \in Links : Start(k) \/ Interval(k) \/ RetryTimer(k)
    PROVE  SorInv'
<1>1. SorTyped /\ CursorsCovered
  BY DEF SorInv
<1>2. /\ UNCHANGED <<startLedger, seenIds, buffer, writing, inner, handled, skipped, handed, repeated,
                     overlapped, evicted>>
      /\ emitted' \in 0..NumEvents
  <2>1. CASE Emit
    BY <1>1, <2>1, SorobanAssumption DEF Emit, SorTyped, storeVars, storyVars
  <2>2. CASE ~Emit
    BY <1>1, <2>2 DEF Stop, Start, Interval, RetryTimer, SorTyped, storeVars, storyVars
  <2> QED BY <2>1, <2>2
<1>3. /\ link' \in [Links -> Link] /\ inflightPoll' \in Promises
      /\ \A j \in Links : Kept(j) /\ (link[j].at = "handler" => Same(j))
  <2>1. CASE Emit
    BY <1>1, <2>1 DEF Emit, chainVars, SorTyped, Kept, Same
  <2>2. CASE Stop
    <3>1. link \in [Links -> Link] /\ inflightPoll' \in Promises
      BY <1>1, <2>2 DEF Stop, SorTyped
    <3>2. ASSUME NEW j \in Links PROVE link'[j] \in Link /\ Same(j)
      <4>1. PICK r \in Link : r = link[j]
        BY <3>1
      <4>2. PICK a : a = [r EXCEPT !.aborted = TRUE]
        OBVIOUS
      <4>3. a \in Link /\ a.at = r.at /\ a.from = r.from /\ a.events = r.events /\ a.next = r.next
        BY <4>2 DEF Link
      <4>4. link'[j] = a \/ link'[j] = r
        BY <2>2, <4>1, <4>2 DEF Stop
      <4> QED BY <4>1, <4>3, <4>4 DEF Same
    <3>3. link' = [j \in Links |-> link'[j]]
      BY <2>2 DEF Stop
    <3>4. link' \in [Links -> Link]
      BY <3>2, <3>3
    <3> QED BY <3>1, <3>2, <3>4 DEF Kept
  <2>3. CASE \E k \in Links : Start(k) \/ Interval(k) \/ RetryTimer(k)
    <3>1. PICK k \in Links : Start(k) \/ Interval(k) \/ RetryTimer(k)
      BY <2>3
    <3>2. Chain(k) \/ UNCHANGED <<link, inflightPoll>>
      BY <3>1 DEF Start, Interval, RetryTimer, chainVars
    <3>3. CASE Chain(k)
      BY <1>1, <3>3, ChainLinks
    <3>4. CASE UNCHANGED <<link, inflightPoll>>
      BY <1>1, <3>4 DEF SorTyped, Kept, Same
    <3> QED BY <3>2, <3>3, <3>4
  <2> QED BY <2>1, <2>2, <2>3
<1>4. SorTyped'
  BY <1>1, <1>2, <1>3 DEF SorTyped
<1>5. CursorsCovered'
  BY <1>1, <1>2 DEF CursorsCovered, Covered
<1> QED BY <1>2, <1>3, <1>4, <1>5, QuietStep

(* The coalescing store writes its buffer out, or fails to.                  *)
LEMMA FlushesKeep ==
    ASSUME SorInv, DoFlush \/ FlushWritten \/ FlushFails
    PROVE  SorInv'
<1>1. SorTyped /\ CursorsCovered
  BY DEF SorInv
<1>2. UNCHANGED <<emitted, link, inflightPoll, startLedger, seenIds, handled, skipped, handed, repeated,
                  overlapped, evicted>>
  BY DEF DoFlush, FlushWritten, FlushFails, chainVars, storyVars
<1>3. {buffer', writing', inner'} \subseteq {buffer, writing, inner, None}
  BY DEF DoFlush, FlushWritten, FlushFails
<1>4. Covered(None)
  BY SorobanAssumption DEF Covered, None, Events
<1>5. SorTyped'
  BY <1>1, <1>2, <1>3, LinkFacts DEF SorTyped
<1>6. CursorsCovered'
  <2>1. \A c \in {buffer, writing, inner, None} : Covered(c)'
    BY <1>1, <1>2, <1>4 DEF CursorsCovered, Covered
  <2>2. startLedger' # None => Covered(Before(startLedger))'
    BY <1>1, <1>2 DEF CursorsCovered, Covered
  <2>3. \A c : Covered(c)' <=> \A e \in Events : e <= c => e \in handled' \cup skipped'
    BY DEF Covered
  <2>4. \A c \in {buffer', writing', inner'} : \A e \in Events : e <= c => e \in handled' \cup skipped'
    BY <1>3, <2>1, <2>3
  <2>5. Covered(buffer)' /\ Covered(writing)' /\ Covered(inner)'
    BY <2>4 DEF Covered
  <2> QED BY <2>2, <2>5 DEF CursorsCovered
<1>7. \A j \in Links : Kept(j) /\ Same(j)
  BY <1>2 DEF Kept, Same
<1> QED BY <1>2, <1>5, <1>6, <1>7, QuietStep

(* A poll ends without saving a cursor: the subscriber is stopped, the       *)
(* request was aborted, or it failed and is tried again.                     *)
LEMMA EndsKeep ==
    ASSUME SorInv, NEW k \in Links,
           (PollOnce(k) /\ isStopped) \/ AbortedPoll(k) \/ StopsShort(k) \/ Retryable(k)
    PROVE  SorInv'
<1>1. SorTyped /\ CursorsCovered
  BY DEF SorInv
<1>2. /\ PollEnds(k) /\ link[k].at # "handler"
      /\ UNCHANGED <<emitted, startLedger, seenIds, buffer, writing, inner, handled, skipped, handed,
                     repeated, overlapped, evicted>>
  BY DEF PollOnce, AbortedPoll, StopsShort, Retryable, RpcFails, storeVars, storyVars
<1>3. /\ link' \in [Links -> Link] /\ inflightPoll' \in Promises
      /\ \A j \in Links : Kept(j)
      /\ \A j \in Links : link[j].at = "handler" => Same(j)
  BY <1>1, <1>2, EndLinks
<1>4. SorTyped'
  BY <1>1, <1>2, <1>3 DEF SorTyped
<1>5. CursorsCovered'
  BY <1>1, <1>2 DEF CursorsCovered, Covered
<1> QED BY <1>2, <1>3, <1>4, <1>5, QuietStep

(* A poll ends with a cursor to save: every event up to it is handled, or    *)
(* was given up with the expired cursor.                                     *)
LEMMA SavesKeep ==
    ASSUME SorInv, NEW k \in Links, SaveCursor(k) \/ CursorExpired(k)
    PROVE  SorInv'
<1>1. SorTyped /\ CursorsCovered /\ LinkSound(k)
  BY DEF SorInv
<1>2. link[k] \in Link /\ link[k].from \in Cursors /\ link[k].next \in Cursors /\ emitted \in Cursors
  BY <1>1 DEF SorTyped, Link, Cursors
<1>3. /\ PollEnds(k) /\ link[k].at # "handler"
      /\ UNCHANGED <<emitted, startLedger, seenIds, writing, inner, handled, handed, repeated,
                     overlapped, evicted>>
      /\ skipped \subseteq skipped'
  BY DEF SaveCursor, CursorExpired, RpcFails, storyVars
<1>4. /\ link' \in [Links -> Link] /\ inflightPoll' \in Promises
      /\ \A j \in Links : Kept(j)
      /\ \A j \in Links : link[j].at = "handler" => Same(j)
  BY <1>1, <1>3, EndLinks
<1>5. buffer' \in Cursors /\ \A e \in Events : e <= buffer' => e \in handled' \cup skipped'
  <2>1. CASE SaveCursor(k)
    <3>1. /\ buffer' = link[k].next /\ link[k].at = "loop" /\ link[k].events = {}
          /\ handled' = handled /\ skipped' = skipped
      BY <2>1 DEF SaveCursor, PageDone, storyVars
    <3> QED BY <1>1, <1>2, <3>1 DEF LinkSound
  <2>2. CASE CursorExpired(k)
    <3>1. /\ buffer' = emitted /\ link[k].at = "pages"
          /\ skipped' = skipped \cup {n \in Events : n > link[k].from /\ n <= emitted}
      BY <2>2 DEF CursorExpired
    <3>2. \A e \in Events : e <= link[k].from => e \in handled \cup skipped
      BY <1>1, <3>1 DEF LinkSound, Covered
    <3>3. \A e \in Events : e <= link[k].from \/ e > link[k].from
      BY <1>2, SorobanAssumption DEF Events, Cursors, None
    <3> QED BY <1>2, <1>3, <3>1, <3>2, <3>3
  <2> QED BY <2>1, <2>2
<1>6. SorTyped'
  BY <1>1, <1>3, <1>4, <1>5 DEF SorTyped
<1>7. CursorsCovered'
  BY <1>1, <1>3, <1>5 DEF CursorsCovered, Covered
<1> QED BY <1>3, <1>4, <1>6, <1>7, QuietStep

(* What a poll reads before it asks: the stored cursor, else the ledger it   *)
(* started with, else the latest ledger.                                     *)
LEMMA ReadsKeep ==
    ASSUME SorInv, NEW k \in Links, ReadCursor(k) \/ LedgerAnswers(k)
    PROVE  SorInv'
<1>1. SorTyped /\ CursorsCovered
  BY DEF SorInv
<1>2. PICK r \in Link : r = link[k]
  BY <1>1 DEF SorTyped
<1>3. /\ UNCHANGED <<emitted, seenIds, buffer, writing, inner, handled, handed, repeated, overlapped,
                     evicted>>
      /\ skipped \subseteq skipped' /\ link[k].at \in {"cursor", "ledger"}
  BY DEF ReadCursor, LedgerAnswers, storeVars, storyVars
<1>4. \A c \in Cursors : /\ [r EXCEPT !.at = "pages", !.from = c] \in Link
                         /\ [r EXCEPT !.at = "pages", !.from = c].at = "pages"
                         /\ [r EXCEPT !.at = "pages", !.from = c].from = c
  BY DEF Link, Awaits
<1>5. [r EXCEPT !.at = "ledger"] \in Link /\ [r EXCEPT !.at = "ledger"].at = "ledger"
  BY DEF Link, Awaits
<1>6. \A c \in Cursors : c # None => Before(c) \in Cursors /\ Before(c) \in Nat
  BY SorobanAssumption DEF Cursors, None, Before
<1>7. \E x \in Link :
         /\ GoesOn(k, x)
         /\ x.at = "pages" => \A e \in Events : e <= x.from => e \in handled' \cup skipped'
         /\ x.at \in {"ledger", "pages"}
         /\ startLedger' \in Cursors
         /\ startLedger' # None =>
               \A e \in Events : e <= Before(startLedger') => e \in handled' \cup skipped'
  <2>1. CASE ReadCursor(k)
    <3>1. UNCHANGED <<startLedger, handled, skipped>> /\ startLedger \in Cursors
      BY <1>1, <2>1 DEF ReadCursor, storyVars, SorTyped
    <3>2. startLedger # None =>
             \A e \in Events : e <= Before(startLedger) => e \in handled \cup skipped
      BY <1>1 DEF CursorsCovered, Covered
    <3>3. CASE StoredCursor # None
      <4>1. StoredCursor \in Cursors
            /\ \A e \in Events : e <= StoredCursor => e \in handled \cup skipped
        BY <1>1 DEF SorTyped, StoredCursor, CursorsCovered, Covered
      <4>2. GoesOn(k, [r EXCEPT !.at = "pages", !.from = StoredCursor])
        BY <1>2, <2>1, <3>3 DEF ReadCursor
      <4>3. PICK x : x = [r EXCEPT !.at = "pages", !.from = StoredCursor]
        OBVIOUS
      <4>4. x \in Link /\ x.at = "pages" /\ x.from = StoredCursor
        BY <1>4, <4>1, <4>3
      <4> QED BY <3>1, <3>2, <4>1, <4>2, <4>3, <4>4
    <3>4. CASE StoredCursor = None /\ startLedger # None
      <4>1. PICK c \in Cursors : c = Before(startLedger)
        BY <1>6, <3>1, <3>4
      <4>2. GoesOn(k, [r EXCEPT !.at = "pages", !.from = c])
        BY <1>2, <2>1, <3>4, <4>1 DEF ReadCursor
      <4>3. PICK x : x = [r EXCEPT !.at = "pages", !.from = c]
        OBVIOUS
      <4>4. x \in Link /\ x.at = "pages" /\ x.from = c
        BY <1>4, <4>3
      <4> QED BY <3>1, <3>2, <3>4, <4>1, <4>2, <4>3, <4>4
    <3>5. CASE StoredCursor = None /\ startLedger = None
      <4>1. GoesOn(k, [r EXCEPT !.at = "ledger"])
        BY <1>2, <2>1, <3>5 DEF ReadCursor
      <4>2. PICK x : x = [r EXCEPT !.at = "ledger"]
        OBVIOUS
      <4> QED BY <1>5, <3>1, <3>2, <4>1, <4>2
    <3> QED BY <3>3, <3>4, <3>5
  <2>2. CASE LedgerAnswers(k)
    <3>1. PICK first : first = IF emitted < Lookback THEN 0 ELSE emitted - Lookback
      OBVIOUS
    <3>2. first \in 0..NumEvents
      BY <1>1, <3>1, SorobanAssumption DEF SorTyped
    <3>3. first \in Cursors /\ first # None
      BY <3>2, SorobanAssumption DEF Cursors, None
    <3>4. PICK c \in Cursors : c = Before(first)
      BY <1>6, <3>3
    <3>5. c \in Nat
      BY <1>6, <3>3, <3>4
    <3>6. /\ startLedger' = first /\ skipped' = skipped \cup 1..c
          /\ GoesOn(k, [r EXCEPT !.at = "pages", !.from = c])
      BY <1>2, <2>2, <3>1, <3>4 DEF LedgerAnswers
    <3>7. PICK x : x = [r EXCEPT !.at = "pages", !.from = c]
      OBVIOUS
    <3>8. x \in Link /\ x.at = "pages" /\ x.from = c
      BY <1>4, <3>7
    <3>9. \A e \in Events : e <= c => e \in 1..c
      BY <3>5, SorobanAssumption DEF Events
    <3>10. \A e \in Events : e <= c => e \in handled' \cup skipped'
      BY <3>6, <3>9
    <3> QED BY <3>3, <3>4, <3>6, <3>7, <3>8, <3>10
  <2> QED BY <2>1, <2>2
<1>8. PICK x \in Link :
         /\ GoesOn(k, x)
         /\ x.at = "pages" => \A e \in Events : e <= x.from => e \in handled' \cup skipped'
         /\ x.at \in {"ledger", "pages"}
         /\ startLedger' \in Cursors
         /\ startLedger' # None =>
               \A e \in Events : e <= Before(startLedger') => e \in handled' \cup skipped'
  BY <1>7
<1>9. /\ link' \in [Links -> Link] /\ inflightPoll' \in Promises
      /\ link'[k] = x /\ \A j \in Links : j # k => Same(j)
  BY <1>1, <1>8, GoLinks
<1>10. SorTyped'
  BY <1>1, <1>3, <1>8, <1>9 DEF SorTyped
<1>11. CursorsCovered'
  <2>1. startLedger' # None => Covered(Before(startLedger))'
    BY <1>8 DEF Covered, Before
  <2> QED BY <1>1, <1>3, <2>1 DEF CursorsCovered, Covered
<1>12. k \in Polling /\ LinkSound(k)'
  BY <1>3, <1>8, <1>9 DEF Polling, LinkSound, Covered
<1>13. \A j \in Links : link[j].at = "handler" => Same(j)
  BY <1>3, <1>9
<1>14. \A j \in Links : Kept(j) \/ (j \in Polling /\ LinkSound(j)')
  BY <1>9, <1>12 DEF Kept
<1> QED BY <1>3, <1>10, <1>11, <1>13, <1>14, QuietStep

(* The pages answer: with one group, what the poll holds is all there is up  *)
(* to the cursor it will save.                                               *)
LEMMA PagesKeep ==
    ASSUME OneGroup, SorInv, NEW k \in Links, PagesAnswer(k)
    PROVE  SorInv'
<1>1. SorTyped /\ CursorsCovered /\ LinkSound(k)
  BY DEF SorInv
<1>2. PICK r \in Link : r = link[k]
  BY <1>1 DEF SorTyped
<1>3. PICK c \in Cursors : c = r.from
  BY DEF Link
<1>4. PICK E, n : E = AllEvents(c) /\ n = NextCursor(c)
  OBVIOUS
<1>5. E \subseteq Events /\ n \in Cursors /\ \A e \in Events : e > c /\ e <= n => e \in E
  BY <1>1, <1>4, PageCovers DEF SorTyped
<1>6. /\ link[k].at = "pages"
      /\ GoesOn(k, [r EXCEPT !.at = "loop", !.events = E, !.next = n])
      /\ UNCHANGED <<emitted, startLedger, seenIds, buffer, writing, inner, handled, skipped, handed,
                     repeated, overlapped, evicted>>
  BY <1>2, <1>3, <1>4 DEF PagesAnswer, storeVars, storyVars
<1>7. PICK x : x = [r EXCEPT !.at = "loop", !.events = E, !.next = n]
  OBVIOUS
<1>8. x \in Link /\ x.at = "loop" /\ x.events = E /\ x.next = n
  BY <1>5, <1>7 DEF Link, Awaits
<1>9. /\ link' \in [Links -> Link] /\ inflightPoll' \in Promises
      /\ link'[k] = x /\ \A j \in Links : j # k => Same(j)
  BY <1>1, <1>6, <1>7, <1>8, GoLinks
<1>10. \A e \in Events : e <= n => e \in handled \cup skipped \cup E
  <2>1. \A e \in Events : e <= c => e \in handled \cup skipped
    BY <1>1, <1>2, <1>3, <1>6 DEF LinkSound, Covered
  <2>2. \A e \in Events : e <= c \/ e > c
    BY SorobanAssumption DEF Events, Cursors, None
  <2> QED BY <1>5, <2>1, <2>2
<1>11. SorTyped'
  BY <1>1, <1>6, <1>9 DEF SorTyped
<1>12. CursorsCovered'
  BY <1>1, <1>6 DEF CursorsCovered, Covered
<1>13. k \in Polling /\ LinkSound(k)'
  BY <1>6, <1>8, <1>9, <1>10 DEF Polling, LinkSound
<1>14. \A j \in Links : Kept(j) \/ (j \in Polling /\ LinkSound(j)')
  BY <1>9, <1>13 DEF Kept
<1>15. \A j \in Links : link[j].at = "handler" => Same(j)
  BY <1>6, <1>9
<1> QED BY <1>6, <1>11, <1>12, <1>14, <1>15, QuietStep

(* The event a poll has come to is one of those it holds.                    *)
LEMMA CurrentFacts ==
    ASSUME SorTyped, NEW k \in Links, link[k].events # {}
    PROVE  Current(k) \in link[k].events /\ Current(k) \in Events
<1>1. link[k].events \subseteq Events
  BY DEF SorTyped, Link
<1>2. NumEvents \in Nat /\ link[k].events \subseteq 0..NumEvents
  BY <1>1, SorobanAssumption DEF Events
<1> QED BY <1>1, <1>2, MinOfNaturals DEF Current

(* An event of the window is passed over: it is handled.                     *)
LEMMA SkipKeeps ==
    ASSUME SorInv, NEW k \in Links, SkipSeen(k)
    PROVE  SorInv'
<1>1. SorTyped /\ CursorsCovered /\ LinkSound(k) /\ SeenHandled
  BY DEF SorInv
<1>2. PICK r \in Link : r = link[k]
  BY <1>1 DEF SorTyped
<1>3. PICK e : e = Current(k)
  OBVIOUS
<1>4. /\ link[k].at = "loop" /\ link[k].events # {} /\ Contains(seenIds, e)
      /\ seenIds' = Append(RemoveFirst(seenIds, e), e)
      /\ GoesOn(k, [r EXCEPT !.events = r.events \ {e}])
      /\ UNCHANGED <<emitted, startLedger, buffer, writing, inner, handled, skipped, handed, repeated,
                     overlapped, evicted>>
  BY <1>2, <1>3 DEF SkipSeen, storeVars, storyVars
<1>5. e \in Events /\ e \in handled
  BY <1>1, <1>3, <1>4, CurrentFacts DEF SeenHandled
<1>6. seenIds' \in Seq(Events) /\ \A x : Contains(seenIds', x) <=> Contains(seenIds, x)
  <2>1. seenIds \in Seq(Events) /\ seenIds' = Append(RemoveFirst(seenIds, e), e)
    BY <1>1, <1>4 DEF SorTyped
  <2>2. seenIds' \in Seq(Events) /\ \A x : Contains(seenIds', x) <=> Contains(seenIds, x) \/ x = e
    BY <1>5, <2>1, TouchFacts
  <2> QED BY <1>4, <2>2
<1>7. PICK x : x = [r EXCEPT !.events = r.events \ {e}]
  OBVIOUS
<1>8. x \in Link /\ x.at = r.at /\ x.events = r.events \ {e} /\ x.next = r.next
  BY <1>7 DEF Link
<1>9. /\ link' \in [Links -> Link] /\ inflightPoll' \in Promises
      /\ link'[k] = x /\ \A j \in Links : j # k => Same(j)
  BY <1>1, <1>4, <1>7, <1>8, GoLinks
<1>10. SorTyped'
  BY <1>1, <1>4, <1>6, <1>9 DEF SorTyped
<1>11. CursorsCovered'
  BY <1>1, <1>4 DEF CursorsCovered, Covered
<1>12. k \in Polling /\ LinkSound(k)'
  BY <1>1, <1>2, <1>4, <1>5, <1>8, <1>9 DEF Polling, LinkSound
<1>13. \A j \in Links : Kept(j) \/ (j \in Polling /\ LinkSound(j)')
  BY <1>9, <1>12 DEF Kept
<1>14. \A j \in Links : link[j].at = "handler" => Same(j)
  BY <1>4, <1>9
<1> QED BY <1>4, <1>6, <1>10, <1>11, <1>13, <1>14, QuietStep

(* A poll is rejected before its loop.                                       *)
LEMMA RejectedKeeps ==
    ASSUME SorInv, NEW k \in Links, PollRejected(k)
    PROVE  SorInv'
<1>1. SorTyped /\ CursorsCovered /\ OneAtATime
  BY DEF SorInv
<1>2. /\ PollThrows(k) /\ link[k].at \in {"cursor", "ledger", "pages"}
      /\ UNCHANGED <<emitted, startLedger, seenIds, buffer, writing, inner, handled, skipped, handed,
                     repeated, overlapped, evicted>>
  BY DEF PollRejected, PollThrows, storeVars, storyVars
<1>3. link' \in [Links -> Link] /\ inflightPoll' \in Promises /\ \A j \in Links : Kept(j)
  BY <1>1, <1>2, ThrowLinks
<1>4. SorTyped'
  BY <1>1, <1>2, <1>3 DEF SorTyped
<1>5. CursorsCovered'
  BY <1>1, <1>2 DEF CursorsCovered, Covered
<1>6. ~overlapped => \A j \in Links : link[j].at # "handler"
  BY <1>1, <1>2 DEF OneAtATime, Polling
<1> QED BY <1>2, <1>3, <1>4, <1>5, <1>6, QuietStep

(* A poll starts; if another one is under way, polls overlap from here on.   *)
LEMMA PollStarts ==
    ASSUME SorInv, NEW k \in Links, PollOnce(k), ~isStopped
    PROVE  SorInv'
<1>1. SorTyped /\ CursorsCovered /\ SeenHandled /\ HandedOnce
  BY DEF SorInv
<1>2. /\ link[k].at = "waiting"
      /\ link' = [link EXCEPT ![k].at = "cursor"] /\ inflightPoll' = Inner(k)
      /\ overlapped' = (overlapped \/ Polling # {})
      /\ UNCHANGED <<emitted, startLedger, seenIds, buffer, writing, inner, handled, skipped, handed,
                     repeated, evicted>>
  BY DEF PollOnce, storeVars
<1>3. PICK r \in Link : r = link[k]
  BY <1>1 DEF SorTyped
<1>4. PICK x : x = [r EXCEPT !.at = "cursor"]
  OBVIOUS
<1>5. x \in Link /\ x.at = "cursor"
  BY <1>4 DEF Link, Awaits
<1>6. /\ link' \in [Links -> Link] /\ link'[k] = x
      /\ \A j \in Links : j # k => link'[j] = link[j]
  <2>1. link \in [Links -> Link] /\ link' = [link EXCEPT ![k] = x]
    BY <1>1, <1>2, <1>3, <1>4 DEF SorTyped
  <2> QED BY <1>5, <2>1
<1>7. SorTyped'
  BY <1>1, <1>2, <1>6, LinkFacts DEF SorTyped
<1>8. CursorsCovered' /\ SeenHandled'
  BY <1>1, <1>2 DEF CursorsCovered, Covered, SeenHandled
<1>9. \A j \in Links : LinkSound(j)'
  <2>1. ASSUME NEW j \in Links, j # k PROVE LinkSound(j)'
    <3>1. Kept(j) /\ LinkSound(j)
      BY <1>6, <2>1 DEF Kept, Same, SorInv
    <3> QED BY <1>2, <3>1, KeptSound
  <2>2. LinkSound(k)'
    BY <1>5, <1>6 DEF LinkSound
  <2> QED BY <2>1, <2>2
<1>10. OneAtATime'
  <2> SUFFICES ASSUME ~overlapped' PROVE \A i, j \in Polling' : i = j
    BY DEF OneAtATime
  <2>1. Polling = {}
    BY <1>2
  <2>2. \A j \in Polling' : j = k
    BY <1>6, <2>1 DEF Polling
  <2> QED BY <2>2
<1>11. HandedOnce'
  <2> SUFFICES ASSUME ~overlapped', ~evicted'
               PROVE  repeated' = {} /\ \A e \in handed' : Contains(seenIds', e) \/ WithHandler(e)'
    BY DEF HandedOnce
  <2>1. ~overlapped /\ ~evicted
    BY <1>1, <1>2 DEF SorTyped
  <2>2. repeated = {} /\ \A e \in handed : Contains(seenIds, e) \/ WithHandler(e)
    BY <1>1, <2>1 DEF HandedOnce
  <2>3. \A e : WithHandler(e) => WithHandler(e)'
    BY <1>2, <1>6 DEF WithHandler, Current
  <2> QED BY <1>2, <2>2, <2>3
<1> QED BY <1>7, <1>8, <1>9, <1>10, <1>11 DEF SorInv

(* The handler is given an event that is not in the window.                  *)
LEMMA DispatchKeeps ==
    ASSUME SorInv, NEW k \in Links, Dispatch(k)
    PROVE  SorInv'
<1>1. SorTyped /\ CursorsCovered /\ SeenHandled /\ HandedOnce /\ OneAtATime /\ LinkSound(k)
  BY DEF SorInv
<1>2. PICK r \in Link : r = link[k]
  BY <1>1 DEF SorTyped
<1>3. PICK e : e = Current(k)
  OBVIOUS
<1>4. /\ link[k].at = "loop" /\ link[k].events # {} /\ ~Contains(seenIds, e)
      /\ handed' = handed \cup {e} /\ repeated' = repeated \cup (handed \cap {e})
      /\ GoesOn(k, [r EXCEPT !.at = "handler"])
      /\ UNCHANGED <<emitted, startLedger, seenIds, buffer, writing, inner, handled, skipped,
                     overlapped, evicted>>
  BY <1>2, <1>3 DEF Dispatch, storeVars
<1>5. PICK x : x = [r EXCEPT !.at = "handler"]
  OBVIOUS
<1>6. x \in Link /\ x.at = "handler" /\ x.events = r.events /\ x.next = r.next
  BY <1>5 DEF Link, Awaits
<1>7. /\ link' \in [Links -> Link] /\ inflightPoll' \in Promises
      /\ link'[k] = x /\ \A j \in Links : j # k => Same(j)
  BY <1>1, <1>4, <1>5, <1>6, GoLinks
<1>8. SorTyped'
  BY <1>1, <1>4, <1>7 DEF SorTyped
<1>9. CursorsCovered' /\ SeenHandled'
  BY <1>1, <1>4 DEF CursorsCovered, Covered, SeenHandled
<1>10. \A j \in Links : LinkSound(j)'
  <2>1. ASSUME NEW j \in Links, j # k PROVE LinkSound(j)'
    <3>1. Kept(j) /\ LinkSound(j)
      BY <1>7, <2>1 DEF Kept, SorInv
    <3> QED BY <1>4, <3>1, KeptSound
  <2>2. LinkSound(k)'
    BY <1>1, <1>2, <1>4, <1>6, <1>7 DEF LinkSound
  <2> QED BY <2>1, <2>2
<1>11. Polling' \subseteq Polling
  BY <1>4, <1>7 DEF Polling, Same
<1>12. OneAtATime'
  BY <1>1, <1>4, <1>11 DEF OneAtATime
<1>13. HandedOnce'
  <2> SUFFICES ASSUME ~overlapped, ~evicted
               PROVE  repeated' = {} /\ \A d \in handed' : Contains(seenIds', d) \/ WithHandler(d)'
    BY <1>4 DEF HandedOnce
  <2>1. \A j \in Links : link[j].at # "handler"
    <3>1. k \in Polling /\ link[k].at # "handler"
      BY <1>4 DEF Polling
    <3> QED BY <1>1, <3>1 DEF OneAtATime, Polling
  <2>2. repeated = {} /\ \A d \in handed : Contains(seenIds, d)
    BY <1>1, <2>1 DEF HandedOnce, WithHandler
  <2>3. e \notin handed
    BY <1>4, <2>2
  <2>4. WithHandler(e)'
    BY <1>2, <1>3, <1>6, <1>7 DEF WithHandler, Current
  <2> QED BY <1>4, <2>2, <2>3, <2>4
<1> QED BY <1>8, <1>9, <1>10, <1>12, <1>13 DEF SorInv

(* The handler has completed: the event is handled, and its id is in the     *)
(* window unless it is too small to hold it.                                 *)
LEMMA ReturnKeeps ==
    ASSUME SorInv, NEW k \in Links, HandlerReturns(k)
    PROVE  SorInv'
<1>1. SorTyped /\ CursorsCovered /\ SeenHandled /\ HandedOnce /\ OneAtATime /\ LinkSound(k)
  BY DEF SorInv
<1>2. PICK r \in Link : r = link[k]
  BY <1>1 DEF SorTyped
<1>3. PICK e : e = Current(k)
  OBVIOUS
<1>4. PICK full : full = (Len(Append(RemoveFirst(seenIds, e), e)) > DedupCacheSize)
  OBVIOUS
<1>5. /\ link[k].at = "handler" /\ seenIds' = Recorded(e)
      /\ evicted' = (evicted \/ full) /\ handled' = handled \cup {e}
      /\ GoesOn(k, [r EXCEPT !.at = "loop", !.events = r.events \ {e}])
      /\ UNCHANGED <<emitted, startLedger, buffer, writing, inner, skipped, handed, repeated, overlapped>>
  BY <1>2, <1>3, <1>4 DEF HandlerReturns, storeVars
<1>6. link[k].events # {} /\ e \in Events
  <2>1. link[k].events # {}
    BY <1>1, <1>5 DEF LinkSound
  <2> QED BY <1>1, <1>3, <2>1, CurrentFacts
<1>7. /\ seenIds' \in Seq(Events)
      /\ \A y : Contains(seenIds', y) => Contains(seenIds, y) \/ y = e
      /\ ~full => \A y : Contains(seenIds, y) \/ y = e => Contains(seenIds', y)
  <2>1. seenIds \in Seq(Events)
    BY <1>1 DEF SorTyped
  <2> QED BY <1>4, <1>5, <1>6, <2>1, RecordedFacts
<1>8. PICK x : x = [r EXCEPT !.at = "loop", !.events = r.events \ {e}]
  OBVIOUS
<1>9. x \in Link /\ x.at = "loop" /\ x.events = r.events \ {e} /\ x.next = r.next
  BY <1>8 DEF Link, Awaits
<1>10. /\ link' \in [Links -> Link] /\ inflightPoll' \in Promises
       /\ link'[k] = x /\ \A j \in Links : j # k => Same(j)
  BY <1>1, <1>5, <1>8, <1>9, GoLinks
<1>11. SorTyped'
  <2>1. evicted' \in BOOLEAN
    BY <1>1, <1>4, <1>5 DEF SorTyped
  <2> QED BY <1>1, <1>5, <1>7, <1>10, <2>1 DEF SorTyped
<1>12. CursorsCovered' /\ SeenHandled'
  <2>1. CursorsCovered'
    BY <1>1, <1>5 DEF CursorsCovered, Covered
  <2>2. SeenHandled'
    BY <1>1, <1>5, <1>7 DEF SeenHandled
  <2> QED BY <2>1, <2>2
<1>13. \A j \in Links : LinkSound(j)'
  <2>1. ASSUME NEW j \in Links, j # k PROVE LinkSound(j)'
    <3>1. Kept(j) /\ LinkSound(j)
      BY <1>10, <2>1 DEF Kept, SorInv
    <3> QED BY <1>5, <3>1, KeptSound
  <2>2. LinkSound(k)'
    BY <1>1, <1>2, <1>5, <1>9, <1>10 DEF LinkSound
  <2> QED BY <2>1, <2>2
<1>14. OneAtATime'
  <2>1. Polling' \subseteq Polling
    BY <1>5, <1>10 DEF Polling, Same
  <2> QED BY <1>1, <1>5, <2>1 DEF OneAtATime
<1>15. HandedOnce'
  <2> SUFFICES ASSUME ~overlapped, ~evicted'
               PROVE  repeated' = {} /\ \A d \in handed' : Contains(seenIds', d) \/ WithHandler(d)'
    BY <1>5 DEF HandedOnce
  <2>1. ~evicted /\ ~full
    BY <1>1, <1>4, <1>5 DEF SorTyped
  <2>2. repeated = {} /\ \A d \in handed : Contains(seenIds, d) \/ WithHandler(d)
    BY <1>1, <2>1 DEF HandedOnce
  <2>3. \A j \in Links : link[j].at = "handler" => j = k
    BY <1>1, <1>5 DEF OneAtATime, Polling
  <2>4. \A d : WithHandler(d) => d = e
    BY <1>3, <2>3 DEF WithHandler
  <2> QED BY <1>5, <1>7, <2>1, <2>2, <2>4
<1> QED BY <1>11, <1>12, <1>13, <1>14, <1>15 DEF SorInv

(* The handler throws: the event is not counted as handed out, and will be   *)
(* fetched again.                                                            *)
LEMMA ThrowKeeps ==
    ASSUME SorInv, NEW k \in Links, HandlerThrows(k)
    PROVE  SorInv'
<1>1. SorTyped /\ CursorsCovered /\ SeenHandled /\ HandedOnce /\ OneAtATime
  BY DEF SorInv
<1>2. /\ PollThrows(k) /\ link[k].at = "handler" /\ handed' = handed \ {Current(k)}
      /\ UNCHANGED <<emitted, startLedger, seenIds, buffer, writing, inner, handled, skipped, repeated,
                     overlapped, evicted>>
  BY DEF HandlerThrows, PollThrows, storeVars
<1>3. link' \in [Links -> Link] /\ inflightPoll' \in Promises /\ \A j \in Links : Kept(j)
  BY <1>1, <1>2, ThrowLinks
<1>4. SorTyped'
  BY <1>1, <1>2, <1>3 DEF SorTyped
<1>5. CursorsCovered' /\ SeenHandled'
  BY <1>1, <1>2 DEF CursorsCovered, Covered, SeenHandled
<1>6. \A j \in Links : LinkSound(j)'
  BY <1>2, <1>3, KeptSound DEF SorInv
<1>7. OneAtATime'
  <2>1. Polling' \subseteq Polling
    BY <1>3 DEF Polling, Kept, Same
  <2> QED BY <1>1, <1>2, <2>1 DEF OneAtATime
<1>8. HandedOnce'
  <2> SUFFICES ASSUME ~overlapped, ~evicted
               PROVE  repeated' = {} /\ \A d \in handed' : Contains(seenIds', d)
    BY <1>2 DEF HandedOnce
  <2>1. repeated = {} /\ \A d \in handed : Contains(seenIds, d) \/ WithHandler(d)
    BY <1>1 DEF HandedOnce
  <2>2. \A j \in Links : link[j].at = "handler" => j = k
    BY <1>1, <1>2 DEF OneAtATime, Polling
  <2>3. \A d : WithHandler(d) => d = Current(k)
    BY <2>2 DEF WithHandler
  <2> QED BY <1>2, <2>1, <2>3
<1> QED BY <1>4, <1>5, <1>6, <1>7, <1>8 DEF SorInv

(* The process dies and the next one starts with the stored cursor, which is *)
(* covered.                                                                  *)
LEMMA ExitKeeps ==
    ASSUME SorInv, Exit
    PROVE  SorInv'
<1>1. SorTyped /\ CursorsCovered
  BY DEF SorInv
<1>2. /\ link' = [j \in Links |-> Free] /\ inflightPoll' = Settled
      /\ startLedger' = None /\ seenIds' = <<>> /\ buffer' = None /\ writing' = None
      /\ inner' \in {inner, writing}
      /\ handed' = {} /\ repeated' = {} /\ overlapped' = FALSE /\ evicted' = FALSE
      /\ UNCHANGED <<emitted, handled, skipped>>
  BY DEF Exit
<1>3. SorTyped'
  BY <1>1, <1>2, LinkFacts, EmptySeq DEF SorTyped
<1>4. CursorsCovered'
  <2>1. \A e \in Events : ~(e <= None)
    BY SorobanAssumption DEF None, Events
  <2>2. \A e \in Events : e <= inner' => e \in handled \cup skipped
    BY <1>1, <1>2 DEF CursorsCovered, Covered
  <2> QED BY <1>2, <2>1, <2>2 DEF CursorsCovered, Covered
<1>5. \A j \in Links : link'[j].at = "free"
  BY <1>2, LinkFacts
<1>6. (\A j \in Links : LinkSound(j)') /\ OneAtATime'
  BY <1>5 DEF LinkSound, OneAtATime, Polling
<1>7. SeenHandled' /\ HandedOnce'
  <2>1. \A e : ~Contains(seenIds', e)
    BY <1>2, EmptySeq DEF Contains
  <2> QED BY <1>2, <2>1 DEF SeenHandled, HandedOnce
<1> QED BY <1>3, <1>4, <1>6, <1>7 DEF SorInv

(* Nothing is polled, stored or handed out at first.                         *)
LEMMA SorobanStarts == SorobanInit => SorInv
<1> SUFFICES ASSUME SorobanInit PROVE SorInv
  OBVIOUS
<1>1. /\ emitted = 0 /\ link = [j \in Links |-> Free] /\ inflightPoll = Settled
      /\ startLedger = None /\ seenIds = <<>> /\ buffer = None /\ writing = None /\ inner = None
      /\ handed = {} /\ repeated = {} /\ overlapped = FALSE /\ evicted = FALSE
  BY DEF SorobanInit
<1>2. SorTyped
  <2>1. emitted \in 0..NumEvents
    BY <1>1, SorobanAssumption
  <2>2. link \in [Links -> Link] /\ seenIds \in Seq(Events)
    BY <1>1, LinkFacts, EmptySeq
  <2> QED BY <1>1, <2>1, <2>2, LinkFacts DEF SorTyped
<1>3. CursorsCovered
  <2>1. \A e \in Events : ~(e <= None)
    BY SorobanAssumption DEF None, Events
  <2> QED BY <1>1, <2>1 DEF CursorsCovered, Covered
<1>4. \A j \in Links : link[j].at = "free"
  BY <1>1, LinkFacts
<1>5. (\A j \in Links : LinkSound(j)) /\ OneAtATime
  BY <1>4 DEF LinkSound, OneAtATime, Polling
<1>6. SeenHandled /\ HandedOnce
  <2>1. \A e : ~Contains(seenIds, e)
    BY <1>1, EmptySeq DEF Contains
  <2> QED BY <1>1, <2>1 DEF SeenHandled, HandedOnce
<1> QED BY <1>2, <1>3, <1>5, <1>6 DEF SorInv

(* Every step of the subscriber and its store keeps the invariant.           *)
LEMMA SorobanStep ==
    ASSUME OneGroup, SorInv, [SorobanNext]_sorobanVars
    PROVE  SorInv'
<1>1. CASE UNCHANGED sorobanVars
  <2>1. UNCHANGED <<emitted, link, inflightPoll, startLedger, seenIds, buffer, writing, inner,
                    handled, skipped, handed, repeated, overlapped, evicted>>
    BY <1>1 DEF sorobanVars, chainVars, storeVars, storyVars
  <2>2. SorTyped' /\ CursorsCovered'
    BY <2>1 DEF SorInv, SorTyped, CursorsCovered, Covered
  <2>3. \A j \in Links : Kept(j) /\ Same(j)
    BY <2>1 DEF Kept, Same
  <2> QED BY <2>1, <2>2, <2>3, QuietStep
<1>2. CASE Emit \/ Stop \/ \E k \in Links : Start(k) \/ Interval(k) \/ RetryTimer(k)
  BY <1>2, TicksKeep
<1>3. CASE Exit
  BY <1>3, ExitKeeps
<1>4. CASE DoFlush \/ FlushWritten \/ FlushFails
  BY <1>4, FlushesKeep
<1>5. ASSUME NEW k \in Links, PollStep(k) PROVE SorInv'
  <2>1. CASE PollOnce(k)
    BY <2>1, EndsKeep, PollStarts
  <2>2. CASE ReadCursor(k) \/ LedgerAnswers(k)
    BY <2>2, ReadsKeep
  <2>3. CASE PagesAnswer(k)
    BY <2>3, PagesKeep
  <2>4. CASE AbortedPoll(k) \/ StopsShort(k)
    BY <2>4, EndsKeep
  <2>5. CASE SkipSeen(k)
    BY <2>5, SkipKeeps
  <2>6. CASE Dispatch(k)
    BY <2>6, DispatchKeeps
  <2>7. CASE HandlerReturns(k)
    BY <2>7, ReturnKeeps
  <2>8. CASE SaveCursor(k)
    BY <2>8, SavesKeep
  <2> QED BY <1>5, <2>1, <2>2, <2>3, <2>4, <2>5, <2>6, <2>7, <2>8 DEF PollStep
<1>6. ASSUME NEW k \in Links, PollFailure(k) PROVE SorInv'
  <2>1. CASE Retryable(k)
    BY <2>1, EndsKeep
  <2>2. CASE CursorExpired(k)
    BY <2>2, SavesKeep
  <2>3. CASE PollRejected(k)
    BY <2>3, RejectedKeeps
  <2>4. CASE HandlerThrows(k)
    BY <2>4, ThrowKeeps
  <2> QED BY <1>6, <2>1, <2>2, <2>3, <2>4 DEF PollFailure
<1> QED BY <1>1, <1>2, <1>3, <1>4, <1>5, <1>6 DEF SorobanNext

(* With the filters in one group, no saved cursor of the Soroban subscriber  *)
(* is ahead of its handler, whatever polls, flushes, stops and deaths of the *)
(* process interleave, and one process hands an event out again only after   *)
(* polls overlapped or the window of seen ids was full (poll, recordSeen,    *)
(* CoalescingStore).                                                         *)
THEOREM SorobanIsSafe ==
    ASSUME OneGroup
    PROVE  SorobanSpec => []SorobanSafe
<1>1. SorInv => SorobanSafe
  <2> SUFFICES ASSUME SorInv PROVE SorobanSafe
    OBVIOUS
  <2>1. CursorCoversHandled
    BY DEF SorInv, CursorsCovered, Covered, CursorCoversHandled
  <2>2. RepeatedOnlyByOverlap
    BY DEF SorInv, HandedOnce, RepeatedOnlyByOverlap
  <2> QED BY <2>1, <2>2 DEF SorobanSafe
<1>2. SorInv /\ [SorobanNext]_sorobanVars => SorInv'
  BY SorobanStep
<1> QED BY <1>1, <1>2, SorobanStarts, PTL DEF SorobanSpec

-----------------------------------------------------------------------------
(* EventRouting                                                              *)

(* What the type of an event says of the operation it was made of.           *)
LEMMA NormalizeFacts ==
    ASSUME NEW o \in Operations, NEW type, type = Normalize(o),
           type \notin {"dropped", "unrecognized"}
    PROVE  /\ type = "unknown" <=> o.type = "payment"
           /\ type = "claimable.created" <=> o.type = "create_claimable_balance"
           /\ type = "account.merged" <=> o.type = "account_merge"
           /\ type \in {"account.created", "trustline.authorized", "trustline.deauthorized"} <=>
                 o.type \in {"create_account", "allow_trust", "set_trust_line_flags"}
<1>1. o.complete
  BY DEF Normalize
<1>2. /\ DOMAIN AccountType = {"create_account", "bump_sequence"}
      /\ AccountType["create_account"] = "account.created"
      /\ AccountType["bump_sequence"] = "account.bump_sequence"
  BY DEF AccountType
<1>3. /\ DOMAIN ClaimableType = {"create_claimable_balance", "claim_claimable_balance"}
      /\ ClaimableType["create_claimable_balance"] = "claimable.created"
      /\ ClaimableType["claim_claimable_balance"] = "claimable.claimed"
  BY DEF ClaimableType
<1>4. /\ DOMAIN PoolType = {"liquidity_pool_deposit", "liquidity_pool_withdraw"}
      /\ PoolType["liquidity_pool_deposit"] = "lp.deposited"
      /\ PoolType["liquidity_pool_withdraw"] = "lp.withdrawn"
  BY DEF PoolType
<1> DEFINE t == o.type
<1>5. CASE t = "payment"
  BY <1>1, <1>2, <1>3, <1>4, <1>5 DEF Normalize
<1>6. CASE t = "account_merge"
  BY <1>1, <1>2, <1>3, <1>4, <1>6 DEF Normalize
<1>7. CASE t = "set_options"
  BY <1>1, <1>2, <1>3, <1>4, <1>7 DEF Normalize, OptionsType
<1>8. CASE t \in {"create_account", "bump_sequence"}
  BY <1>1, <1>2, <1>3, <1>4, <1>8 DEF Normalize
<1>9. CASE t \in {"manage_sell_offer", "manage_buy_offer"}
  <2>1. type = OfferType(o.what)
    BY <1>1, <1>2, <1>3, <1>4, <1>9 DEF Normalize
  <2> QED BY <1>9, <2>1 DEF OfferType
<1>10. CASE t = "manage_data"
  <2>1. type = DataType(o.what)
    BY <1>1, <1>2, <1>3, <1>4, <1>10 DEF Normalize
  <2> QED BY <1>10, <2>1 DEF DataType
<1>11. CASE t = "change_trust"
  <2>1. type = ResolveTrustlineEventType(o.what)
    BY <1>1, <1>2, <1>3, <1>4, <1>11 DEF Normalize
  <2> QED BY <1>11, <2>1 DEF ResolveTrustlineEventType
<1>12. CASE t \in {"create_claimable_balance", "claim_claimable_balance"}
  <2>1. type = ClaimableType[t]
    BY <1>1, <1>2, <1>3, <1>4, <1>12 DEF Normalize
  <2> QED BY <1>3, <1>12, <2>1
<1>13. CASE t \in {"liquidity_pool_deposit", "liquidity_pool_withdraw"}
  <2>1. type = PoolType[t]
    BY <1>1, <1>2, <1>3, <1>4, <1>13 DEF Normalize
  <2> QED BY <1>4, <1>13, <2>1
<1>14. CASE t \in {"allow_trust", "set_trust_line_flags"}
  <2>1. type = AuthType(o.what)
    BY <1>1, <1>2, <1>3, <1>4, <1>14 DEF Normalize
  <2> QED BY <1>14, <2>1 DEF AuthType
<1>15. CASE t = "clawback"
  BY <1>1, <1>2, <1>3, <1>4, <1>15 DEF Normalize
<1>16. o.type \in DOMAIN Kinds
  BY DEF Operations
<1>17. \/ t = "payment" \/ t = "account_merge" \/ t = "set_options"
       \/ t \in {"create_account", "bump_sequence"} \/ t \in {"manage_sell_offer", "manage_buy_offer"}
       \/ t = "manage_data" \/ t = "change_trust"
       \/ t \in {"create_claimable_balance", "claim_claimable_balance"}
       \/ t \in {"liquidity_pool_deposit", "liquidity_pool_withdraw"}
       \/ t \in {"allow_trust", "set_trust_line_flags"} \/ t = "clawback"
  BY <1>16 DEF Kinds
<1> QED BY <1>5, <1>6, <1>7, <1>8, <1>9, <1>10, <1>11, <1>12, <1>13, <1>14, <1>15, <1>17

(* s tells each pair of A once, and nothing else.                            *)
Once(s, A) == s \in Seq(A) /\ ToSet(s) = A /\ IsInjective(s)

(* One after the other.                                                      *)
LEMMA OnceConcat ==
    ASSUME NEW s, NEW t, NEW A, NEW B, Once(s, A), Once(t, B), A \cap B = {}
    PROVE  Once(s \o t, A \cup B)
<1>1. /\ s \in Seq(A) /\ Len(s) \in Nat /\ DOMAIN s = 1..Len(s) /\ \A i \in 1..Len(s) : s[i] \in A
      /\ t \in Seq(B) /\ Len(t) \in Nat /\ DOMAIN t = 1..Len(t) /\ \A i \in 1..Len(t) : t[i] \in B
  BY LenProperties, ElementOfSeq DEF Once
<1>2. s \in Seq(A \cup B) /\ t \in Seq(A \cup B)
  <2>1. A \subseteq A \cup B /\ B \subseteq A \cup B
    OBVIOUS
  <2> QED BY <1>1, <2>1, SeqMonotonic
<1>3. PICK r : r = s \o t
  OBVIOUS
<1>4. /\ r \in Seq(A \cup B) /\ Len(r) = Len(s) + Len(t)
      /\ \A i \in 1..(Len(s) + Len(t)) : r[i] = IF i <= Len(s) THEN s[i] ELSE t[i - Len(s)]
  BY <1>2, <1>3, ConcatProperties
<1>5. DOMAIN r = 1..(Len(s) + Len(t))
  BY <1>4, LenProperties
<1>6. \A i \in 1..Len(s) : i \in DOMAIN r /\ r[i] = s[i]
  BY <1>1, <1>4, <1>5
<1>7. \A i \in 1..Len(t) : i + Len(s) \in DOMAIN r /\ r[i + Len(s)] = t[i]
  <2> SUFFICES ASSUME NEW i \in 1..Len(t)
               PROVE  i + Len(s) \in DOMAIN r /\ r[i + Len(s)] = t[i]
    OBVIOUS
  <2>1. i + Len(s) \in 1..(Len(s) + Len(t)) /\ ~(i + Len(s) <= Len(s)) /\ i + Len(s) - Len(s) = i
    BY <1>1
  <2> QED BY <1>4, <1>5, <2>1
<1>8. \A i \in DOMAIN r : \/ i \in 1..Len(s) /\ r[i] = s[i]
                          \/ i - Len(s) \in 1..Len(t) /\ r[i] = t[i - Len(s)]
  BY <1>1, <1>4, <1>5
<1>9. ToSet(r) = A \cup B
  <2>1. ToSet(r) = {r[i] : i \in DOMAIN r} /\ A = {s[i] : i \in 1..Len(s)}
        /\ B = {t[i] : i \in 1..Len(t)}
    BY <1>1 DEF ToSet, Once
  <2>2. \A x \in A : \E i \in DOMAIN r : r[i] = x
    BY <1>6, <2>1
  <2>3. \A x \in B : \E i \in DOMAIN r : r[i] = x
    BY <1>7, <2>1
  <2>4. \A i \in DOMAIN r : r[i] \in A \cup B
    BY <1>1, <1>8
  <2>5. \A x : x \in ToSet(r) <=> \E i \in DOMAIN r : r[i] = x
    BY <2>1
  <2>6. \A x : x \in ToSet(r) <=> x \in A \cup B
    BY <2>2, <2>3, <2>4, <2>5
  <2> QED BY <2>6
<1>10. IsInjective(r)
  <2> SUFFICES ASSUME NEW i \in DOMAIN r, NEW j \in DOMAIN r, r[i] = r[j] PROVE i = j
    BY DEF IsInjective
  <2>1. /\ \A a, b \in 1..Len(s) : s[a] = s[b] => a = b
        /\ \A a, b \in 1..Len(t) : t[a] = t[b] => a = b
    BY <1>1 DEF Once, IsInjective
  <2>2. CASE i \in 1..Len(s) /\ r[i] = s[i] /\ j \in 1..Len(s) /\ r[j] = s[j]
    BY <2>1, <2>2
  <2>3. CASE /\ i - Len(s) \in 1..Len(t) /\ r[i] = t[i - Len(s)]
             /\ j - Len(s) \in 1..Len(t) /\ r[j] = t[j - Len(s)]
    <3>1. i - Len(s) = j - Len(s)
      BY <2>1, <2>3
    <3>2. i \in Int /\ j \in Int
      BY <1>1, <1>5
    <3> QED BY <1>1, <3>1, <3>2
  <2>4. CASE (r[i] \in A /\ r[j] \in B) \/ (r[i] \in B /\ r[j] \in A)
    BY <2>4
  <2> QED BY <1>1, <1>8, <2>2, <2>3, <2>4
<1> QED BY <1>3, <1>4, <1>9, <1>10 DEF Once

(* An account is told once if it is watched and its filter passes.           *)
LEMMA OnceTold ==
    /\ Once(<<>>, {})
    /\ \A a, type : Once(Tell(a, type), IF a \in watchedAccounts \ rejecting THEN {<<a, type>>} ELSE {})
<1>1. Once(<<>>, {})
  BY EmptySeq DEF Once, ToSet, IsInjective
<1>2. \A x : Once(<<x>>, {x})
  BY DEF Once, ToSet, IsInjective
<1> QED BY <1>1, <1>2 DEF Tell

(* What account a is due of an event.                                        *)
Due(a, type) == IF a \in watchedAccounts \ rejecting THEN {<<a, type>>} ELSE {}

(* Telling two accounts, or one that may have been told already.             *)
LEMMA TellingBoth ==
    /\ \A a, b, t, u : a # b => Once(Tell(a, t) \o Tell(b, u), Due(a, t) \cup Due(b, u))
    /\ \A s, A, a, t : Once(s, A) =>
          Once(s \o (IF <<a, t>> \in ToSet(s) THEN <<>> ELSE Tell(a, t)), A \cup Due(a, t))
<1>1. \A a, t : Once(Tell(a, t), Due(a, t))
  BY OnceTold DEF Due
<1>2. ASSUME NEW a, NEW b, NEW t, NEW u, a # b
      PROVE  Once(Tell(a, t) \o Tell(b, u), Due(a, t) \cup Due(b, u))
  <2>1. Due(a, t) \cap Due(b, u) = {}
    BY <1>2 DEF Due
  <2> QED BY <1>1, <2>1, OnceConcat
<1>3. ASSUME NEW s, NEW A, NEW a, NEW t, Once(s, A)
      PROVE  Once(s \o (IF <<a, t>> \in ToSet(s) THEN <<>> ELSE Tell(a, t)), A \cup Due(a, t))
  <2>1. ToSet(s) = A
    BY <1>3 DEF Once
  <2>2. CASE <<a, t>> \in ToSet(s)
    <3>1. Once(s \o <<>>, A \cup {})
      BY <1>3, OnceConcat, OnceTold
    <3>2. A \cup {} = A \cup Due(a, t)
      BY <2>1, <2>2 DEF Due
    <3> QED BY <2>2, <3>1, <3>2
  <2>3. CASE <<a, t>> \notin ToSet(s)
    <3>1. A \cap Due(a, t) = {}
      BY <2>1, <2>3 DEF Due
    <3>2. Once(s \o Tell(a, t), A \cup Due(a, t))
      BY <1>1, <1>3, <3>1, OnceConcat
    <3> QED BY <2>3, <3>2
  <2> QED BY <2>2, <2>3
<1> QED BY <1>2, <1>3

(* Whom an operation concerns.                                               *)
LEMMA ConcernedFacts ==
    ASSUME NEW o \in Operations, watchedAccounts \subseteq Accounts
    PROVE  /\ o.type \in TwoParty => Concerned(o) = {o.one, o.two}
           /\ o.type \in {"account_merge", "create_account"} => o.one # o.two
           /\ o.type = "create_claimable_balance" =>
                 Concerned(o) \cap watchedAccounts =
                    {o.one, o.claimants[1], o.claimants[2]} \cap watchedAccounts
           /\ o.type \notin TwoParty /\ o.type # "create_claimable_balance" =>
                 Concerned(o) \cap watchedAccounts = {o.one} \cap watchedAccounts
<1>1. /\ o.two # NoAccount <=> o.type \in TwoParty
      /\ o.claimants # <<>> <=> o.type = "create_claimable_balance"
      /\ o.type \in {"create_account", "account_merge"} => o.one # o.two
      /\ o.claimants \in {<<>>} \cup (Accounts \X Accounts)
  BY DEF Operations
<1>2. NoAccount \notin watchedAccounts
  BY RoutingAssumption
<1>3. o.claimants = <<>> => ToSet(o.claimants) = {}
  BY OnceTold DEF Once
<1>4. o.claimants # <<>> => ToSet(o.claimants) = {o.claimants[1], o.claimants[2]}
  <2> SUFFICES ASSUME o.claimants \in Accounts \X Accounts
               PROVE  ToSet(o.claimants) = {o.claimants[1], o.claimants[2]}
    BY <1>1
  <2>1. PICK c : c = o.claimants
    OBVIOUS
  <2>2. PICK a, b : c = <<a, b>>
    BY <2>1
  <2>3. DOMAIN c = {1, 2}
    BY <2>2
  <2> QED BY <2>1, <2>3 DEF ToSet
<1>5. o.type = "create_claimable_balance" => o.type \notin TwoParty
  BY DEF TwoParty
<1> QED BY <1>1, <1>2, <1>3, <1>4, <1>5 DEF Concerned

(* route tells each watched account the operation concerns once.             *)
LEMMA RouteTells ==
    ASSUME NEW o \in Operations, watchedAccounts \subseteq Accounts, NEW type, type = Normalize(o),
           type \notin {"dropped", "unrecognized"}
    PROVE  Once(RouteOperation(o, type),
                {<<a, Expected(a, o, type)>> : a \in Concerned(o) \cap (watchedAccounts \ rejecting)})
<1> DEFINE W == watchedAccounts \ rejecting
           goal == {<<a, Expected(a, o, type)>> : a \in Concerned(o) \cap W}
<1>1. \A a, t : Once(Tell(a, t), Due(a, t))
  BY OnceTold DEF Due
<1>2. type # "unknown" => goal = {<<a, type>> : a \in Concerned(o) \cap W}
  <2>1. type # "unknown" => \A a : Expected(a, o, type) = type
    BY DEF Expected
  <2> QED BY <2>1
<1>3. CASE type = "unknown"
  <2>1. o.type = "payment" /\ Concerned(o) = {o.one, o.two}
    BY <1>3, NormalizeFacts, ConcernedFacts DEF TwoParty
  <2>2. RouteOperation(o, type) = RoutePayment(o)
    BY <1>3 DEF RouteOperation
  <2>3. CASE o.one = o.two
    <3>1. RouteOperation(o, type) = Tell(o.two, "payment.self")
      BY <2>2, <2>3 DEF RoutePayment
    <3>2. \A a : Expected(a, o, type) = "payment.self"
      BY <1>3, <2>3 DEF Expected
    <3>3. goal = Due(o.two, "payment.self")
      BY <2>1, <2>3, <3>2 DEF Due
    <3> QED BY <1>1, <3>1, <3>3
  <2>4. CASE o.one # o.two
    <3>1. RouteOperation(o, type) = Tell(o.two, "payment.received") \o Tell(o.one, "payment.sent")
      BY <2>2, <2>4 DEF RoutePayment
    <3>2. Expected(o.two, o, type) = "payment.received" /\ Expected(o.one, o, type) = "payment.sent"
      BY <1>3, <2>4 DEF Expected
    <3>3. goal = Due(o.two, "payment.received") \cup Due(o.one, "payment.sent")
      BY <2>1, <3>2 DEF Due
    <3> QED BY <2>4, <3>1, <3>3, TellingBoth
  <2> QED BY <2>3, <2>4
<1>4. CASE type = "claimable.created"
  <2>1. o.type = "create_claimable_balance"
    BY <1>4, NormalizeFacts
  <2>2. PICK c, d : c = o.claimants[1] /\ d = o.claimants[2]
    OBVIOUS
  <2>3. Concerned(o) \cap W = {o.one, c, d} \cap W
    BY <2>1, <2>2, ConcernedFacts
  <2>4. PICK both : both = Tell(c, type) \o (IF <<d, type>> \in ToSet(Tell(c, type)) THEN <<>>
                                             ELSE Tell(d, type))
    OBVIOUS
  <2>5. RouteOperation(o, type) = both \o (IF <<o.one, type>> \in ToSet(both) THEN <<>>
                                           ELSE Tell(o.one, type))
    BY <1>4, <2>2, <2>4 DEF RouteOperation, TellClaimants
  <2>6. Once(both, Due(c, type) \cup Due(d, type))
    BY <1>1, <2>4, TellingBoth
  <2>7. Once(RouteOperation(o, type), (Due(c, type) \cup Due(d, type)) \cup Due(o.one, type))
    <3>1. PICK A : A = Due(c, type) \cup Due(d, type)
      OBVIOUS
    <3>2. PICK a : a = o.one
      OBVIOUS
    <3>3. Once(both, A)
      BY <2>6, <3>1
    <3>4. Once(both \o (IF <<a, type>> \in ToSet(both) THEN <<>> ELSE Tell(a, type)), A \cup Due(a, type))
      BY <3>3, TellingBoth
    <3> QED BY <2>5, <3>1, <3>2, <3>4
  <2>8. goal = (Due(c, type) \cup Due(d, type)) \cup Due(o.one, type)
    <3>1. goal = {<<a, type>> : a \in {o.one, c, d} \cap W}
      BY <1>2, <1>4, <2>3
    <3> QED BY <3>1 DEF Due
  <2> QED BY <2>7, <2>8
<1>5. CASE type = "account.merged"
  <2>1. Concerned(o) = {o.one, o.two} /\ o.one # o.two
    BY <1>5, NormalizeFacts, ConcernedFacts DEF TwoParty
  <2>2. RouteOperation(o, type) = Tell(o.one, type) \o Tell(o.two, type)
    BY <1>5 DEF RouteOperation
  <2>3. goal = Due(o.one, type) \cup Due(o.two, type)
    BY <1>2, <1>5, <2>1 DEF Due
  <2> QED BY <2>1, <2>2, <2>3, TellingBoth
<1>6. CASE type \in {"account.created", "trustline.authorized", "trustline.deauthorized"}
  <2>1. Concerned(o) = {o.one, o.two}
    BY <1>6, NormalizeFacts, ConcernedFacts DEF TwoParty
  <2>2. RouteOperation(o, type) = Tell(o.one, type) \o TellOther(o.two, o.one, type)
    BY <1>6 DEF RouteOperation
  <2>3. goal = Due(o.one, type) \cup Due(o.two, type)
    <3>1. goal = {<<a, type>> : a \in {o.one, o.two} \cap W}
      BY <1>2, <1>6, <2>1
    <3> QED BY <3>1 DEF Due
  <2>4. CASE o.one # o.two
    BY <2>2, <2>3, <2>4, TellingBoth DEF TellOther
  <2>5. CASE o.one = o.two
    <3>1. RouteOperation(o, type) = Tell(o.one, type) \o <<>>
      BY <2>2, <2>5 DEF TellOther
    <3>2. Once(Tell(o.one, type) \o <<>>, Due(o.one, type) \cup {})
      BY <1>1, OnceConcat, OnceTold
    <3>3. goal = Due(o.one, type) \cup {}
      BY <2>3, <2>5
    <3> QED BY <3>1, <3>2, <3>3
  <2> QED BY <2>4, <2>5
<1>7. CASE type \notin {"unknown", "claimable.created", "account.merged", "account.created",
                        "trustline.authorized", "trustline.deauthorized"}
  <2>1. o.type \notin TwoParty /\ o.type # "create_claimable_balance"
    BY <1>7, NormalizeFacts DEF TwoParty
  <2>2. Concerned(o) \cap W = {o.one} \cap W
    BY <2>1, ConcernedFacts
  <2>3. RouteOperation(o, type) = Tell(o.one, type)
    BY <1>7 DEF RouteOperation
  <2>4. goal = Due(o.one, type)
    BY <1>2, <1>7, <2>2 DEF Due
  <2> QED BY <1>1, <2>3, <2>4
<1> QED BY <1>3, <1>4, <1>5, <1>6, <1>7

(* An operation is normalised and routed.                                    *)
LEMMA OperationTells ==
    ASSUME watchedAccounts \subseteq Accounts, NEW o \in Operations, OnOperation(o)
    PROVE  ConcernedAreTold'
<1>1. PICK type : type = Normalize(o)
  OBVIOUS
<1>2. PICK due, told :
         /\ due = IF "horizon" \in pausedSources THEN {} ELSE watchedAccounts \ rejecting
         /\ told = IF type = "unrecognized" THEN TellEverybody
                   ELSE IF type = "dropped" \/ "horizon" \in pausedSources THEN <<>>
                   ELSE RouteOperation(o, type)
  OBVIOUS
<1>3. last'.op = o /\ last'.type = type /\ last'.due = due /\ last'.told = told
  BY <1>1, <1>2 DEF OnOperation
<1>4. ASSUME type \notin {"dropped", "unrecognized"}
      PROVE  Once(told, {<<a, Expected(a, o, type)>> : a \in Concerned(o) \cap due})
  <2>1. CASE "horizon" \in pausedSources
    <3>1. told = <<>> /\ due = {}
      BY <1>2, <1>4, <2>1
    <3>2. {<<a, Expected(a, o, type)>> : a \in Concerned(o) \cap due} = {}
      BY <3>1
    <3> QED BY <3>1, <3>2, OnceTold
  <2>2. CASE "horizon" \notin pausedSources
    <3>1. told = RouteOperation(o, type) /\ due = watchedAccounts \ rejecting
      BY <1>2, <1>4, <2>2
    <3> QED BY <1>1, <1>4, <3>1, RouteTells
  <2> QED BY <2>1, <2>2
<1> QED BY <1>3, <1>4 DEF ConcernedAreTold, Once

(* The contract events that came are numbered; a subscription was given      *)
(* some of them.                                                             *)
Numbers == 1..Len(arrived)
Subs == DOMAIN ContractSubs

RoutingTyped ==
    /\ watchedAccounts \subseteq Accounts /\ contractRegistry \subseteq Subs
    /\ arrived \in Seq(SorobanEvents) /\ lookups \subseteq Numbers /\ late \subseteq Numbers
    /\ given \in [Subs -> Seq(Numbers)]
    /\ owed \in Seq(SUBSET Subs) /\ Len(owed) = Len(arrived)

WasGiven(s, n) == \E i \in DOMAIN given[s] : given[s][i] = n

(* An event that waits for the registry is owed to subscriptions that are    *)
(* still in force and match it, and nobody has been given it.                *)
PendingSound ==
    \A n \in lookups :
        /\ arrived[n].type = "contract.emitted"
        /\ \A s \in owed[n] : s \in contractRegistry /\ MatchesContractFilters(arrived[n], ContractSubs[s])
        /\ \A s \in Subs : ~WasGiven(s, n)

(* Every other event was given to the subscriptions it was owed to.          *)
OwedGiven == \A n \in Numbers : n \notin lookups => \A s \in owed[n] : WasGiven(s, n)

(* What one subscription was given: each event once, overtaken only by the   *)
(* registry's delay, and matching a filter if there is any.                  *)
MatchesSome(s, e) ==
    ContractSubs[s] # {} =>
        \E f \in ContractSubs[s] :
            /\ f.contract \in {Anybody, e.contract}
            /\ f.topic = Anybody \/ <<e.type, e.topic>> = <<"contract.emitted", f.topic>>

GivenSound(s) ==
    /\ \A i, j \in DOMAIN given[s] : given[s][i] = given[s][j] => i = j
    /\ \A i, j \in DOMAIN given[s] : i < j /\ given[s][i] > given[s][j] =>
          arrived[given[s][j]].type = "contract.emitted"
    /\ \A i \in DOMAIN given[s] : MatchesSome(s, arrived[given[s][i]])

RoutingInv ==
    /\ RoutingTyped /\ PendingSound /\ OwedGiven /\ (\A s \in Subs : GivenSound(s))
    /\ ConcernedAreTold /\ PausedIsSilent

(* An event is handed out: each subscription it matches has it once more,    *)
(* and everything else stays as it was.                                      *)
LEMMA HandingOut ==
    ASSUME RoutingTyped, \A s \in Subs : GivenSound(s),
           NEW n, NEW e, DispatchContract(n, e),
           n \in Numbers', Len(arrived) \in Nat, Len(arrived') \in Nat, Len(arrived) <= Len(arrived'),
           arrived'[n] = e, \A m \in Numbers : arrived'[m] = arrived[m],
           \A s \in Subs : ~WasGiven(s, n),
           e.type = "contract.emitted" \/ n > Len(arrived)
    PROVE  /\ given' \in [Subs -> Seq(Numbers')]
           /\ \A s \in Subs : GivenSound(s)'
           /\ \A s \in Subs : \A m : WasGiven(s, m) => WasGiven(s, m)'
           /\ \A s \in Subs : \A m : m # n /\ WasGiven(s, m)' => WasGiven(s, m)
           /\ \A s \in MatchingSubs(e) \cap Subs : WasGiven(s, n)'
<1>1. /\ given \in [Subs -> Seq(Numbers)]
      /\ given' = [s \in Subs |-> IF s \in MatchingSubs(e) THEN Append(given[s], n) ELSE given[s]]
  BY DEF RoutingTyped, DispatchContract
<1>2. Numbers \subseteq Numbers'
  BY DEF Numbers
<1> SUFFICES ASSUME NEW s \in Subs
             PROVE  /\ given'[s] \in Seq(Numbers')
                    /\ GivenSound(s)'
                    /\ \A m : WasGiven(s, m) => WasGiven(s, m)'
                    /\ \A m : m # n /\ WasGiven(s, m)' => WasGiven(s, m)
                    /\ s \in MatchingSubs(e) => WasGiven(s, n)'
  BY <1>1
<1>3. PICK g : g = given[s]
  OBVIOUS
<1>4. /\ g \in Seq(Numbers) /\ Len(g) \in Nat /\ DOMAIN g = 1..Len(g)
      /\ \A i \in 1..Len(g) : g[i] \in Numbers
  <2>1. g \in Seq(Numbers)
    BY <1>1, <1>3
  <2> QED BY <2>1, LenProperties, ElementOfSeq
<1>5. g \in Seq(Numbers')
  BY <1>2, <1>4, SeqMonotonic
<1>6. /\ \A i, j \in DOMAIN g : g[i] = g[j] => i = j
      /\ \A i, j \in DOMAIN g : i < j /\ g[i] > g[j] => arrived[g[j]].type = "contract.emitted"
      /\ \A i \in DOMAIN g : MatchesSome(s, arrived[g[i]])
      /\ \A i \in DOMAIN g : g[i] # n
  <2>1. GivenSound(s) /\ ~WasGiven(s, n)
    OBVIOUS
  <2> QED BY <1>3, <2>1 DEF GivenSound, WasGiven
<1>7. \A i \in DOMAIN g : arrived'[g[i]] = arrived[g[i]]
  BY <1>4
<1>8. CASE s \notin MatchingSubs(e)
  <2>1. given'[s] = g
    BY <1>1, <1>3, <1>8
  <2> HIDE DEF MatchesSome
  <2>2. GivenSound(s)'
    BY <1>6, <1>7, <2>1 DEF GivenSound, MatchesSome
  <2>3. \A m : WasGiven(s, m)' <=> WasGiven(s, m)
    BY <1>3, <2>1 DEF WasGiven
  <2> QED BY <1>5, <1>8, <2>1, <2>2, <2>3
<1>9. CASE s \in MatchingSubs(e)
  <2>1. PICK h : h = Append(g, n)
    OBVIOUS
  <2>2. given'[s] = h
    BY <1>1, <1>3, <1>9, <2>1
  <2>3. /\ h \in Seq(Numbers') /\ Len(h) = Len(g) + 1 /\ h[Len(g) + 1] = n
        /\ \A i \in 1..Len(g) : h[i] = g[i]
    BY <1>5, <2>1, AppendProperties
  <2>4. DOMAIN h = 1..(Len(g) + 1)
    BY <2>3, LenProperties
  <2>5. \A i \in DOMAIN h : (i \in DOMAIN g /\ h[i] = g[i]) \/ (i = Len(g) + 1 /\ h[i] = n)
    BY <1>4, <2>3, <2>4
  <2>6. \A i \in DOMAIN g : i \in DOMAIN h /\ h[i] = g[i]
    BY <1>4, <2>3, <2>4
  <2>7. Len(g) + 1 \in DOMAIN h
    BY <1>4, <2>4
  <2>8. MatchesSome(s, e)
    <3>1. MatchesContractFilters(e, ContractSubs[s])
      BY <1>9 DEF MatchingSubs
    <3> QED BY <3>1 DEF MatchesContractFilters, MatchesFilter, MatchesSome
  <2>9. \A i, j \in DOMAIN h : h[i] = h[j] => i = j
    BY <1>6, <2>5
  <2>10. ASSUME NEW i \in DOMAIN h, NEW j \in DOMAIN h, i < j, h[i] > h[j]
         PROVE  arrived'[h[j]].type = "contract.emitted"
    <3>1. i \in DOMAIN g /\ h[i] = g[i]
      BY <1>4, <2>4, <2>5, <2>10
    <3>2. CASE j \in DOMAIN g
      BY <1>6, <1>7, <2>6, <2>10, <3>1, <3>2
    <3>3. CASE j = Len(g) + 1
      <4>1. h[j] = n /\ g[i] > n /\ g[i] \in 1..Len(arrived) /\ n \in 1..Len(arrived')
        BY <1>4, <2>3, <2>10, <3>1, <3>3 DEF Numbers
      <4>2. ~(n > Len(arrived))
        BY <4>1
      <4> QED BY <4>1, <4>2
    <3> QED BY <2>5, <3>2, <3>3
  <2>11. \A i \in DOMAIN h : MatchesSome(s, arrived'[h[i]])
    <3> HIDE DEF MatchesSome
    <3> QED BY <1>6, <1>7, <2>5, <2>8
  <2>12. GivenSound(s)'
    BY <2>2, <2>9, <2>10, <2>11 DEF GivenSound, MatchesSome
  <2>13. \A m : WasGiven(s, m) => WasGiven(s, m)'
    BY <1>3, <2>2, <2>6 DEF WasGiven
  <2>14. \A m : m # n /\ WasGiven(s, m)' => WasGiven(s, m)
    BY <1>3, <2>2, <2>5 DEF WasGiven
  <2>15. WasGiven(s, n)'
    BY <2>2, <2>3, <2>7 DEF WasGiven
  <2> QED BY <2>2, <2>3, <2>12, <2>13, <2>14, <2>15
<1> QED BY <1>8, <1>9

(* The routing of accounts leaves the contract events alone.                 *)
LEMMA AccountsKeep ==
    ASSUME RoutingInv, UNCHANGED contractVars, watchedAccounts' \subseteq Accounts,
           ConcernedAreTold'
    PROVE  RoutingInv'
<1>1. UNCHANGED <<contractRegistry, arrived, lookups, given, owed, late>>
  BY DEF contractVars
<1>2. RoutingTyped /\ PendingSound /\ OwedGiven /\ PausedIsSilent /\ \A s \in Subs : GivenSound(s)
  BY DEF RoutingInv
<1>3. RoutingTyped'
  BY <1>1, <1>2 DEF RoutingTyped, Numbers, Subs
<1>4. PendingSound' /\ OwedGiven'
  BY <1>1, <1>2 DEF PendingSound, OwedGiven, WasGiven, Numbers
<1>5. PausedIsSilent'
  BY <1>1, <1>2 DEF PausedIsSilent
<1>6. \A s \in Subs : GivenSound(s)'
  BY <1>1, <1>2 DEF GivenSound, MatchesSome
<1> QED BY <1>3, <1>4, <1>5, <1>6 DEF RoutingInv

(* A contract subscription comes, or goes and is owed nothing any more.      *)
LEMMA SubsKeep ==
    ASSUME RoutingInv, NEW s \in Subs, SubscribeContract(s) \/ UnsubscribeContract(s)
    PROVE  RoutingInv'
<1>1. RoutingTyped /\ PendingSound /\ OwedGiven /\ PausedIsSilent /\ ConcernedAreTold
      /\ \A t \in Subs : GivenSound(t)
  BY DEF RoutingInv
<1>2. UNCHANGED <<watchedAccounts, last, arrived, lookups, given, late>>
  BY DEF SubscribeContract, UnsubscribeContract
<1>3. /\ owed \in Seq(SUBSET Subs) /\ Len(owed) = Len(arrived) /\ Len(owed) \in Nat
      /\ DOMAIN owed = Numbers /\ DOMAIN owed = 1..Len(owed) /\ \A n \in Numbers : owed[n] \subseteq Subs
  BY <1>1, LenProperties, ElementOfSeq DEF RoutingTyped, Numbers
<1>4. /\ owed' \in Seq(SUBSET Subs) /\ Len(owed') = Len(arrived)
      /\ contractRegistry' \subseteq Subs
      /\ \A n \in Numbers : owed'[n] \subseteq owed[n]
      /\ \A n \in Numbers : \A t \in owed'[n] : t \in contractRegistry => t \in contractRegistry'
  <2>1. CASE SubscribeContract(s)
    BY <1>1, <1>3, <2>1 DEF SubscribeContract, RoutingTyped
  <2>2. CASE UnsubscribeContract(s)
    <3>1. contractRegistry' = contractRegistry \ {s} /\ owed' = [n \in 1..Len(owed) |-> owed[n] \ {s}]
      BY <1>3, <2>2 DEF UnsubscribeContract
    <3>2. \A n \in 1..Len(owed) : owed[n] \ {s} \in SUBSET Subs
      BY <1>3
    <3>3. owed' \in Seq(SUBSET Subs)
      BY <1>3, <3>1, <3>2, IsASeq
    <3>4. DOMAIN owed' = 1..Len(owed)
      BY <3>1
    <3>5. Len(owed') = Len(owed)
      BY <1>3, <3>3, <3>4, LenProperties
    <3> QED BY <1>1, <1>3, <3>1, <3>3, <3>5 DEF RoutingTyped
  <2> QED BY <2>1, <2>2
<1>5. RoutingTyped'
  BY <1>1, <1>2, <1>4 DEF RoutingTyped, Numbers, Subs
<1>6. \A t, n : WasGiven(t, n)' <=> WasGiven(t, n)
  BY <1>2 DEF WasGiven
<1>7. PendingSound'
  <2> SUFFICES ASSUME NEW n \in lookups
               PROVE  /\ arrived[n].type = "contract.emitted"
                      /\ \A t \in owed'[n] : /\ t \in contractRegistry'
                                             /\ MatchesContractFilters(arrived[n], ContractSubs[t])
                      /\ \A t \in Subs : ~WasGiven(t, n)
    BY <1>2, <1>6 DEF PendingSound
  <2>1. n \in Numbers
    BY <1>1 DEF RoutingTyped
  <2> QED BY <1>1, <1>4, <2>1 DEF PendingSound
<1>8. OwedGiven'
  <2>1. Numbers' = Numbers
    BY <1>2 DEF Numbers
  <2> QED BY <1>1, <1>2, <1>4, <1>6, <2>1 DEF OwedGiven
<1>9. PausedIsSilent' /\ ConcernedAreTold'
  BY <1>1, <1>2 DEF PausedIsSilent, ConcernedAreTold
<1>10. \A t \in Subs : GivenSound(t)'
  BY <1>1, <1>2 DEF GivenSound, MatchesSome
<1> QED BY <1>5, <1>7, <1>8, <1>9, <1>10 DEF RoutingInv

(* The registry has answered for an event.                                   *)
LEMMA LookupKeeps ==
    ASSUME RoutingInv, NEW n \in lookups, LookupSettles(n)
    PROVE  RoutingInv'
<1>1. RoutingTyped /\ PendingSound /\ OwedGiven /\ PausedIsSilent /\ ConcernedAreTold
      /\ \A t \in Subs : GivenSound(t)
  BY DEF RoutingInv
<1>2. /\ lookups' = lookups \ {n} /\ DispatchContract(n, arrived[n])
      /\ UNCHANGED <<watchedAccounts, contractRegistry, last, arrived, owed>>
  BY DEF LookupSettles
<1>3. /\ n \in Numbers /\ arrived[n].type = "contract.emitted"
      /\ \A s \in owed[n] : s \in contractRegistry /\ MatchesContractFilters(arrived[n], ContractSubs[s])
      /\ \A s \in Subs : ~WasGiven(s, n)
  BY <1>1 DEF RoutingTyped, PendingSound
<1>4. Len(arrived) \in Nat /\ Numbers' = Numbers
  BY <1>1, <1>2, LenProperties DEF RoutingTyped, Numbers
<1>5. /\ given' \in [Subs -> Seq(Numbers')]
      /\ \A s \in Subs : GivenSound(s)'
      /\ \A s \in Subs : \A m : WasGiven(s, m) => WasGiven(s, m)'
      /\ \A s \in Subs : \A m : m # n /\ WasGiven(s, m)' => WasGiven(s, m)
      /\ \A s \in MatchingSubs(arrived[n]) \cap Subs : WasGiven(s, n)'
  <2>1. PICK e : e = arrived[n]
    OBVIOUS
  <2>2. /\ DispatchContract(n, e) /\ n \in Numbers' /\ Len(arrived') \in Nat
        /\ Len(arrived) <= Len(arrived') /\ arrived'[n] = e /\ e.type = "contract.emitted"
        /\ \A m \in Numbers : arrived'[m] = arrived[m]
    BY <1>2, <1>3, <1>4, <2>1
  <2>3. /\ given' \in [Subs -> Seq(Numbers')]
        /\ \A s \in Subs : GivenSound(s)'
        /\ \A s \in Subs : \A m : WasGiven(s, m) => WasGiven(s, m)'
        /\ \A s \in Subs : \A m : m # n /\ WasGiven(s, m)' => WasGiven(s, m)
        /\ \A s \in MatchingSubs(e) \cap Subs : WasGiven(s, n)'
    BY <1>1, <1>3, <1>4, <2>2, HandingOut
  <2> QED BY <2>1, <2>3
<1>6. late' \subseteq late \cup {n}
  BY <1>2 DEF DispatchContract
<1>7. RoutingTyped'
  BY <1>1, <1>2, <1>3, <1>4, <1>5, <1>6 DEF RoutingTyped, Subs
<1>8. PendingSound'
  BY <1>1, <1>2, <1>5 DEF PendingSound
<1>9. OwedGiven'
  <2> SUFFICES ASSUME NEW m \in Numbers, m \notin lookups', NEW s \in owed[m] PROVE WasGiven(s, m)'
    BY <1>2, <1>4 DEF OwedGiven
  <2>1. s \in Subs
    <3>1. owed \in Seq(SUBSET Subs) /\ m \in 1..Len(owed)
      BY <1>1 DEF RoutingTyped, Numbers
    <3>2. owed[m] \in SUBSET Subs
      BY <3>1, ElementOfSeq
    <3> QED BY <3>2
  <2>2. CASE m = n
    BY <1>3, <1>5, <2>1, <2>2 DEF MatchingSubs
  <2>3. CASE m # n
    BY <1>1, <1>2, <1>5, <2>1, <2>3 DEF OwedGiven
  <2> QED BY <2>2, <2>3
<1>10. PausedIsSilent' /\ ConcernedAreTold'
  BY <1>1, <1>2, <1>3, <1>6 DEF PausedIsSilent, ConcernedAreTold
<1> QED BY <1>5, <1>7, <1>8, <1>9, <1>10 DEF RoutingInv

(* A contract event comes: it is dropped, held for the registry or handed    *)
(* out.                                                                      *)
LEMMA ArrivalKeeps ==
    ASSUME RoutingInv, NEW e \in SorobanEvents, OnSorobanEvent(e)
    PROVE  RoutingInv'
<1>1. RoutingTyped /\ PendingSound /\ OwedGiven /\ PausedIsSilent /\ ConcernedAreTold
      /\ \A t \in Subs : GivenSound(t)
  BY DEF RoutingInv
<1>2. PICK n : n = Len(arrived) + 1
  OBVIOUS
<1>3. PICK to : to = IF SorobanPaused THEN {} ELSE MatchingSubs(e)
  OBVIOUS
<1>4. /\ arrived' = Append(arrived, e) /\ owed' = Append(owed, to)
      /\ UNCHANGED <<watchedAccounts, contractRegistry, last>>
      /\ \/ SorobanPaused /\ UNCHANGED <<lookups, given, late>>
         \/ /\ ~SorobanPaused /\ e.type = "contract.emitted"
            /\ lookups' = lookups \cup {n} /\ UNCHANGED <<given, late>>
         \/ ~SorobanPaused /\ DispatchContract(n, e) /\ UNCHANGED lookups
  BY <1>2, <1>3 DEF OnSorobanEvent
<1>5. /\ arrived \in Seq(SorobanEvents) /\ Len(arrived) \in Nat /\ n \in Nat
      /\ owed \in Seq(SUBSET Subs) /\ Len(owed) = Len(arrived) /\ to \in SUBSET Subs
  <2>1. arrived \in Seq(SorobanEvents) /\ owed \in Seq(SUBSET Subs) /\ Len(owed) = Len(arrived)
    BY <1>1 DEF RoutingTyped
  <2>2. Len(arrived) \in Nat
    BY <2>1, LenProperties
  <2>3. to \in SUBSET Subs
    BY <1>1, <1>3 DEF MatchingSubs, RoutingTyped
  <2> QED BY <1>2, <2>1, <2>2, <2>3
<1>6. /\ arrived' \in Seq(SorobanEvents) /\ Len(arrived') = n /\ arrived'[n] = e
      /\ \A m \in Numbers : arrived'[m] = arrived[m]
  BY <1>2, <1>4, <1>5, AppendProperties DEF Numbers
<1>7. /\ owed' \in Seq(SUBSET Subs) /\ Len(owed') = n /\ owed'[n] = to
      /\ \A m \in Numbers : owed'[m] = owed[m] /\ owed[m] \in SUBSET Subs
  <2>1. /\ owed' \in Seq(SUBSET Subs) /\ Len(owed') = Len(owed) + 1 /\ owed'[Len(owed) + 1] = to
        /\ \A m \in 1..Len(owed) : owed'[m] = owed[m]
    BY <1>4, <1>5, AppendProperties
  <2>2. \A m \in 1..Len(owed) : owed[m] \in SUBSET Subs
    BY <1>5, ElementOfSeq
  <2> QED BY <1>2, <1>5, <2>1, <2>2 DEF Numbers
<1>8. /\ Numbers \subseteq Numbers' /\ n \in Numbers' /\ n \notin Numbers
      /\ \A m \in Numbers' : m \in Numbers \/ m = n
  BY <1>2, <1>5, <1>6 DEF Numbers
<1>9. \A s \in Subs : \A m : WasGiven(s, m) => m \in Numbers
  <2> SUFFICES ASSUME NEW s \in Subs, NEW m, WasGiven(s, m) PROVE m \in Numbers
    OBVIOUS
  <2>1. given[s] \in Seq(Numbers)
    BY <1>1 DEF RoutingTyped
  <2>2. PICK i \in DOMAIN given[s] : given[s][i] = m
    BY DEF WasGiven
  <2>3. DOMAIN given[s] = 1..Len(given[s])
    BY <2>1, LenProperties
  <2> QED BY <2>1, <2>2, <2>3, ElementOfSeq
<1>10. /\ given' \in [Subs -> Seq(Numbers')]
       /\ \A s \in Subs : GivenSound(s)'
       /\ \A s \in Subs : \A m : WasGiven(s, m) => WasGiven(s, m)'
       /\ \A s \in Subs : \A m : m # n /\ WasGiven(s, m)' => WasGiven(s, m)
  <2>1. CASE UNCHANGED given
    <3>1. given \in [Subs -> Seq(Numbers)]
      BY <1>1 DEF RoutingTyped
    <3>2. \A s \in Subs : given[s] \in Seq(Numbers')
      BY <1>8, <3>1, SeqMonotonic
    <3>3. \A s \in Subs : GivenSound(s)'
      <4> SUFFICES ASSUME NEW s \in Subs PROVE GivenSound(s)'
        OBVIOUS
      <4>1. \A i \in DOMAIN given[s] : given[s][i] \in Numbers
        BY <1>9 DEF WasGiven
      <4>2. \A i \in DOMAIN given[s] : arrived'[given[s][i]] = arrived[given[s][i]]
        BY <1>6, <4>1
      <4> QED BY <1>1, <2>1, <4>2 DEF GivenSound, MatchesSome
    <3>4. \A s, m : WasGiven(s, m)' <=> WasGiven(s, m)
      BY <2>1 DEF WasGiven
    <3> QED BY <2>1, <3>1, <3>2, <3>3, <3>4
  <2>2. CASE DispatchContract(n, e)
    <3>1. /\ n \in Numbers' /\ Len(arrived') \in Nat /\ Len(arrived) <= Len(arrived')
          /\ n > Len(arrived) /\ \A s \in Subs : ~WasGiven(s, n)
      BY <1>2, <1>5, <1>6, <1>8, <1>9
    <3> QED BY <1>1, <1>5, <1>6, <2>2, <3>1, HandingOut
  <2> QED BY <1>4, <2>1, <2>2
<1>11. ASSUME ~SorobanPaused, DispatchContract(n, e), NEW s \in to PROVE WasGiven(s, n)'
  <2>1. s \in MatchingSubs(e) \cap Subs
    BY <1>3, <1>5, <1>11
  <2>2. /\ n \in Numbers' /\ Len(arrived') \in Nat /\ Len(arrived) <= Len(arrived')
        /\ n > Len(arrived) /\ \A t \in Subs : ~WasGiven(t, n)
    BY <1>2, <1>5, <1>6, <1>8, <1>9
  <2>3. \A t \in MatchingSubs(e) \cap Subs : WasGiven(t, n)'
    BY <1>1, <1>5, <1>6, <1>11, <2>2, HandingOut
  <2> QED BY <2>1, <2>3
<1>12. late' = late
  BY <1>4 DEF DispatchContract, SorobanPaused
<1>13. RoutingTyped'
  <2>1. lookups' \subseteq Numbers' /\ late' \subseteq Numbers'
    BY <1>1, <1>4, <1>8, <1>12 DEF RoutingTyped
  <2> QED BY <1>1, <1>4, <1>6, <1>7, <1>10, <2>1 DEF RoutingTyped, Subs
<1>14. PendingSound'
  <2> SUFFICES ASSUME NEW m \in lookups'
               PROVE  /\ arrived'[m].type = "contract.emitted"
                      /\ \A s \in owed'[m] : /\ s \in contractRegistry
                                             /\ MatchesContractFilters(arrived'[m], ContractSubs[s])
                      /\ \A s \in Subs : ~WasGiven(s, m)'
    BY <1>4 DEF PendingSound
  <2>1. CASE m \in lookups
    <3>1. m \in Numbers /\ m # n
      BY <1>1, <1>8, <2>1 DEF RoutingTyped
    <3> QED BY <1>1, <1>6, <1>7, <1>10, <2>1, <3>1 DEF PendingSound
  <2>2. CASE m \notin lookups
    <3>1. m = n /\ ~SorobanPaused /\ e.type = "contract.emitted" /\ UNCHANGED given
      BY <1>4, <2>2
    <3>2. \A s \in owed'[m] : s \in contractRegistry /\ MatchesContractFilters(e, ContractSubs[s])
      BY <1>3, <1>7, <3>1 DEF MatchingSubs
    <3>3. \A s \in Subs : ~WasGiven(s, n)'
      <4>1. \A s \in Subs : ~WasGiven(s, n)
        BY <1>8, <1>9
      <4> QED BY <3>1, <4>1 DEF WasGiven
    <3> QED BY <1>6, <3>1, <3>2, <3>3
  <2> QED BY <2>1, <2>2
<1>15. OwedGiven'
  <2> SUFFICES ASSUME NEW m \in Numbers', m \notin lookups', NEW s \in owed'[m] PROVE WasGiven(s, m)'
    BY DEF OwedGiven
  <2>1. CASE m \in Numbers
    <3>1. m \notin lookups /\ s \in owed[m] /\ s \in Subs
      BY <1>4, <1>7, <2>1
    <3> QED BY <1>1, <1>10, <2>1, <3>1 DEF OwedGiven
  <2>2. CASE m = n
    <3>1. s \in to /\ n \notin lookups'
      BY <1>7, <2>2
    <3>2. ~SorobanPaused /\ DispatchContract(n, e)
      BY <1>3, <1>4, <3>1
    <3> QED BY <1>11, <2>2, <3>1, <3>2
  <2> QED BY <1>8, <2>1, <2>2
<1>16. PausedIsSilent' /\ ConcernedAreTold'
  <2>1. \A m \in late : arrived'[m] = arrived[m]
    BY <1>1, <1>6 DEF RoutingTyped
  <2>2. PausedIsSilent'
    BY <1>1, <1>12, <2>1 DEF PausedIsSilent
  <2>3. ConcernedAreTold'
    BY <1>1, <1>4 DEF ConcernedAreTold
  <2> QED BY <2>2, <2>3
<1> QED BY <1>10, <1>13, <1>14, <1>15, <1>16 DEF RoutingInv

(* Nothing has come and nobody is watched at first.                          *)
LEMMA RoutingStarts == RoutingInit => RoutingInv
<1> SUFFICES ASSUME RoutingInit PROVE RoutingInv
  OBVIOUS
<1>1. /\ watchedAccounts = {} /\ contractRegistry = {} /\ arrived = <<>> /\ lookups = {}
      /\ given = [s \in Subs |-> <<>>] /\ owed = <<>> /\ late = {} /\ last.type = "dropped"
  BY DEF RoutingInit, Subs
<1>2. Len(arrived) = 0 /\ Numbers = {} /\ \A A : <<>> \in Seq(A)
  BY <1>1, EmptySeq DEF Numbers
<1>3. RoutingTyped
  BY <1>1, <1>2 DEF RoutingTyped
<1>4. PendingSound /\ OwedGiven /\ PausedIsSilent /\ ConcernedAreTold
  BY <1>1, <1>2 DEF PendingSound, OwedGiven, PausedIsSilent, ConcernedAreTold
<1>5. \A s \in Subs : GivenSound(s)
  <2>1. \A s \in Subs : DOMAIN given[s] = {}
    BY <1>1
  <2> QED BY <2>1 DEF GivenSound
<1> QED BY <1>3, <1>4, <1>5 DEF RoutingInv

(* Every step of the routing keeps the invariant.                            *)
LEMMA RoutingStep ==
    ASSUME RoutingInv, [RoutingNext]_routingVars
    PROVE  RoutingInv'
<1>1. watchedAccounts \subseteq Accounts /\ ConcernedAreTold
  BY DEF RoutingInv, RoutingTyped
<1>2. CASE UNCHANGED <<last, watchedAccounts, contractVars>>
  <2>1. ConcernedAreTold'
    BY <1>1, <1>2 DEF ConcernedAreTold
  <2> QED BY <1>1, <1>2, <2>1, AccountsKeep
<1>3. CASE UNCHANGED routingVars
  BY <1>2, <1>3 DEF routingVars, contractVars
<1>4. CASE \E o \in Operations : OnOperation(o)
  <2>1. PICK o \in Operations : OnOperation(o)
    BY <1>4
  <2>2. ConcernedAreTold'
    BY <1>1, <2>1, OperationTells
  <2>3. UNCHANGED contractVars /\ watchedAccounts' = watchedAccounts
    BY <2>1 DEF OnOperation
  <2> QED BY <1>1, <2>2, <2>3, AccountsKeep
<1>5. CASE \/ \E a \in Accounts, rejects \in BOOLEAN : Subscribe(a, rejects)
           \/ \E a \in Accounts : UnsubscribeAddress(a)
  <2>1. last' = last /\ UNCHANGED contractVars /\ watchedAccounts' \subseteq Accounts
    BY <1>1, <1>5 DEF Subscribe, UnsubscribeAddress
  <2>2. ConcernedAreTold'
    BY <1>1, <2>1 DEF ConcernedAreTold
  <2> QED BY <2>1, <2>2, AccountsKeep
<1>6. CASE SetPaused("horizon") \/ SetPaused("soroban")
  BY <1>2, <1>6 DEF SetPaused
<1>7. CASE \E e \in SorobanEvents : OnSorobanEvent(e)
  BY <1>7, ArrivalKeeps
<1>8. CASE \E n \in lookups : LookupSettles(n)
  BY <1>8, LookupKeeps
<1>9. CASE \E s \in DOMAIN ContractSubs : SubscribeContract(s) \/ UnsubscribeContract(s)
  BY <1>9, SubsKeep DEF Subs
<1> QED BY <1>3, <1>4, <1>5, <1>6, <1>7, <1>8, <1>9 DEF RoutingNext, HorizonStep, ContractStep

(* Every watched account an operation concerns is told of it once, in its    *)
(* role, and nobody else; a contract event reaches each subscription it      *)
(* matched and that stayed, once, whenever the registry answers; and nothing *)
(* goes out while its source is paused but what the registry held (route,    *)
(* handleSorobanEvent, dispatchContractEvent).                               *)
THEOREM EveryoneIsToldOnce == RoutingSpec => []EveryoneIsTold
<1>1. RoutingInv => EveryoneIsTold
  <2> SUFFICES ASSUME RoutingInv PROVE EveryoneIsTold
    OBVIOUS
  <2>1. RoutingTyped /\ OwedGiven /\ PausedIsSilent /\ ConcernedAreTold /\ \A s \in Subs : GivenSound(s)
    BY DEF RoutingInv
  <2>2. DOMAIN given = Subs /\ DOMAIN owed = Numbers
    BY <2>1, LenProperties DEF RoutingTyped, Numbers
  <2>3. \A n \in DOMAIN owed : n \notin lookups =>
           \A s \in owed[n] : \E i \in DOMAIN given[s] : given[s][i] = n
    BY <2>1, <2>2 DEF OwedGiven, WasGiven
  <2>4. ASSUME NEW s \in DOMAIN given
        PROVE  /\ IsInjective(given[s])
               /\ \A i, j \in DOMAIN given[s] : i < j /\ given[s][i] > given[s][j] =>
                     arrived[given[s][j]].type = "contract.emitted"
               /\ \A i \in DOMAIN given[s] : MatchesSome(s, arrived[given[s][i]])
    BY <2>1, <2>2, <2>4 DEF GivenSound, IsInjective
  <2>5. ContractEventsArrive
    BY <2>3, <2>4 DEF ContractEventsArrive, MatchesSome
  <2> QED BY <2>1, <2>5 DEF EveryoneIsTold
<1>2. RoutingInv /\ [RoutingNext]_routingVars => RoutingInv'
  BY RoutingStep
<1> QED BY <1>1, <1>2, RoutingStarts, PTL DEF RoutingSpec
=============================================================================
