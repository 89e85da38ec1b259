---------------------------- MODULE Subscriptions ----------------------------
(***************************************************************************)
(* The subscriptions of EventEngine (packages/pulse-core/src/EventEngine.ts,*)
(* Watcher.ts): watchers shared by the callers that ask for the same        *)
(* address, contract id or contract filter, counted by refCounts, and the   *)
(* Soroban subscriber, which runs for the contract watchers.  One network.  *)
(***************************************************************************)
EXTENDS Integers, FiniteSets

CONSTANTS
    Callers,      \* who subscribes
    Addresses,    \* keys of subscribe()
    ContractIds,  \* keys of subscribeContract(id)
    Configs,      \* keys of subscribeContract(config): stableFilterKey
    MaxWatchers,  \* BOUND on the watchers made
    MaxCalls      \* BOUND on starts, stops and outages of the engine

ASSUME SubscriptionsAssumption ==
    /\ MaxWatchers \in Nat /\ MaxCalls \in Nat
    /\ Addresses \cap ContractIds = {} /\ (Addresses \cup ContractIds) \cap Configs = {}

VARIABLES
    registry,      \* registry, contractRegistry, contractConfigRegistry: the watcher of a key
    refCounts,     \* this.refCounts, 0 for none
    made,          \* watchers made so far; they are numbered
    dead,          \* the watchers that are stopped
    holding,       \* who holds which watcher, for which key
    streamUp,      \* this.isRunning: the Horizon stream is open
    reconnecting,  \* this.reconnectTimer is set
    subscriberOn,  \* this.sorobanSubscriber.isRunning
    stopping,      \* stop() awaits the subscriber
    calls,
    torn,          \* history: watchers stopped by a teardown or by watcher.stop()
    lateRelease,   \* history: a caller released a watcher that was stopped already
    outageStart    \* history: a contract id was subscribed to while the stream was down

subVars == <<registry, refCounts, made, dead, holding, streamUp, reconnecting, subscriberOn,
             stopping, calls, torn, lateRelease, outageStart>>

Keys     == Addresses \cup ContractIds \cup Configs
NoOne    == 0
Watchers == 1..MaxWatchers
Holds    == [caller : Callers, key : Keys, watcher : Watchers]

SubInit ==
    /\ registry = [k \in Keys |-> NoOne] /\ refCounts = [k \in Keys |-> 0]
    /\ made = 0 /\ dead = {} /\ holding = {}
    /\ streamUp = FALSE /\ reconnecting = FALSE /\ subscriberOn = FALSE /\ stopping = FALSE
    /\ calls = 0
    /\ torn = {} /\ lateRelease = FALSE /\ outageStart = FALSE

Live(S) == {registry[k] : k \in S} \ {NoOne}

(* watcher.stop() of every watcher in W, with the stop handlers the engine   *)
(* gave them: the key is forgotten, and the subscriber is stopped with the   *)
(* last watcher of a contract id.                                            *)
LastContract(W) == Live(ContractIds) # {} /\ Live(ContractIds) \subseteq W

CountAfter(W, k) == IF registry[k] \in W THEN 0 ELSE refCounts[k]

StopWatchers(W) ==
    /\ dead' = dead \cup W
    /\ registry' = [k \in Keys |-> IF registry[k] \in W THEN NoOne ELSE registry[k]]
    /\ refCounts' = [k \in Keys |-> CountAfter(W, k)]
    /\ subscriberOn' = (subscriberOn /\ ~LastContract(W))

-----------------------------------------------------------------------------
(* subscribe, subscribeContract: the watcher of the key, made if need be.  A *)
(* new watcher of a contract id starts the subscriber if the stream is open. *)
StartsSubscriber(k) == k \in ContractIds /\ streamUp

SubscribeTo(c, k) ==
    LET new == registry[k] = NoOne
        w   == IF new THEN made + 1 ELSE registry[k]
    IN  /\ ~\E h \in holding : h.caller = c /\ h.key = k
        /\ w \in Watchers
        /\ made' = IF new THEN w ELSE made
        /\ registry' = [registry EXCEPT ![k] = w]
        /\ refCounts' = [refCounts EXCEPT ![k] = @ + 1]
        /\ holding' = holding \cup {[caller |-> c, key |-> k, watcher |-> w]}
        /\ subscriberOn' = (subscriberOn \/ (new /\ StartsSubscriber(k)))
        /\ outageStart' = (outageStart \/ (new /\ k \in ContractIds /\ reconnecting))
        /\ UNCHANGED <<dead, streamUp, reconnecting, stopping, calls, torn, lateRelease>>

(* unsubscribe, unsubscribeContract: one holder less; the last one stops the *)
(* watcher.  The caller is known by the key alone.                           *)
MutRelease(k) == refCounts[k] <= 2
Release(k) == refCounts[k] <= 1

UnsubscribeFrom(h) ==
    /\ h \in holding
    /\ holding' = holding \ {h}
    /\ IF registry[h.key] = NoOne THEN UNCHANGED <<registry, refCounts, dead, subscriberOn>>
       ELSE IF Release(h.key) THEN StopWatchers({registry[h.key]})
       ELSE /\ refCounts' = [refCounts EXCEPT ![h.key] = @ - 1]
            /\ UNCHANGED <<registry, dead, subscriberOn>>
    /\ lateRelease' = (lateRelease \/ h.watcher \in dead)
    /\ UNCHANGED <<made, streamUp, reconnecting, stopping, calls, torn, outageStart>>

(* A holder stops the shared watcher itself.                                 *)
WatcherStopped(h) ==
    /\ h \in holding /\ h.watcher \notin dead
    /\ StopWatchers({h.watcher})
    /\ holding' = holding \ {h}
    /\ torn' = torn \cup {h.watcher}
    /\ UNCHANGED <<made, streamUp, reconnecting, stopping, calls, lateRelease, outageStart>>

(* unsubscribeAll, unsubscribeAllContracts                                   *)
Teardown(S) ==
    /\ Live(S) # {}
    /\ StopWatchers(Live(S))
    /\ torn' = torn \cup Live(S)
    /\ UNCHANGED <<made, holding, streamUp, reconnecting, stopping, calls, lateRelease, outageStart>>

UnsubscribeAll          == Teardown(Addresses)
UnsubscribeAllContracts == Teardown(ContractIds \cup Configs)

-----------------------------------------------------------------------------
EngineStart ==
    /\ calls < MaxCalls /\ ~streamUp /\ ~reconnecting
    /\ calls' = calls + 1
    /\ streamUp' = TRUE /\ subscriberOn' = TRUE
    /\ UNCHANGED <<registry, refCounts, made, dead, holding, reconnecting, stopping, torn,
                   lateRelease, outageStart>>

StreamFails ==
    /\ calls < MaxCalls /\ streamUp
    /\ calls' = calls + 1
    /\ streamUp' = FALSE /\ reconnecting' = TRUE
    /\ UNCHANGED <<registry, refCounts, made, dead, holding, subscriberOn, stopping, torn,
                   lateRelease, outageStart>>

StreamReopens ==
    /\ reconnecting
    /\ streamUp' = TRUE /\ reconnecting' = FALSE
    /\ UNCHANGED <<registry, refCounts, made, dead, holding, subscriberOn, stopping, calls, torn,
                   lateRelease, outageStart>>

(* stop() stops the stream and the subscriber; once the subscriber's last    *)
(* poll is over, it stops the watchers of the addresses there are then.      *)
EngineStop ==
    /\ calls < MaxCalls /\ ~stopping
    /\ calls' = calls + 1
    /\ stopping' = TRUE
    /\ streamUp' = FALSE /\ reconnecting' = FALSE /\ subscriberOn' = FALSE
    /\ UNCHANGED <<registry, refCounts, made, dead, holding, torn, lateRelease, outageStart>>

EngineStopped ==
    /\ stopping
    /\ stopping' = FALSE
    /\ StopWatchers(Live(Addresses))
    /\ torn' = torn \cup Live(Addresses)
    /\ UNCHANGED <<made, holding, streamUp, reconnecting, calls, lateRelease, outageStart>>

SubNext ==
    \/ \E c \in Callers, k \in Keys : SubscribeTo(c, k)
    \/ \E h \in holding : UnsubscribeFrom(h) \/ WatcherStopped(h)
    \/ UnsubscribeAll \/ UnsubscribeAllContracts
    \/ EngineStart \/ StreamFails \/ StreamReopens \/ EngineStop \/ EngineStopped

SubSpec == SubInit /\ [][SubNext]_subVars

-----------------------------------------------------------------------------
(* Type correctness of the state.                                            *)
SubTypeOK ==
    /\ registry \in [Keys -> 0..made] /\ refCounts \in [Keys -> 0..Cardinality(Callers)]
    /\ made \in 0..MaxWatchers /\ dead \subseteq 1..made /\ torn \subseteq dead
    /\ holding \subseteq Holds

(* "One caller disconnecting cannot silence the others": a watcher somebody  *)
(* holds is running and reachable by its key, unless it was torn down, as    *)
(* long as nobody releases a watcher that was already stopped.               *)
HoldersAreServed ==
    lateRelease \/ \A h \in holding : h.watcher \in torn \/ registry[h.key] = h.watcher

(* While the engine is started, the subscriber polls as long as there is a   *)
(* watcher of a contract id, whoever stops, starts and unsubscribes; unless  *)
(* such a watcher was made while Horizon was reconnecting.                   *)
IdsArePolledFor ==
    streamUp /\ ~outageStart /\ Live(ContractIds) # {} => subscriberOn

(* Whoever holds a subscription has a running watcher, and somebody polls    *)
(* for the contract ids that are watched, across stop and start.             *)
SubscribersServed == HoldersAreServed /\ IdsArePolledFor

(* What the comment on subscribeContract says: it "Returns a Watcher that    *)
(* emits" contract events; here, that somebody polls for them.               *)
ContractsArePolledFor ==
    streamUp /\ Live(ContractIds \cup Configs) # {} => subscriberOn
=============================================================================
