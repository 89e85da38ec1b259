--------------------------- MODULE SuspenseResource ---------------------------
(***************************************************************************)
(* The cached resources of useStellarEventSuspense                          *)
(* (packages/pulse-notify/src/useStellarEventSuspense.ts), for one key: the *)
(* connection is acquired during render, a timer releases it when nobody    *)
(* has committed by then, the last committed consumer releases it when it   *)
(* unmounts.  React is external: it renders, retries a suspended render     *)
(* when its promise resolves or its parent renders, commits (runs the       *)
(* effect), drops a render, or unmounts.                                    *)
(***************************************************************************)
EXTENDS Integers, Sequences, FiniteSets

CONSTANTS
    Consumers,     \* components that call the hook
    MaxResources   \* BOUND on the entries ever made

ASSUME SuspenseAssumption == MaxResources \in Nat /\ IsFiniteSet(Consumers)

VARIABLES
    resources, \* every ResourceEntry made, in order
    cached,    \* the one in resourceCache, or 0
    consumer   \* where each component is, and with which entry

suspenseVars == <<resources, cached, consumer>>

NewResource == [ready |-> FALSE, refCount |-> 0, subscribed |-> TRUE, releaseTimer |-> TRUE]
Outside     == [at |-> "out", entry |-> 0]

SuspenseInit ==
    /\ resources = <<>> /\ cached = 0 /\ consumer = [c \in Consumers |-> Outside]

-----------------------------------------------------------------------------
(* getOrCreateResource, then the promise is thrown or the event returned.    *)
Render(c) ==
    LET made == IF cached = 0 THEN Append(resources, NewResource) ELSE resources
        n == IF cached = 0 THEN Len(made) ELSE cached
    IN  /\ consumer[c].at \in {"out", "suspended"}
        /\ n <= MaxResources
        /\ resources' = made /\ cached' = n
        /\ consumer' = [consumer EXCEPT ![c] =
                          [at |-> IF made[n].ready THEN "rendered" ELSE "suspended", entry |-> n]]

(* The effect looks the resource up again; without one it does nothing.      *)
Commit(c) ==
    /\ consumer[c].at = "rendered"
    /\ resources' = IF cached # 0 THEN [resources EXCEPT ![cached].refCount = @ + 1]
                    ELSE resources
    /\ consumer' = [consumer EXCEPT ![c] = [at |-> "committed", entry |-> cached]]
    /\ UNCHANGED cached

(* React drops a render that has not committed.                              *)
Abandon(c) ==
    /\ consumer[c].at \in {"suspended", "rendered"}
    /\ consumer' = [consumer EXCEPT ![c] = Outside]
    /\ UNCHANGED <<resources, cached>>

Unmount(c) ==
    LET n == consumer[c].entry IN
    /\ consumer[c].at = "committed"
    /\ consumer' = [consumer EXCEPT ![c] = Outside]
    /\ IF n = 0 THEN UNCHANGED <<resources, cached>>
       ELSE IF resources[n].refCount > 1
       THEN resources' = [resources EXCEPT ![n].refCount = @ - 1] /\ UNCHANGED cached
       ELSE /\ resources' = [resources EXCEPT ![n].refCount = @ - 1, ![n].releaseTimer = FALSE,
                                              ![n].subscribed = FALSE]
            /\ cached' = IF cached = n THEN 0 ELSE cached

(* A matching event reaches every subscribed entry and resolves its promise. *)
EventArrives ==
    /\ \E n \in DOMAIN resources : resources[n].subscribed
    /\ resources' = [n \in DOMAIN resources |->
                       [resources[n] EXCEPT !.ready = @ \/ resources[n].subscribed]]
    /\ UNCHANGED <<cached, consumer>>

(* ABANDONED_RELEASE_MS after the first render.                              *)
InUse(n) == resources[n].refCount > 0

ReleaseTimer(n) ==
    /\ resources[n].releaseTimer
    /\ IF InUse(n)
       THEN resources' = [resources EXCEPT ![n].releaseTimer = FALSE] /\ UNCHANGED cached
       ELSE /\ resources' = [resources EXCEPT ![n].releaseTimer = FALSE, ![n].subscribed = FALSE]
            /\ cached' = 0
    /\ UNCHANGED consumer

SuspenseNext ==
    \/ \E c \in Consumers : Render(c) \/ Commit(c) \/ Abandon(c) \/ Unmount(c)
    \/ \E n \in DOMAIN resources : ReleaseTimer(n)
    \/ EventArrives

SuspenseSpec == SuspenseInit /\ [][SuspenseNext]_suspenseVars

-----------------------------------------------------------------------------
(* No connection is leaked and none is taken from under a consumer: an entry *)
(* is subscribed exactly while a committed consumer counts on it or its      *)
(* timer is still to run, and it is then the one in the cache.               *)
ReleasedWhenUnused ==
    \A n \in DOMAIN resources :
        LET users == {c \in Consumers : consumer[c] = [at |-> "committed", entry |-> n]} IN
        /\ resources[n].refCount = Cardinality(users)
        /\ resources[n].subscribed <=> users # {} \/ resources[n].releaseTimer
        /\ resources[n].subscribed <=> cached = n

(* What the comment on releaseTimer supposes: when it fires with nobody      *)
(* committed, "the render was abandoned"; a suspended component still waits  *)
(* for the promise the first matching event is to resolve.                   *)
SuspendedIsListening ==
    \A c \in Consumers : consumer[c].at = "suspended" =>
        resources[consumer[c].entry].subscribed \/ resources[consumer[c].entry].ready
=============================================================================
