----------------------------- MODULE MCIngestion -----------------------------
(***************************************************************************)
(* Small instances of the parts of EventEngine around the Horizon stream:   *)
(* a behaviour is one of SorobanSubscriber, DualTransport, Subscriptions or *)
(* EventRouting, whichever `part` says; they share no state.                *)
(***************************************************************************)
EXTENDS SorobanSubscriber, DualTransport, Subscriptions, EventRouting, TLC

CONSTANTS c1, c2, a1, i1, f1

VARIABLE part

OneGroup     == [n \in 1..NumEvents |-> 1]
TwoOps       == <<1, 1, 2>>
TwoCallers   == {c1, c2}
SomeSubs ==
    [everything |-> {},
     topicT     |-> {[type |-> Anybody, contract |-> "k", topic |-> "t"]},
     invoked    |-> {[type |-> "contract.invoked", contract |-> Anybody, topic |-> Anybody]}]

mcVars == <<part, sorobanVars, dualVars, subVars, routingVars>>

MCInit ==
    /\ SorobanInit /\ DualInit /\ SubInit /\ RoutingInit
    /\ part \in {"chain", "faults", "dual", "poller", "subscriptions", "operations", "contracts"}

(* Overlapping polls need three links; with one event, one trouble and one   *)
(* flush they are cheap.  Two links leave room for more events, troubles and *)
(* flushes, and for restarts; a cursor is not written over itself.           *)
Bounded ==
    \/ /\ part = "chain" /\ emitted' <= 1 /\ troubles' <= 1 /\ ~Exit
       /\ inner # None => writing' = None
    \/ /\ part = "faults" /\ (MaxLinks > 2 => link'[3] = Free)
       /\ writing' # None => writing' # inner

(* The two transports beside each other, as long as the cursor is well kept  *)
(* and written at once and stop() is not held up; or the poller alone in     *)
(* unified mode, whatever happens to its cursor, one way at a time.          *)
DualBounded ==
    \/ /\ part = "dual"
       /\ lapses' = {} /\ engine' # "gaveUp"
       /\ hzAt' <= hzAt + 1 /\ Len(hzQueue') <= 1
       /\ unWrites # <<>> => unWrites' = <<>>
       /\ stopCall.at \in {"subscriber", "writes"} => stopCall' # stopCall
       /\ \A r \in 1..MaxRuns : CursorRead(r) => polls'[r].cursor \in {0, 1, unStored}
    \/ /\ part = "poller"
       /\ hzAt' = 0 /\ Len(unWrites') <= 2 /\ Cardinality(lapses') <= 1
       /\ polls' # polls => effective' = "unified"
       /\ \A r \in 1..MaxRuns : CursorRead(r) => polls'[r].cursor \in {0, unStored}

(* Only a change of a trustline depends on earlier operations, which are     *)
(* changes of trustlines too.                                                *)
OperationsBounded ==
    /\ last.op.type \in {NoAccount, "change_trust"}
    /\ last.op.type = "change_trust" => last'.op.type = "change_trust"

MCNext ==
    \/ /\ SorobanNext /\ Bounded
       /\ UNCHANGED <<part, dualVars, subVars, routingVars>>
    \/ /\ DualNext /\ DualBounded
       /\ UNCHANGED <<part, sorobanVars, subVars, routingVars>>
    \/ /\ part = "subscriptions" /\ SubNext /\ Cardinality(dead') <= 2
       /\ UNCHANGED <<part, sorobanVars, dualVars, routingVars>>
    \/ /\ \/ part = "operations" /\ HorizonStep /\ OperationsBounded
          \/ part = "contracts" /\ ContractStep /\ (arrived' # <<>> => arrived'[1].contract = "k")
       /\ UNCHANGED <<part, sorobanVars, dualVars, subVars>>

MCSpec == MCInit /\ [][MCNext]_mcVars /\ SorobanFairness
=============================================================================
