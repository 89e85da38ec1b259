---------------------------- MODULE DedupReceiver ----------------------------
(***************************************************************************)
(* dedupReceiver of pulse-webhooks (packages/pulse-webhooks/src/dedup.ts)   *)
(* in front of a consumer's handler: seen and mark are calls to a store,    *)
(* and the sender delivers an event again when the handler failed or the    *)
(* answer was lost.                                                         *)
(***************************************************************************)
EXTENDS Integers, FiniteSets

CONSTANTS
    EventIds,   \* ids of events
    Copies      \* deliveries of one event, each received in its own call

VARIABLES
    receive,  \* where the call for each copy of each event is
    marked,   \* the ids in the store
    handled,  \* history: the copies whose handler ran to its end
    failed,   \* history: ids whose handler threw
    doubled   \* history: ids of which two copies were between seen and mark together

dedupVars == <<receive, marked, handled, failed, doubled>>

DedupInit ==
    /\ receive = [d \in EventIds \X Copies |-> "sent"]
    /\ marked = {} /\ handled = {} /\ failed = {} /\ doubled = {}

-----------------------------------------------------------------------------
MutPasses(id) == TRUE
Passes(id) == id \notin marked

AsksSeen(d) ==
    /\ receive[d] = "sent"
    /\ receive' = [receive EXCEPT ![d] = IF Passes(d[1]) THEN "passed" ELSE "over"]
    /\ doubled' = doubled \cup {id \in {d[1]} : \E c \in Copies : receive[<<id, c>>] = "passed"}
    /\ UNCHANGED <<marked, handled, failed>>

Marks(d) ==
    /\ receive[d] = "passed"
    /\ receive' = [receive EXCEPT ![d] = "handling"]
    /\ marked' = marked \cup {d[1]}
    /\ UNCHANGED <<handled, failed, doubled>>

HandlerReturns(d) ==
    /\ receive[d] = "handling"
    /\ receive' = [receive EXCEPT ![d] = "over"]
    /\ handled' = handled \cup {d}
    /\ UNCHANGED <<marked, failed, doubled>>

HandlerThrows(d) ==
    /\ receive[d] = "handling"
    /\ receive' = [receive EXCEPT ![d] = "over"]
    /\ failed' = failed \cup {d[1]}
    /\ UNCHANGED <<marked, handled, doubled>>

DedupNext == \E d \in DOMAIN receive : \/ AsksSeen(d) \/ Marks(d)
                                       \/ HandlerReturns(d) \/ HandlerThrows(d)

DedupSpec == DedupInit /\ [][DedupNext]_dedupVars

-----------------------------------------------------------------------------
(* An event is handled once however often it is delivered, unless two copies *)
(* asked the store before either marked it; and a copy that was dropped as a *)
(* repeat had one that was handled, is being handled, or whose handler       *)
(* threw, which no later delivery makes up for.                              *)
HandledOnce ==
    \A id \in EventIds :
        LET copies == {id} \X Copies IN
        /\ id \in doubled \/ Cardinality(handled \cap copies) <= 1
        /\ (\E d \in copies : receive[d] = "over") =>
              \/ id \in failed
              \/ \E d \in copies : d \in handled \/ receive[d] = "handling"
=============================================================================
