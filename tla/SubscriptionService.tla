-------------------------- MODULE SubscriptionService --------------------------
(***************************************************************************)
(* The worker subscriptions (packages/worker-core/src/subscription/         *)
(* SubscriptionService.ts, store.ts), for one subscription: every call gets *)
(* the record, checks it, and puts a new one back; other calls may run      *)
(* between the get and the put.  A call that throws changes nothing.        *)
(***************************************************************************)
EXTENDS Integers, Sequences, FiniteSets

CONSTANTS
    Clients,   \* who makes calls, one each at a time
    Tiers,     \* the registrable tiers
    MaxAudit,  \* BOUND on the audit trail
    LastWindow \* BOUND on currentWindow()

ASSUME ServiceAssumption == MaxAudit \in Nat /\ LastWindow \in Nat

VARIABLES
    record,    \* the stored SubscriptionRecord
    request,   \* each client's call: the record it has read and the one it puts
    window,    \* currentWindow()
    resolved,  \* history: the audit entries of the calls that resolved
    crossed    \* history: a record was put between another call's get and put

serviceVars == <<record, request, window, resolved, crossed>>

NoRecord == [status |-> "none", tier |-> "none", version |-> 0, cancelFrom |-> 0, audit |-> <<>>]
NoPut    == [seen |-> NoRecord, put |-> NoRecord]

ServiceInit ==
    /\ record = NoRecord /\ request = [c \in Clients |-> NoPut] /\ window = 0
    /\ resolved = {} /\ crossed = FALSE

-----------------------------------------------------------------------------
MutEntry(action, old, new) ==
    [action |-> action, from |-> old.status, to |-> new.status,
     version |-> old.version, tier |-> new.tier, window |-> window]
Entry(action, old, new) ==
    [action |-> action, from |-> old.status, to |-> new.status,
     version |-> new.version, tier |-> new.tier, window |-> window]

Trail(audit, entry) == Append(audit, entry)

(* create puts a record under a new id: nobody can name it earlier.          *)
Create(tier) ==
    LET new == [NoRecord EXCEPT !.status = "active", !.tier = tier, !.version = 1] IN
    /\ record = NoRecord
    /\ record' = [new EXCEPT !.audit = <<Entry("create", NoRecord, new)>>]
    /\ resolved' = {Entry("create", NoRecord, new)}
    /\ UNCHANGED <<request, window, crossed>>

(* The record read, checked, and the new one made of it.                     *)
Gets(c, action, new) ==
    /\ request[c] = NoPut /\ record # NoRecord
    /\ record.status # "cancelled"
    /\ Len(record.audit) < MaxAudit
    /\ request' = [request EXCEPT ![c] =
          [seen |-> record,
           put |-> [new EXCEPT !.audit = Trail(@, Entry(action, record, new))]]]
    /\ UNCHANGED <<record, window, resolved, crossed>>

Pause(c)  == record.status = "active" /\ Gets(c, "pause", [record EXCEPT !.status = "paused"])
Resume(c) == record.status = "paused" /\ Gets(c, "resume", [record EXCEPT !.status = "active"])
CancelSubscription(c) ==
    Gets(c, "cancel", [record EXCEPT !.status = "cancelled", !.cancelFrom = window + 1])

ChangeTier(c, tier) ==
    /\ tier # record.tier
    /\ Gets(c, "change-tier", [record EXCEPT !.tier = tier, !.version = @ + 1])

Puts(c) ==
    LET r == request[c] IN
    /\ r # NoPut
    /\ record' = r.put
    /\ resolved' = resolved \cup {r.put.audit[Len(r.put.audit)]}
    /\ crossed' = (crossed \/ record # r.seen)
    /\ request' = [request EXCEPT ![c] = NoPut]
    /\ UNCHANGED window

NextWindow ==
    /\ window < LastWindow
    /\ window' = window + 1
    /\ UNCHANGED <<record, request, resolved, crossed>>

ServiceNext ==
    \/ \E tier \in Tiers : Create(tier)
    \/ \E c \in Clients : \/ Pause(c) \/ Resume(c) \/ CancelSubscription(c) \/ Puts(c)
                          \/ \E tier \in Tiers : ChangeTier(c, tier)
    \/ NextWindow

ServiceSpec == ServiceInit /\ [][ServiceNext]_serviceVars

-----------------------------------------------------------------------------
(* "append-only audit trail", "cancellation is terminal": the entry of every *)
(* call that resolved stays on record, and nothing follows a cancel, unless  *)
(* a record was put between another call's get and its put.                  *)
TrailKept ==
    \/ crossed
    \/ /\ resolved \subseteq {record.audit[n] : n \in DOMAIN record.audit}
       /\ \A e \in resolved : e.action = "cancel" => record.status = "cancelled"

(* The terms in force at any past window can be replayed from the record:    *)
(* each entry starts where the one before ended, in no earlier window, with  *)
(* a new version exactly when the tier changed, and the last one says what   *)
(* the record says.  That holds even when calls cross, since the trail is    *)
(* put together with the terms.                                              *)
AuditReplays ==
    LET audit == record.audit IN
    /\ \A n \in 2..Len(audit) :
          /\ audit[n].from = audit[n - 1].to
          /\ audit[n].window >= audit[n - 1].window
          /\ audit[n].version - audit[n - 1].version =
                IF audit[n].tier # audit[n - 1].tier THEN 1 ELSE 0
    /\ audit # <<>> =>
          LET last == audit[Len(audit)] IN
          /\ <<last.to, last.tier, last.version>> = <<record.status, record.tier, record.version>>
          /\ record.status = "cancelled" => record.cancelFrom = last.window + 1

(* The audit trail is kept and replays to the terms in force.                *)
TermsReplayable == TrailKept /\ AuditReplays

(* What the service says of a cancel that resolved: "cancellation is         *)
(* terminal".                                                                *)
CancellationIsTerminal ==
    (\E e \in resolved : e.action = "cancel") => record.status = "cancelled"
=============================================================================
