----------------------------- MODULE Verification -----------------------------
(***************************************************************************)
(* Chain-derived verification of an event-triggered worker:                 *)
(* EventTriggerPlanner.plan opens the obligation windows and                *)
(* WorkerVerificationEngine.verifyEventTrigger resolves each against the    *)
(* invocations observed so far.  Both are pure; what moves is the chain,    *)
(* the order and the copies in which a source delivers its events, and the  *)
(* ledger up to which a verification is asked for.  Every event handed over *)
(* satisfies the trigger's predicate.                                       *)
(***************************************************************************)
EXTENDS Integers, Sequences, SequencesExt, FiniteSets, FiniteSetsExt

CONSTANTS
    Conditions,   \* identities of condition events
    Bound,        \* latencyBoundLedgers
    Activation,   \* activationLedger
    Horizons,     \* values of verificationHorizonLedgers; 0 is the default
    LastTip,      \* bound: the last ledger
    MaxFeed,      \* bound: events delivered, copies included
    MaxInvoked    \* bound: invocations of the target

ASSUME VerificationAssumption == {Bound, Activation} \cup Horizons \subseteq Nat

VARIABLES
    tip,        \* toLedger: the last ledger observed
    happened,   \* condition event -> its ledger
    feed,       \* the condition events as delivered
    invoked,    \* <<ledger, inSuccessfulContractCall>> of the invocations
    horizon,    \* the verificationHorizonLedgers the caller passes
    verdicts,   \* window -> status, of the last verification
    atDeadline  \* history: the windows it judged in the ledger of their deadline

verificationVars == <<tip, happened, feed, invoked, horizon, verdicts, atDeadline>>

(* An event may come without a ledger or without an id: skipped either way.  *)
NoLedger == 0

VerificationInit ==
    /\ tip = 1 /\ happened = <<>> /\ feed = <<>> /\ invoked = {}
    /\ horizon \in Horizons /\ verdicts = <<>> /\ atDeadline = {}

-----------------------------------------------------------------------------
(* The feed is sorted by ledger, and the sort is stable: the last of some    *)
(* positions is the last delivered of those with the highest ledger.         *)
After(i, j) == \/ happened[feed[i]] > happened[feed[j]]
               \/ happened[feed[i]] = happened[feed[j]] /\ i >= j

LastOf(S) == CHOOSE i \in S : \A j \in S : After(i, j)

(* Whether an event inside the open window opens none of its own.            *)
MutStillOpen(ledger, until) == ledger < until
StillOpen(ledger, until) == ledger <= until

(* plan: one event after the other, in that order.                           *)
PlanStep(i, acc) ==
    LET c == feed[i]
        ledger == happened[c]
    IN IF ledger = NoLedger \/ ledger < Activation \/ c \in acc.seen THEN acc
       ELSE IF StillOpen(ledger, acc.until) THEN [acc EXCEPT !.seen = @ \cup {c}]
       ELSE [seen |-> acc.seen \cup {c}, until |-> ledger + Bound,
             windows |-> acc.windows \cup {[id |-> c, from |-> ledger, to |-> ledger + Bound]}]

NothingPlanned == [seen |-> {}, until |-> NoLedger, windows |-> {}]

Planned == MapThenFoldSet(PlanStep, NothingPlanned, LAMBDA i : i, LastOf, DOMAIN feed)

Plan == Planned.windows

(* The invocation resolveWindow takes: the earliest successful one.          *)
MutBest(ledgers) == Max(ledgers)
Best(ledgers) == Min(ledgers)

ResolveWindow(w) ==
    LET since == {e \in invoked : e[1] >= w.from}
        landed == {e[1] : e \in {e \in since : e[2]}}
    IN CASE tip - w.to < horizon -> "pending"
         [] tip - w.to >= horizon /\ landed # {} ->
                IF Best(landed) <= w.to THEN "fired" ELSE "late"
         [] tip - w.to >= horizon /\ landed = {} ->
                IF since # {} THEN "not-due" ELSE "missed"

-----------------------------------------------------------------------------
ConditionOccurs(c, ledger) ==
    /\ c \notin DOMAIN happened /\ ledger \in {tip, NoLedger}
    /\ happened' = [d \in DOMAIN happened \cup {c} |->
                        IF d = c THEN ledger ELSE happened[d]]
    /\ UNCHANGED <<tip, feed, invoked, horizon, verdicts, atDeadline>>

(* Delivered late, again or out of order.                                    *)
DeliverCondition(c) ==
    /\ c \in DOMAIN happened /\ Len(feed) < MaxFeed
    /\ feed' = Append(feed, c)
    /\ UNCHANGED <<tip, happened, invoked, horizon, verdicts, atDeadline>>

WorkerInvokes(ok) ==
    /\ Cardinality(invoked) < MaxInvoked
    /\ invoked' = invoked \cup {<<tip, ok>>}
    /\ UNCHANGED <<tip, happened, feed, horizon, verdicts, atDeadline>>

NextTip ==
    /\ tip < LastTip
    /\ tip' = tip + 1
    /\ UNCHANGED <<happened, feed, invoked, horizon, verdicts, atDeadline>>

(* verifyEventTrigger over everything up to the tip: the caller hands over   *)
(* every condition event so far, in any order and perhaps repeated.          *)
Verify ==
    /\ Range(feed) = DOMAIN happened
    /\ verdicts' = [c \in {w.id : w \in Plan} |->
                        ResolveWindow(CHOOSE w \in Plan : w.id = c)]
    /\ atDeadline' = {w.id : w \in {w \in Plan : w.to = tip}}
    /\ UNCHANGED <<tip, happened, feed, invoked, horizon>>

VerificationNext ==
    \/ \E c \in Conditions : \/ DeliverCondition(c)
                             \/ \E l \in {tip, NoLedger} : ConditionOccurs(c, l)
    \/ \E ok \in BOOLEAN : WorkerInvokes(ok)
    \/ NextTip \/ Verify

VerificationSpec == VerificationInit /\ [][VerificationNext]_verificationVars

-----------------------------------------------------------------------------
Obliging == {happened[c] : c \in {c \in Range(feed) : happened[c] # NoLedger}}
                \ (1 .. Activation - 1)

(* A burst of condition events is one obligation: every one of them falls in *)
(* exactly one window and every window starts with one, in whatever order    *)
(* and however often they are delivered (this determines the windows, so     *)
(* plan does not depend on the delivery).                                    *)
OneObligation ==
    /\ \A l \in Obliging : Cardinality({w \in Plan : w.from <= l /\ l <= w.to}) = 1
    /\ \A w \in Plan : w.from \in Obliging /\ w.to = w.from + Bound

(* Verifying again, with more of the chain and more copies of the events,    *)
(* never takes back that a worker fired or how late it was, never drops a    *)
(* window, never makes a settled one pending, and finds that a worker fired  *)
(* in time only while it was pending or had been found so before.  Only with *)
(* horizon 0, the default, may a window judged in the very ledger of its     *)
(* deadline turn out to have been fired in the rest of that ledger.          *)
VerdictsStand ==
    [][\A c \in DOMAIN verdicts :
          /\ c \in DOMAIN verdicts'
          /\ verdicts[c] \in {"fired", "late"} => verdicts'[c] = verdicts[c]
          /\ verdicts'[c] = "pending" => verdicts[c] = "pending"
          /\ verdicts'[c] = "fired" => \/ verdicts[c] \in {"pending", "fired"}
                                       \/ horizon = 0 /\ c \in atDeadline
      ]_verificationVars

(* A claim the code does not keep: "`pending` is the only verdict that may   *)
(* transition.  It becomes `fired`, `late`, `missed` or `unverifiable`       *)
(* exactly once [...] and never changes again."  A window past its deadline  *)
(* is resolved with the invocations so far: `missed` becomes `late` with the *)
(* first one, or `not-due` with a rejected one, however late.                *)
SettledIsFinal ==
    [][\A c \in DOMAIN verdicts :
          verdicts[c] # "pending" => verdicts'[c] = verdicts[c]]_verificationVars

(* A claim the code does not keep: a rejected attempt "within the window"    *)
(* turns `missed` into `not-due`.  One after the deadline does so too.       *)
RejectedWithinWindow ==
    \A w \in Plan : w.id \in DOMAIN verdicts /\ verdicts[w.id] = "not-due" =>
        \E e \in invoked : w.from <= e[1] /\ e[1] <= w.to
=============================================================================
