------------------------------- MODULE CostMeter -------------------------------
(***************************************************************************)
(* InMemoryCostMeter (backstop/costMeter.ts): what a call costs is split    *)
(* over the subscriptions that share it, and sealed per window.  The cost   *)
(* drivers are counted alike; one stands for all of them.  Amounts divide   *)
(* by any number of subscriptions, so that shares are whole.                *)
(***************************************************************************)
EXTENDS Integers, Sequences, SequencesExt, FiniteSets, FiniteSetsExt, Functions

CONSTANTS
    Metered,      \* subscriptions
    Watched,      \* conditions they watch
    Spend,        \* what a call costs
    SealLedgers,  \* bound: the ledgers windows are closed at
    MaxSpends,    \* bound: costs recorded
    MaxTracks     \* bound: calls of track

ASSUME SpendAssumption ==
    /\ IsFiniteSet(Metered) /\ Spend \in Nat /\ SealLedgers \subseteq Nat
    /\ \A n \in 1 .. Cardinality(Metered) : Spend % n = 0

VARIABLES
    openStart,      \* where the open window starts
    open,           \* subscription -> its costs in the open window
    conditions,     \* subscription -> the condition it watches
    pendingKinds,   \* pendingArrivals, the kinds only
    sealed,         \* closed: the sealed records
    kindsPerWindow, \* arrivalsPerWindow
    spent,          \* history: what was recorded
    alone,          \* history: what each subscription would have paid alone
    came,           \* history: window start -> the kinds of arrivals in it
    tracks          \* calls of track so far

meterVars == <<openStart, open, conditions, pendingKinds, sealed, kindsPerWindow, spent, alone, came,
               tracks>>

MeterInit ==
    /\ openStart = 0 /\ open = <<>> /\ conditions = <<>> /\ pendingKinds = {}
    /\ sealed = {} /\ kindsPerWindow = <<>>
    /\ spent = 0 /\ alone = [s \in Metered |-> 0] /\ came = <<>> /\ tracks = 0

-----------------------------------------------------------------------------
Track(s, c) ==
    LET kind == IF \E t \in DOMAIN conditions : conditions[t] = c
                THEN "shared-condition" ELSE "new-condition"
    IN
    /\ tracks < MaxTracks /\ tracks' = tracks + 1
    /\ conditions' = [t \in DOMAIN conditions \cup {s} |-> IF t = s THEN c ELSE conditions[t]]
    /\ pendingKinds' = pendingKinds \cup {kind}
    /\ UNCHANGED <<openStart, open, sealed, kindsPerWindow, spent, alone, came>>

Untrack(s) ==
    /\ s \in DOMAIN conditions
    /\ conditions' = [t \in DOMAIN conditions \ {s} |-> conditions[t]]
    /\ UNCHANGED <<openStart, open, pendingKinds, sealed, kindsPerWindow, spent, alone, came, tracks>>

(* What each of the subscriptions pays, and what it would pay alone.         *)
Share(ids) == Spend \div Cardinality(ids)

Standalone(ids) == Spend

(* recordRpcCall and recordExportScan, or recordCompute and recordStorage    *)
(* for one subscription; whether or not it is tracked.                       *)
Record(ids) ==
    /\ spent < MaxSpends * Spend
    /\ open' = [s \in DOMAIN open \cup ids |->
                  LET old == IF s \in DOMAIN open THEN open[s] ELSE [att |-> 0, alone |-> 0] IN
                  IF s \in ids THEN [att |-> old.att + Share(ids),
                                     alone |-> old.alone + Standalone(ids)]
                  ELSE old]
    /\ spent' = spent + Spend
    /\ alone' = [s \in Metered |-> IF s \in ids THEN alone[s] + Spend ELSE alone[s]]
    /\ UNCHANGED <<openStart, conditions, pendingKinds, sealed, kindsPerWindow, came, tracks>>

(* Whom the window is sealed for: those with costs and those tracked.        *)
MutSealedIds == DOMAIN conditions
SealedIds == DOMAIN open \cup DOMAIN conditions

CloseWindow(end) ==
    /\ end > openStart
    /\ sealed' = sealed \cup
         {[sub |-> s, start |-> openStart, end |-> end,
           att |-> IF s \in DOMAIN open THEN open[s].att ELSE 0,
           alone |-> IF s \in DOMAIN open THEN open[s].alone ELSE 0] : s \in SealedIds}
    /\ kindsPerWindow' = Append(kindsPerWindow, pendingKinds)
    /\ came' = [w \in DOMAIN came \cup {openStart} |->
                    IF w = openStart THEN pendingKinds ELSE came[w]]
    /\ pendingKinds' = {} /\ open' = <<>> /\ openStart' = end
    /\ UNCHANGED <<conditions, spent, alone, tracks>>

MeterNext ==
    \/ \E s \in Metered : Untrack(s) \/ \E c \in Watched : Track(s, c)
    \/ \E ids \in (SUBSET Metered) \ {{}} : Record(ids)
    \/ \E end \in SealLedgers : CloseWindow(end)

MeterSpec == MeterInit /\ [][MeterNext]_meterVars

-----------------------------------------------------------------------------
(* marginalCost: the windows with a record, in order, and their totals.      *)
SealedStarts == {w.start : w \in sealed}

WindowStarts ==
    [i \in 1 .. Cardinality(SealedStarts) |->
        CHOOSE w \in SealedStarts : Cardinality({v \in SealedStarts : v < w}) = i - 1]

TotalForWindow(start) ==
    SumFunctionOnSet([w \in sealed |-> w.att], {w \in sealed : w.start = start})

CountIn(start) == Cardinality({w \in sealed : w.start = start})

(* The kinds of arrivals taken for the i-th of them.                         *)
KindsOf(i) == kindsPerWindow[i]

(* The samples of a kind: the windows whose growth is put down to it.        *)
Samples(kind) ==
    {i \in 2 .. Len(WindowStarts) :
        /\ CountIn(WindowStarts[i]) > CountIn(WindowStarts[i - 1])
        /\ KindsOf(i) = {kind}}

-----------------------------------------------------------------------------
(* No cost is unpriced and none is charged twice: the windows together hold  *)
(* what was spent, also when a subscription is untracked before its window   *)
(* is sealed ("an unattributed cost is an unpriced one").                    *)
CostsAllAttributed ==
    SumFunction([w \in SealedStarts |-> TotalForWindow(w)])
        + SumFunction([s \in DOMAIN open |-> open[s].att])
    = spent

(* The standalone cost of a subscription over all its windows is what it     *)
(* would have paid without the others.                                       *)
StandaloneIsAlone ==
    \A s \in Metered :
        SumFunctionOnSet([w \in sealed |-> w.alone], {w \in sealed : w.sub = s})
            + (IF s \in DOMAIN open THEN open[s].alone ELSE 0)
        = alone[s]

NoEmptyWindow == Len(WindowStarts) = Len(kindsPerWindow)

(* A growth in cost is put down to the kind of subscription that arrived in  *)
(* that window and to no other, as long as every window had a subscription.  *)
SamplesNameTheArrivals ==
    NoEmptyWindow =>
        \A kind \in {"shared-condition", "new-condition"} : \A i \in Samples(kind) :
            came[WindowStarts[i]] = {kind}

(* Every cost is attributed once, comparably with what a subscription would  *)
(* pay alone, and growth is put down to its cause.                           *)
CostsSound == CostsAllAttributed /\ StandaloneIsAlone /\ SamplesNameTheArrivals

(* A claim the code does not keep: the same without the condition.  A window *)
(* closed with no subscription leaves an entry in arrivalsPerWindow and no   *)
(* record, and every later window is read one entry too early.               *)
SamplesAlwaysRight ==
    \A kind \in {"shared-condition", "new-condition"} : \A i \in Samples(kind) :
        came[WindowStarts[i]] = {kind}
=============================================================================
