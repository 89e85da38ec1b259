------------------------------ MODULE FireClaims ------------------------------
(***************************************************************************)
(* Who fires a worker's window (packages/worker-core/src): the claim stores *)
(* and IdempotencyManager (idempotency.ts), the claims of the event planner *)
(* (triggers/eventTrigger.ts), TxSubmitter.ts, and the backstop that fires  *)
(* what the primary missed (backstop/BackstopWatcher.ts).  One window of    *)
(* one worker; all compete for the same claim; a tick is a ledger.          *)
(***************************************************************************)
EXTENDS Integers, FiniteSets

CONSTANTS
    Managers,   \* processes that call claimThenSubmit
    Planners,   \* processes that call claimDecisions and submit what they won
    Backstop,   \* the process that runs BackstopWatcher
    ClaimTtl,   \* claimTtlMs
    TxLife,     \* setTimeout(30) of the transaction: ledgers it may be included in
    Due,        \* deadlineLedger + graceLedgers
    LastLedger, \* BOUND on the ledgers
    MaxTxs      \* BOUND on the transactions sent

ASSUME FireClaimsAssumption ==
    /\ ClaimTtl \in Nat \ {0} /\ TxLife \in Nat \ {0} /\ Due \in Nat
    /\ LastLedger \in Nat /\ MaxTxs \in Nat
    /\ Managers \cap Planners = {} /\ Backstop \notin Managers \cup Planners

VARIABLES
    ledger,    \* the latest ledger
    claim,     \* the claim record of the window, or NoClaim
    step,      \* what each process is awaiting
    mine,      \* when the claim each process won expires
    txs,       \* transactions the network got
    recorded,  \* interventions recorded by the backstop
    planWins,  \* history: windows won through FireClaimStore.claim by planners
    excuses,   \* history: what may have led to a second fire
    unaudited  \* history: the backstop died before it could record what it did

fireVars == <<ledger, claim, step, mine, txs, recorded, planWins, excuses, unaudited>>

Procs   == Managers \cup Planners \cup {Backstop}
NoClaim == [owner |-> "none", expiresAt |-> 0]
Landed  == {t \in txs : t.fate = "landed"}

FireInit ==
    /\ ledger = 0 /\ claim = NoClaim
    /\ step = [p \in Procs |-> "idle"] /\ mine = [p \in Procs |-> 0]
    /\ txs = {} /\ recorded = 0 /\ planWins = 0 /\ excuses = {} /\ unaudited = FALSE

-----------------------------------------------------------------------------
(* ClaimStore.claim of both stores: taken if nobody holds it or it expired.  *)
(* The holder cannot take it again either.                                   *)
MutMayClaim == claim = NoClaim \/ claim.expiresAt <= ledger + 1
MayClaim == claim = NoClaim \/ claim.expiresAt <= ledger

Claim(p) ==
    /\ MayClaim
    /\ claim' = [owner |-> p, expiresAt |-> ledger + ClaimTtl]
    /\ mine' = [mine EXCEPT ![p] = ledger + ClaimTtl]

(* ClaimStore.release: only by who still holds it.                           *)
ReleaseClaim(p) == claim' = IF claim.owner = p THEN NoClaim ELSE claim

Go(p, s) == step' = [step EXCEPT ![p] = s]

(* IdempotencyManager.claimThenSubmit                                        *)
ManagerClaims(p) ==
    /\ step[p] = "idle"
    /\ Claim(p)
    /\ Go(p, "checking")
    /\ UNCHANGED <<ledger, txs, recorded, planWins, excuses, unaudited>>

Executed == Landed # {}

ManagerChecks(p) ==
    /\ step[p] = "checking"
    /\ IF Executed THEN ReleaseClaim(p) /\ Go(p, "idle")
                   ELSE Go(p, "submitting") /\ UNCHANGED claim
    /\ UNCHANGED <<ledger, mine, txs, recorded, planWins, excuses, unaudited>>

(* EventTriggerPlanner.claimDecisions, through ClaimStoreFireClaims: there   *)
(* is no look at the chain between the claim and the submission.             *)
PlannerClaims(p) ==
    /\ step[p] = "idle"
    /\ Claim(p)
    /\ planWins' = planWins + 1
    /\ excuses' = excuses \cup (IF txs # {} THEN {"planned again"} ELSE {})
    /\ Go(p, "submitting")
    /\ UNCHANGED <<ledger, txs, recorded, unaudited>>

(* BackstopWatcher.evaluate: past deadline and grace it asks for the         *)
(* verdict, and on a miss for the claim.                                     *)
BackstopAsks ==
    /\ step[Backstop] = "idle" /\ ledger > Due /\ Landed = {}
    /\ Go(Backstop, "missed")
    /\ UNCHANGED <<ledger, claim, mine, txs, recorded, planWins, excuses, unaudited>>

BackstopClaims ==
    /\ step[Backstop] = "missed"
    /\ IF MayClaim THEN Claim(Backstop) /\ Go(Backstop, "submitting")
                   ELSE Go(Backstop, "idle") /\ UNCHANGED <<claim, mine>>
    /\ excuses' = excuses \cup (IF MayClaim /\ Landed # {} THEN {"stale verdict"} ELSE {})
    /\ UNCHANGED <<ledger, txs, recorded, planWins, unaudited>>

-----------------------------------------------------------------------------
(* TxSubmitter.submit.  The sequence number is the one of the account, so    *)
(* that of two transactions built on one of them only one can land.  The     *)
(* backstop records the intervention once it knows the outcome.              *)
Records(p) == recorded' = IF p = Backstop THEN recorded + 1 ELSE recorded

(* Simulation, fee, ERROR, TRY_AGAIN_LATER: nothing reaches the network.     *)
SubmitRefused(p) ==
    /\ step[p] = "submitting"
    /\ Go(p, "idle")
    /\ Records(p)
    /\ UNCHANGED <<ledger, claim, mine, txs, planWins, excuses, unaudited>>

(* The network has the transaction; either the answer says so and polling    *)
(* starts, or sendTransaction throws and the outcome is a retryable failure. *)
SubmitSent(p) ==
    /\ step[p] = "submitting" /\ Cardinality(txs) < MaxTxs
    /\ txs' = txs \cup {[by |-> p, n |-> Cardinality(txs), built |-> ledger, fate |-> "pending",
                         seq |-> Cardinality({t \in Landed : t.by = p})]}
    /\ excuses' = excuses \cup (IF ledger + TxLife > mine[p] THEN {"overran"} ELSE {})
    /\ \/ Go(p, "polling") /\ UNCHANGED recorded
       \/ Go(p, "idle") /\ Records(p)
    /\ UNCHANGED <<ledger, claim, mine, planWins, unaudited>>

(* pollTransaction ends: the transaction is found, or the wait is too long.  *)
PollEnds(p) ==
    /\ step[p] = "polling"
    /\ Go(p, "idle")
    /\ Records(p)
    /\ UNCHANGED <<ledger, claim, mine, txs, planWins, excuses, unaudited>>

(* The process dies and another run of it starts.                            *)
Crash(p) ==
    /\ step[p] # "idle"
    /\ Go(p, "idle")
    /\ unaudited' = (unaudited \/ (p = Backstop /\ step[p] = "polling"))
    /\ UNCHANGED <<ledger, claim, mine, txs, recorded, planWins, excuses>>

(* The next ledger closes: it includes any pending transactions that are     *)
(* still valid, and time passes.                                             *)
LedgerCloses ==
    /\ ledger < LastLedger
    /\ ledger' = ledger + 1
    /\ \E L \in SUBSET {t \in txs : t.fate = "pending" /\ ledger < t.built + TxLife} :
          /\ \A t, u \in L \cup Landed : t.by = u.by /\ t.seq = u.seq => t = u
          /\ txs' = (txs \ L) \cup {[t EXCEPT !.fate = "landed"] : t \in L}
    /\ UNCHANGED <<claim, step, mine, recorded, planWins, excuses, unaudited>>

FireNext ==
    \/ \E p \in Managers : ManagerClaims(p) \/ ManagerChecks(p)
    \/ \E p \in Planners : PlannerClaims(p)
    \/ BackstopAsks \/ BackstopClaims
    \/ \E p \in Procs : SubmitRefused(p) \/ SubmitSent(p) \/ PollEnds(p) \/ Crash(p)
    \/ LedgerCloses

FireSpec == FireInit /\ [][FireNext]_fireVars

-----------------------------------------------------------------------------
(* A window fires at most once, whoever crashes, retries or is slow, unless  *)
(* a transaction was sent that could outlive the claim it was sent under,    *)
(* the backstop acted on a verdict older than the fire, or a planner won a   *)
(* window a second time: claims expire and only the manager asks the chain.  *)
FiresOnce == Cardinality(Landed) <= 1 \/ excuses # {}

(* Between its claim and the claim's expiry a process is the only one at     *)
(* work on the window: two that both hold an unexpired claim never coexist.  *)
OneHolder ==
    \A p, q \in Procs :
        /\ step[p] \in {"checking", "submitting", "polling"} /\ mine[p] > ledger
        /\ step[q] \in {"checking", "submitting", "polling"} /\ mine[q] > ledger
        => p = q

(* "Recording is the audit trail and must not be skipped": whatever the      *)
(* backstop sent is on record once it is done, failed submissions too,       *)
(* unless it died between the two.                                           *)
InterventionsOnRecord ==
    LET sent == {t \in txs : t.by = Backstop}
    IN  unaudited \/ recorded + (IF step[Backstop] = "polling" THEN 1 ELSE 0) >= Cardinality(sent)

(* A window is fired once, by the one process that holds it, and what the    *)
(* backstop sent is on record.                                               *)
FiresAccounted == FiresOnce /\ OneHolder /\ InterventionsOnRecord

(* What FireClaimStore says of claim(): it "Returns true if this caller won  *)
(* it, false if it was already claimed"; a window is won once.               *)
WonOnce == planWins <= 1
=============================================================================
