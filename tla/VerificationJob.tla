---------------------------- MODULE VerificationJob ----------------------------
(***************************************************************************)
(* runVerificationJob (packages/abi-registry/src/verificationJob.ts): every *)
(* registered spec is compared with the deployed contract, the verdict is   *)
(* recorded, a mismatch is reported as an issue and a change of status is   *)
(* alerted.  Each of these is an await that may throw.  A scheduler may     *)
(* start a job while another one runs; they share the verdict store.        *)
(***************************************************************************)
EXTENDS Integers, Sequences, SequencesExt, FiniteSets

CONSTANTS
    VJobs,        \* the runs of the job
    SpecNames,    \* contractIds in the spec store
    MaxUpgrades   \* BOUND on the changes of the deployed contracts

ASSUME JobAssumption == MaxUpgrades \in Nat

VARIABLES
    deployed,  \* what verifySchema says of each contract now, external
    upgrades,
    runs,      \* where each job is
    statuses,  \* InMemoryVerdictStore: the statuses of each contract, oldest first
    alerts,    \* transitions alerted: contract, from, to
    excused    \* history: contracts of which a step threw or two jobs overlapped

jobVars == <<deployed, upgrades, runs, statuses, alerts, excused>>

Statuses == {"verified", "mismatch", "unverifiable"}
NoStatus == "none"

JobInit ==
    /\ deployed = [c \in SpecNames |-> "verified"] /\ upgrades = 0
    /\ runs = [j \in VJobs |-> [at |-> "idle", left |-> {}, spec |-> NoStatus, previous |-> NoStatus,
                               status |-> NoStatus, counted |-> {}, errors |-> {}]]
    /\ statuses = [c \in SpecNames |-> <<>>] /\ alerts = {} /\ excused = {}

-----------------------------------------------------------------------------
(* specStore.getAll                                                          *)
StartJob(j) ==
    /\ runs[j].at = "idle"
    /\ runs' = [runs EXCEPT ![j].at = "next", ![j].left = SpecNames]
    /\ UNCHANGED <<deployed, upgrades, statuses, alerts, excused>>

Busy(j, c) == runs[j].spec = c /\ runs[j].at \in {"verifying", "recording", "reporting", "alerting"}

(* getLatest                                                                 *)
MutLatest(c) == IF Len(statuses[c]) <= 1 THEN NoStatus ELSE Last(statuses[c])
Latest(c) == IF statuses[c] = <<>> THEN NoStatus ELSE Last(statuses[c])

ReadPrevious(j, c) ==
    /\ runs[j].at = "next" /\ c \in runs[j].left
    /\ runs' = [runs EXCEPT ![j].at = "verifying", ![j].spec = c, ![j].previous = Latest(c),
                            ![j].left = @ \ {c}]
    /\ excused' = excused \cup {d \in {c} : \E k \in VJobs : Busy(k, d)}
    /\ UNCHANGED <<deployed, upgrades, statuses, alerts>>

VerifySchema(j) ==
    /\ runs[j].at = "verifying"
    /\ runs' = [runs EXCEPT ![j].at = "recording", ![j].status = deployed[runs[j].spec]]
    /\ UNCHANGED <<deployed, upgrades, statuses, alerts, excused>>

(* record(), and the counter of the status.                                  *)
RecordStatus(j) ==
    LET c == runs[j].spec IN
    /\ runs[j].at = "recording"
    /\ statuses' = [statuses EXCEPT ![c] = Append(@, runs[j].status)]
    /\ runs' = [runs EXCEPT ![j].at = IF runs[j].status = "mismatch" THEN "reporting" ELSE "alerting",
                            ![j].counted = @ \cup {c}]
    /\ UNCHANGED <<deployed, upgrades, alerts, excused>>

ReportMismatch(j) ==
    /\ runs[j].at = "reporting"
    /\ runs' = [runs EXCEPT ![j].at = "alerting"]
    /\ UNCHANGED <<deployed, upgrades, statuses, alerts, excused>>

(* The next pass of the loop forgets the last one's locals.                  *)
ToNext(r) == [r EXCEPT !.at = "next", !.spec = NoStatus, !.previous = NoStatus,
                       !.status = NoStatus]

AlertTransition(j) ==
    LET r == runs[j] IN
    /\ r.at = "alerting"
    /\ alerts' = alerts \cup {a \in {<<r.spec, r.previous, r.status>>} :
                                r.previous # NoStatus /\ r.previous # r.status}
    /\ runs' = [runs EXCEPT ![j] = ToNext(r)]
    /\ UNCHANGED <<deployed, upgrades, statuses, excused>>

(* The catch of the loop: what the step would have done next is skipped.     *)
StepThrows(j) ==
    /\ runs[j].at \in {"verifying", "recording", "reporting", "alerting"}
    /\ runs' = [runs EXCEPT ![j] = [ToNext(runs[j]) EXCEPT !.errors = @ \cup {runs[j].spec}]]
    /\ excused' = excused \cup {runs[j].spec}
    /\ UNCHANGED <<deployed, upgrades, statuses, alerts>>

EndJob(j) ==
    /\ runs[j].at = "next" /\ runs[j].left = {}
    /\ runs' = [runs EXCEPT ![j].at = "done"]
    /\ UNCHANGED <<deployed, upgrades, statuses, alerts, excused>>

Upgrade(c) ==
    /\ upgrades < MaxUpgrades /\ upgrades' = upgrades + 1
    /\ \E s \in Statuses \ {deployed[c]} : deployed' = [deployed EXCEPT ![c] = s]
    /\ UNCHANGED <<runs, statuses, alerts, excused>>

JobNext ==
    \/ \E j \in VJobs : \/ StartJob(j) \/ VerifySchema(j) \/ RecordStatus(j) \/ ReportMismatch(j)
                        \/ AlertTransition(j) \/ StepThrows(j) \/ EndJob(j)
                        \/ \E c \in SpecNames : ReadPrevious(j, c)
    \/ \E c \in SpecNames : Upgrade(c)

JobSpec == JobInit /\ [][JobNext]_jobVars

-----------------------------------------------------------------------------
(* Every change between two recorded verdicts of c is alerted, or the alert  *)
(* is still to come; and no change is alerted that the store does not show.  *)
ChangesTold(c) ==
    /\ \A n \in 1 .. Len(statuses[c]) - 1 :
          statuses[c][n] # statuses[c][n + 1] =>
              \/ <<c, statuses[c][n], statuses[c][n + 1]>> \in alerts
              \/ n + 1 = Len(statuses[c]) /\ \E j \in VJobs : Busy(j, c)
    /\ \A a \in alerts : a[1] = c =>
          \E n \in 1 .. Len(statuses[c]) - 1 :
              statuses[c][n] = a[2] /\ statuses[c][n + 1] = a[3]

(* So it is unless a step for the contract threw, or two jobs had it at once. *)
TransitionsAlerted == \A c \in SpecNames \ excused : ChangesTold(c)

(* runVerificationJob "notifies the alert manager when statuses transition"  *)
(* (verificationJob.ts:60).  A report that throws after record() ends the    *)
(* step before the alert, and the next job sees no change.                   *)
EveryTransitionAlerted == \A c \in SpecNames : ChangesTold(c)

(* A finished job has counted every spec or reports an error for it.         *)
JobCoversAll ==
    \A j \in VJobs : runs[j].at = "done" => runs[j].counted \cup runs[j].errors = SpecNames

(* The job leaves no spec out and no change of verdict untold.               *)
JobTellsChanges == TransitionsAlerted /\ JobCoversAll
=============================================================================
