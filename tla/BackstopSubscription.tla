------------------------- MODULE BackstopSubscription -------------------------
(***************************************************************************)
(* A backstop subscription and its coverage record                          *)
(* (packages/worker-core/src/subscription/lifecycle.ts and coverage.ts).    *)
(*                                                                         *)
(* A call makes its checks and computes the window to close in one go,      *)
(* waits for coverage.append, which may be any store, and then goes on in   *)
(* three microtasks: writeOpenWindow reopens, transition moves the state,   *)
(* the method sets the announced ledger and calls its hook.  Microtasks run *)
(* in the order they were queued (`microtasks`); other calls may start      *)
(* between any two of them.  A call that throws changes nothing.            *)
(***************************************************************************)
EXTENDS Integers, Sequences, FiniteSets

CONSTANTS
    Callers,       \* who calls the methods, one call each at a time
    WindowLedgers, \* windowLedgers of the configuration
    EndLedger      \* BOUND on the ledgers calls name

ASSUME BackstopAssumption == WindowLedgers \in Nat \ {0} /\ EndLedger \in Nat

VARIABLES
    sub,        \* currentState, openedAt and announcedLapseLedger
    windows,    \* the stored coverage windows
    method,     \* each caller's call
    microtasks, \* callers whose continuation is queued
    inForce,    \* history: the state in force at each ledger
    notice,     \* history: the lapse the subscriber was last told of, and when
    early,      \* history: ledgers at which it lapsed before that, or untold
    raced       \* history: a call started between two microtasks of another

backstopVars == <<sub, windows, method, microtasks, inForce, notice, early, raced>>

Unset   == -1
Ledgers == 0..EndLedger
Resting == [op |-> "none", at |-> 0, lapses |-> Unset, from |-> 0, state |-> "none",
            step |-> "none"]

IsCoveredState(state) == state \in {"active", "expiring"}

LegalTransitions == [active |-> {"expiring", "cancelled"}, expiring |-> {"active", "lapsed"},
                     lapsed |-> {"active"}, cancelled |-> {"active"}]

Target == [renew |-> "active", reactivate |-> "active", beginExpiring |-> "expiring",
           lapse |-> "lapsed", cancel |-> "cancelled"]

(* activate(config, 0): nothing to record yet.                               *)
BackstopInit ==
    /\ sub = [state |-> "active", openedAt |-> 0, announced |-> Unset]
    /\ windows = {} /\ method = [c \in Callers |-> Resting] /\ microtasks = <<>>
    /\ inForce = [l \in Ledgers |-> "active"]
    /\ notice = [told |-> Unset, lapses |-> Unset] /\ early = {} /\ raced = FALSE

-----------------------------------------------------------------------------
(* Up to coverage.append: the checks of the method, of transition and of     *)
(* writeOpenWindow, and the window it computes.                              *)
MayLapse(at) == sub.announced = Unset \/ at >= sub.announced

StartsMethod(c, op, at, lapses) ==
    /\ method[c] = Resting
    /\ at > sub.openedAt
    /\ method' = [method EXCEPT ![c] = [op |-> op, at |-> at, lapses |-> lapses,
                                        from |-> sub.openedAt, state |-> sub.state,
                                        step |-> "append"]]
    /\ raced' = (raced \/ microtasks # <<>>)
    /\ UNCHANGED <<sub, windows, microtasks, inForce, notice, early>>

Transition(c, op, at, lapses) ==
    /\ Target[op] \in LegalTransitions[sub.state]
    /\ StartsMethod(c, op, at, lapses)

Renew(c, at)      == Transition(c, "renew", at, Unset)
Reactivate(c, at) == Transition(c, "reactivate", at, Unset)
Cancel(c, at)     == Transition(c, "cancel", at, Unset)
Lapse(c, at)      == MayLapse(at) /\ Transition(c, "lapse", at, Unset)
SealTo(c, at)     == StartsMethod(c, "sealTo", at, Unset)

BeginExpiring(c, at, lapses) ==
    /\ lapses - at >= WindowLedgers
    /\ Transition(c, "beginExpiring", at, lapses)

-----------------------------------------------------------------------------
Closed(m) == [start |-> m.from, end |-> m.at, covered |-> IsCoveredState(m.state)]

Overlapping(w) == {v \in windows : w.start < v.end /\ v.start < w.end}

MutRefused(w) == \E v \in windows : w.start < v.end /\ v.start < w.start
Refused(w) == Overlapping(w) # {}

(* append refuses a window that overlaps a stored one: the call throws.      *)
AppendWindow(c) ==
    LET m == method[c] IN
    /\ m.step = "append"
    /\ IF Refused(Closed(m))
       THEN method' = [method EXCEPT ![c] = Resting] /\ UNCHANGED <<windows, microtasks>>
       ELSE /\ windows' = windows \cup {Closed(m)}
            /\ method' = [method EXCEPT ![c].step = "reopen"]
            /\ microtasks' = Append(microtasks, c)
    /\ UNCHANGED <<sub, inForce, notice, early, raced>>

(* The next microtask belongs to c, whose call then is at `step`.            *)
RunsMicrotask(c, step) ==
    /\ microtasks # <<>> /\ Head(microtasks) = c
    /\ method' = [method EXCEPT ![c] = IF step = "none" THEN Resting ELSE [@ EXCEPT !.step = step]]
    /\ microtasks' = IF step = "none" THEN Tail(microtasks) ELSE Append(Tail(microtasks), c)

Reopen(c) ==
    LET m == method[c] IN
    /\ m.step = "reopen"
    /\ RunsMicrotask(c, IF m.op = "sealTo" THEN "none" ELSE "move")
    /\ sub' = [sub EXCEPT !.openedAt = m.at]
    /\ UNCHANGED <<windows, inForce, notice, early, raced>>

Move(c) ==
    LET m == method[c] IN
    /\ m.step = "move"
    /\ RunsMicrotask(c, "announce")
    /\ sub' = [sub EXCEPT !.state = Target[m.op]]
    /\ inForce' = [l \in Ledgers |-> IF l >= m.at THEN Target[m.op] ELSE inForce[l]]
    /\ early' = early \cup {l \in {m.at} : /\ m.op = "lapse"
                                           /\ \/ notice.lapses = Unset \/ l < notice.lapses
                                              \/ l < notice.told + WindowLedgers}
    /\ UNCHANGED <<windows, notice, raced>>

(* reactivate leaves announcedLapseLedger alone.  The hook may throw; the    *)
(* call is over either way.                                                  *)
Announce(c) ==
    LET m == method[c] IN
    /\ m.step = "announce"
    /\ RunsMicrotask(c, "none")
    /\ sub' = IF m.op = "reactivate" THEN sub ELSE [sub EXCEPT !.announced = m.lapses]
    /\ notice' = IF m.op = "beginExpiring" THEN [told |-> m.at, lapses |-> m.lapses]
                 ELSE [told |-> Unset, lapses |-> Unset]
    /\ UNCHANGED <<windows, inForce, early, raced>>

BackstopNext ==
    \E c \in Callers :
        \/ AppendWindow(c) \/ Reopen(c) \/ Move(c) \/ Announce(c)
        \/ \E at \in Ledgers : \/ Renew(c, at) \/ Reactivate(c, at) \/ Cancel(c, at)
                               \/ Lapse(c, at) \/ SealTo(c, at)
                               \/ \E lapses \in Ledgers : BeginExpiring(c, at, lapses)

BackstopSpec == BackstopInit /\ [][BackstopNext]_backstopVars

-----------------------------------------------------------------------------
(* coverageForWindow: the records are walked in order of their start; a gap  *)
(* before, between or after them makes the answer unknown.                   *)
LeavesGap(found, start, end) ==
    \/ \A w \in found : w.end < end
    \/ \E w \in found : w.start > start /\ \A v \in found : v.start < w.start => v.end < w.start

CoverageForWindow(start, end) ==
    LET found == Overlapping([start |-> start, end |-> end]) IN
    IF found = {} \/ LeavesGap(found, start, end) THEN "unknown"
    ELSE IF \A w \in found : w.covered THEN "covered"
    ELSE IF \A w \in found : ~w.covered THEN "uncovered" ELSE "partial"

-----------------------------------------------------------------------------
(* The stored windows tile the ledgers from the activation to openedAt, or   *)
(* to the end of the one window appended since, without gap or overlap: also *)
(* when calls overlap, because append refuses every window but one that      *)
(* starts at openedAt.                                                       *)
CoverageTiles ==
    \A l \in Ledgers :
        LET hits == {w \in windows : w.start <= l /\ l < w.end} IN
        /\ Cardinality(hits) <= 1
        /\ l < sub.openedAt => hits # {}
        /\ l >= sub.openedAt /\ hits # {} =>
              \E c \in Callers : method[c].step = "reopen" /\ l < method[c].at

(* The audit answer for any window is what was in force at its ledgers, and  *)
(* unknown when one of them is not recorded yet, unless a call started       *)
(* between two microtasks of another.                                        *)
AuditAnswersTruly ==
    \A s \in Ledgers, e \in Ledgers :
        s < e =>
            LET recorded == \A l \in s..(e - 1) : \E w \in windows : w.start <= l /\ l < w.end
                held == {IsCoveredState(inForce[l]) : l \in s..(e - 1)}
            IN  raced \/ CoverageForWindow(s, e) =
                            IF ~recorded THEN "unknown"
                            ELSE IF held = {TRUE} THEN "covered"
                            ELSE IF held = {FALSE} THEN "uncovered" ELSE "partial"

(* "notify before the lapse, never after": no subscription lapses without a  *)
(* notice, before the ledger it named, or less than a window after it, even  *)
(* when calls overlap, unless one started between two microtasks of another. *)
NoticeBeforeLapse == raced \/ early = {}

(* The coverage record is without gaps, answers truly, and shows a notice    *)
(* before every lapse.                                                       *)
CoverageSound == CoverageTiles /\ AuditAnswersTruly /\ NoticeBeforeLapse

(* What the comment on lapsesAtLedger says: "The announced lapse ledger      *)
(* while `expiring`, else `null`" (between calls).                           *)
AnnouncedOnlyWhileExpiring ==
    (\A c \in Callers : method[c] = Resting) => (sub.announced # Unset => sub.state = "expiring")
=============================================================================
