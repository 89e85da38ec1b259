------------------------------ MODULE Sponsorship ------------------------------
(***************************************************************************)
(* The fee-bump paymaster and its spend controls (packages/worker-core/src/ *)
(* Paymaster.ts, sponsorshipPolicy.ts).  A bump runs in one go: checks,     *)
(* envelope, record.  `feeBump.fee` is computed by the SDK (external):      *)
(* baseFee * (operations + 1).                                              *)
(***************************************************************************)
EXTENDS Integers, Sequences, SequencesExt, FiniteSets, FiniteSetsExt, Functions

CONSTANTS
    Users,          \* source accounts of inner transactions
    MaxBumps,       \* maxBumpsPerUserPerWindow
    RateWindow,     \* windowMs
    MaxFee,         \* maxFeePerBump
    Ceiling,        \* dailyXlmCeiling, in stroops
    Day,            \* ticks in a UTC day
    BaseFees,       \* base fees asked for
    OpCounts,       \* operations in an inner transaction
    LastTick,       \* BOUND on the clock
    MaxGrants       \* BOUND on the bumps granted

ASSUME SponsorshipAssumption ==
    /\ {MaxBumps, RateWindow, MaxFee, Ceiling, LastTick, MaxGrants} \subseteq Nat
    /\ Day \in Nat \ {0} /\ BaseFees \subseteq Nat
    /\ OpCounts \subseteq Nat /\ IsFiniteSet(OpCounts)

VARIABLES
    tick,     \* Date.now()
    buckets,  \* the timestamps kept for each user
    daily,    \* the day and the stroops spent on it
    granted   \* history: the bumps granted, in order

sponsorVars == <<tick, buckets, daily, granted>>

SponsorInit ==
    /\ tick = 0 /\ buckets = [u \in Users |-> <<>>]
    /\ daily = [date |-> -1, stroops |-> 0] /\ granted = <<>>

-----------------------------------------------------------------------------
Today == tick \div Day

MutInWindow(t) == t >= tick - RateWindow
InWindow(t) == t > tick - RateWindow

Keep(kept, t) == IF InWindow(t) THEN Append(kept, t) ELSE kept

Recent(u) == FoldLeft(Keep, <<>>, buckets[u])

SpentToday == IF daily.date = Today THEN daily.stroops ELSE 0

Permitted(u, baseFee) ==
    /\ Len(Recent(u)) < MaxBumps
    /\ baseFee <= MaxFee
    /\ SpentToday < Ceiling

TotalFee(baseFee, operations) == baseFee * (operations + 1)

(* parseInner refuses a transaction without operations; one from the         *)
(* operator's own account, and any the policy refuses, throw likewise.       *)
Bump(u, baseFee, operations) ==
    /\ Len(granted) < MaxGrants
    /\ operations > 0
    /\ Permitted(u, baseFee)
    /\ buckets' = [buckets EXCEPT ![u] = Append(Recent(u), tick)]
    /\ daily' = [date |-> Today, stroops |-> SpentToday + TotalFee(baseFee, operations)]
    /\ granted' = Append(granted, [user |-> u, at |-> tick,
                                   fee |-> TotalFee(baseFee, operations)])
    /\ UNCHANGED tick

ClockTick ==
    /\ tick < LastTick
    /\ tick' = tick + 1
    /\ UNCHANGED <<buckets, daily, granted>>

SponsorNext ==
    \/ ClockTick
    \/ \E u \in Users, baseFee \in BaseFees, operations \in OpCounts : Bump(u, baseFee, operations)

SponsorSpec == SponsorInit /\ [][SponsorNext]_sponsorVars

-----------------------------------------------------------------------------
GrantedIn(u, from, to) ==
    {n \in DOMAIN granted : granted[n].user = u /\ granted[n].at > from /\ granted[n].at <= to}

Fees == [n \in DOMAIN granted |-> granted[n].fee]

Spent(day) == SumFunctionOnSet(Fees, {n \in DOMAIN granted : granted[n].at \div Day = day})

Largest == Max({0} \cup {TotalFee(f, o) : f \in {x \in BaseFees : x <= MaxFee}, o \in OpCounts})

(* In no window of windowMs, wherever it starts, is a user granted more than *)
(* maxBumpsPerUserPerWindow bumps; and what the bucket still counts is what  *)
(* was granted in the last one, so that nobody is refused for less.          *)
RateLimited ==
    \A u \in Users :
        /\ \A to \in 0..tick : Cardinality(GrantedIn(u, to - RateWindow, to)) <= MaxBumps
        /\ Len(Recent(u)) = Cardinality(GrantedIn(u, tick - RateWindow, tick))

(* The bumps of one day cost the operator less than the ceiling plus one     *)
(* bump, and what check() counts as spent is what they cost, also across     *)
(* midnight.                                                                 *)
FloatBounded ==
    /\ \A day \in 0..Today : Spent(day) < Ceiling + Largest \/ Spent(day) = 0
    /\ SpentToday = Spent(Today)

(* A user's bumps and a day's spending are bounded as configured.            *)
SponsorshipBounded == RateLimited /\ FloatBounded

(* What the comment on dailyXlmCeiling says: "Maximum total XLM the          *)
(* paymaster may sponsor in a single calendar day".                          *)
CeilingIsMaximum == \A day \in 0..Today : Spent(day) <= Ceiling
=============================================================================
