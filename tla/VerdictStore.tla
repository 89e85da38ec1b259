----------------------------- MODULE VerdictStore -----------------------------
(***************************************************************************)
(* The stores of worker verdicts: WorkerFireVerdictStore.record with        *)
(* MemoryWorkerVerdictStore and PostgresWorkerVerdictStore behind it.  A    *)
(* verdict is never changed; a correction is a record that supersedes       *)
(* another of the same window.  The stamps are the writers' clocks, which   *)
(* need not agree.  Postgres answers a query by several round trips.        *)
(***************************************************************************)
EXTENDS Integers, FiniteSets

CONSTANTS
    RecordIds,      \* record ids: numbers, for their order
    StoreWindows,   \* windowId
    Operators,      \* the workers' operators
    Stamps          \* recordedAt

ASSUME VerdictStoreAssumption == RecordIds \subseteq Nat \ {0} /\ Stamps \subseteq Nat

VARIABLES
    rows,       \* the records, superseded ones included
    query       \* the queryByOperator of Postgres under way

storeVars == <<rows, query>>

NoQuery == [on |-> FALSE, operator |-> "none", before |-> {}, left |-> {}, latest |-> {}]

StoreInit == rows = {} /\ query = NoQuery

-----------------------------------------------------------------------------
(* record(): the id is new, and what it supersedes is there (the foreign     *)
(* key).  0 supersedes nothing.                                              *)
RecordVerdict(id, window, operator, at, supersedes) ==
    /\ \A r \in rows : r.id # id
    /\ supersedes # 0 => \E r \in rows : r.id = supersedes /\ r.window = window
    /\ rows' = rows \cup {[id |-> id, window |-> window, operator |-> operator, at |-> at,
                           supersedes |-> supersedes]}
    /\ UNCHANGED query

(* latestOf: of those no record of the window supersedes, the newest.        *)
Unsuperseded(history) == {r \in history : \A q \in history : q.supersedes # r.id}

LatestOf(history) ==
    CHOOSE r \in Unsuperseded(history) : \A q \in Unsuperseded(history) :
        q.at < r.at \/ (q.at = r.at /\ q.id <= r.id)

History(window) == {r \in rows : r.window = window}

WindowsOf(operator) == {r.window : r \in {r \in rows : r.operator = operator}}

(* MemoryWorkerVerdictStore.query: the latest record must match as well.     *)
Matches(r, operator) == r.operator = operator

MemoryByOperator(operator) ==
    {r \in {LatestOf(History(w)) : w \in WindowsOf(operator)} : Matches(r, operator)}

(* runLatestOnlyAwareQuery: the matching rows first, then the history of     *)
(* each of their windows.                                                    *)
QueryStarts(operator) ==
    /\ ~query.on
    /\ query' = [on |-> TRUE, operator |-> operator, before |-> rows,
                 left |-> WindowsOf(operator), latest |-> {}]
    /\ UNCHANGED rows

(* What getLatestForWindow sees.                                             *)
MutSeen(window) == {r \in History(window) : r.operator = query.operator}
Seen(window) == History(window)

WindowResolved(window) ==
    /\ query.on /\ window \in query.left
    /\ query' = [query EXCEPT !.left = @ \ {window}, !.latest = @ \cup {LatestOf(Seen(window))}]
    /\ UNCHANGED rows

QueryReturns ==
    /\ query.on /\ query.left = {}
    /\ query' = NoQuery
    /\ UNCHANGED rows

StoreNext ==
    \/ \E id \in RecordIds, w \in StoreWindows, o \in Operators, at \in Stamps,
          s \in RecordIds \cup {0} : RecordVerdict(id, w, o, at, s)
    \/ \E o \in Operators : QueryStarts(o)
    \/ \E w \in StoreWindows : WindowResolved(w)
    \/ QueryReturns

StoreSpec == StoreInit /\ [][StoreNext]_storeVars

-----------------------------------------------------------------------------
(* r corrects every other record, directly or not: one cannot leave any out  *)
(* who starts with r and goes on to whatever a record supersedes.            *)
CorrectsAll(r, history) ==
    \A S \in SUBSET history :
        (r \in S /\ \A p \in S, q \in history : p.supersedes = q.id => q \in S) => S = history

(* Whatever the writers' clocks say, a record corrected by others is never   *)
(* the verdict of its window, a window with records has a verdict, and a     *)
(* record that corrects all others, directly or not, is the verdict.         *)
ChainEndIsVerdict ==
    \A w \in StoreWindows : LET history == History(w) IN history # {} =>
        /\ Unsuperseded(history) # {}
        /\ \A q \in history : q.supersedes # LatestOf(history).id
        /\ \A r \in history : CorrectsAll(r, history) => LatestOf(history) = r

(* Every window counts for one operator, the one its verdict names, also     *)
(* when a correction moved it from one operator to another.                  *)
CountsForOne ==
    \A w \in StoreWindows : History(w) # {} =>
        {o \in Operators : \E r \in MemoryByOperator(o) : r.window = w}
            = {LatestOf(History(w)).operator}

Answered == query.on /\ query.left = {}

(* A query that takes several round trips, with verdicts recorded in         *)
(* between, answers one record for every window it was asked about, and none *)
(* that had been corrected before it began.                                  *)
QueriesSeeCorrections ==
    Answered =>
        /\ {r.window : r \in query.latest} =
              {r.window : r \in {r \in query.before : r.operator = query.operator}}
        /\ \A r, q \in query.latest : r.window = q.window => r = q
        /\ \A r \in query.latest : \A q \in query.before : q.supersedes # r.id

(* A window has one verdict, the end of its chain of corrections, for one    *)
(* operator, also for a query that runs meanwhile.                           *)
VerdictsSound == ChainEndIsVerdict /\ CountsForOne /\ QueriesSeeCorrections

(* A claim the code does not keep: queryByOperator answers "verdicts across  *)
(* every worker belonging to one operator".  Postgres returns the latest     *)
(* record of a window without asking for its operator again, and so differs  *)
(* from the memory store after a correction of the operator.                 *)
AnswersTheOperator == Answered => \A r \in query.latest : r.operator = query.operator
=============================================================================
