------------------------------- MODULE Backfill -------------------------------
(***************************************************************************)
(* BackfillRunner (verification/backfill.ts): verdicts per subject and      *)
(* window of ledgers, computed from an export, with a checkpoint a later    *)
(* run resumes from.  computeVerdict depends on the events of the window    *)
(* only, whatever their order, so a verdict is the set of ledgers whose     *)
(* events it counts.  The stores are the file ones: they survive a crash.   *)
(***************************************************************************)
EXTENDS Integers, Sequences, FiniteSets, FiniteSetsExt

CONSTANTS
    Exports,      \* exports to run over: ledger -> the subjects with an event
    WindowSize,   \* windowSize
    FirstLedger,  \* range.startLedger
    RangeEnds,    \* the range.endLedger values runs are started with
    MaxRuns       \* bound: calls of run()

(* The export has the ledgers asked for.                                     *)
ASSUME BackfillAssumption ==
    /\ WindowSize \in Nat \ {0} /\ FirstLedger \in Nat /\ RangeEnds \subseteq Nat
    /\ MaxRuns \in Nat
    /\ \A x \in Exports : /\ DOMAIN x \subseteq Nat
                          /\ \A end \in RangeEnds : FirstLedger .. end \subseteq DOMAIN x

VARIABLES
    export,    \* the export
    sink,      \* FileVerdictSink: <<subject, window start>> -> ledgers counted
    ckpt,      \* lastProcessedLedger, -1 for none
    batch,       \* the run in progress
    ends,      \* history: the ends of the runs started
    complete   \* history: the end of the last run that returned, -1 for none

backfillVars == <<export, sink, ckpt, batch, ends, complete>>

NoBatch == [at |-> "idle", next |-> 0, end |-> 0, buckets |-> <<>>, todo |-> {}, left |-> {}]

BackfillInit ==
    /\ export \in Exports
    /\ sink = <<>> /\ ckpt = -1 /\ batch = NoBatch /\ ends = <<>> /\ complete = -1

WindowStartFor(ledger) == (ledger \div WindowSize) * WindowSize

(* run() loads the checkpoint.                                               *)
Run(end) ==
    LET start == IF ckpt = -1 THEN FirstLedger
                 ELSE Max({WindowStartFor(ckpt + 1), FirstLedger})
    IN
    /\ batch.at = "idle" /\ Len(ends) < MaxRuns
    /\ batch' = [NoBatch EXCEPT !.at = "reading", !.next = start, !.end = end]
    /\ ends' = Append(ends, end)
    /\ UNCHANGED <<export, sink, ckpt, complete>>

(* What a bucket holds once the events of ledger l are added.                *)
Bucketed(w, l) ==
    LET old == IF w \in DOMAIN batch.buckets THEN batch.buckets[w] ELSE <<>>
        new == IF WindowStartFor(l) = w THEN export[l] ELSE {}
    IN [s \in DOMAIN old \cup new |->
            (IF s \in DOMAIN old THEN old[s] ELSE {}) \cup (IF s \in new THEN {l} ELSE {})]

(* A window is flushed when a ledger at or past its end has been read.       *)
FullyRead(w) == batch.next >= w + WindowSize

(* One ledger of the export.                                                 *)
ReadLedger ==
    LET l == batch.next
        keys == DOMAIN batch.buckets \cup (IF export[l] = {} THEN {} ELSE {WindowStartFor(l)})
        buckets == [w \in keys |-> Bucketed(w, l)]
        full == {w \in keys : FullyRead(w)}
    IN
    /\ batch.at = "reading" /\ l <= batch.end
    /\ batch' = [batch EXCEPT !.next = l + 1, !.buckets = buckets, !.todo = full,
                          !.at = IF full = {} THEN "reading" ELSE "flushing",
                          !.left = IF full = {} THEN {} ELSE DOMAIN buckets[Min(full)]]
    /\ UNCHANGED <<export, sink, ckpt, ends, complete>>

(* The range has been read: what is left in the buckets is flushed.          *)
MutTrailing == {w \in DOMAIN batch.buckets : FullyRead(w)}
Trailing == DOMAIN batch.buckets

FlushTrailing ==
    /\ batch.at = "reading" /\ batch.next > batch.end /\ Trailing # {}
    /\ batch' = [batch EXCEPT !.at = "flushing", !.todo = Trailing,
                          !.left = DOMAIN batch.buckets[Min(Trailing)]]
    /\ UNCHANGED <<export, sink, ckpt, ends, complete>>

(* flushWindow: one sink.upsert.                                             *)
Upsert(s) ==
    LET w == Min(batch.todo) IN
    /\ batch.at = "flushing" /\ s \in batch.left
    /\ sink' = [k \in DOMAIN sink \cup {<<s, w>>} |->
                    IF k = <<s, w>> THEN batch.buckets[w][s] ELSE sink[k]]
    /\ batch' = [batch EXCEPT !.left = @ \ {s}]
    /\ UNCHANGED <<export, ckpt, ends, complete>>

(* The checkpoint is saved when every verdict of the window is written.      *)
MaySave == batch.left = {}

SaveCheckpoint ==
    LET w == Min(batch.todo)
        rest == batch.todo \ {w}
    IN
    /\ batch.at = "flushing" /\ MaySave
    /\ ckpt' = w + WindowSize - 1
    /\ batch' = [batch EXCEPT !.buckets = [v \in DOMAIN @ \ {w} |-> @[v]], !.todo = rest,
                          !.at = IF rest = {} THEN "reading" ELSE "flushing",
                          !.left = IF rest = {} THEN {} ELSE DOMAIN batch.buckets[Min(rest)]]
    /\ UNCHANGED <<export, sink, ends, complete>>

RunReturns ==
    /\ batch.at = "reading" /\ batch.next > batch.end /\ Trailing = {}
    /\ batch' = NoBatch /\ complete' = batch.end
    /\ UNCHANGED <<export, sink, ckpt, ends>>

(* The process dies, or a read or a write throws.                            *)
RunFails ==
    /\ batch.at # "idle"
    /\ batch' = NoBatch
    /\ UNCHANGED <<export, sink, ckpt, ends, complete>>

BackfillNext ==
    \/ \E end \in RangeEnds : Run(end)
    \/ \E s \in batch.left : Upsert(s)
    \/ ReadLedger \/ FlushTrailing \/ SaveCheckpoint \/ RunReturns \/ RunFails

BackfillSpec == BackfillInit /\ [][BackfillNext]_backfillVars

-----------------------------------------------------------------------------
(* The events of s in window w, up to ledger `end`.                          *)
EventsIn(s, w, end) ==
    {l \in DOMAIN export : l \in FirstLedger .. end /\ WindowStartFor(l) = w /\ s \in export[l]}

(* What a run over the range writes when nothing interrupts it.              *)
Uninterrupted(end) ==
    UNION {{<<s, WindowStartFor(l)>> : s \in export[l]} : l \in FirstLedger .. end}

(* Runs over one range, or over ranges that end with a window; a range that  *)
(* ends inside a window is not shortened to.                                 *)
EndsWindow(ledger) == (ledger + 1) % WindowSize = 0

SameRange(end) ==
    \A i \in DOMAIN ends :
        ends[i] = end \/ (EndsWindow(ends[i]) /\ (ends[i] < end \/ EndsWindow(end)))

(* Once a run returns, the sink holds what one uninterrupted run would have  *)
(* written, however often and wherever earlier runs died: no window is       *)
(* missing, none is scored on a part of its events ("a re-run or resume      *)
(* upserts by (subject, window), so output is stable").                      *)
ResumesWhole ==
    complete # -1 /\ SameRange(complete) =>
        \A k \in Uninterrupted(complete) :
            k \in DOMAIN sink /\ sink[k] = EventsIn(k[1], k[2], complete)

(* The checkpoint is never ahead of the sink: every window it has passed is  *)
(* written, and whole, at whichever await the process dies.                  *)
CheckpointCovers ==
    batch.at # "idle" /\ SameRange(batch.end) =>
        \A k \in Uninterrupted(batch.end) :
            k[2] <= ckpt => k \in DOMAIN sink /\ sink[k] = EventsIn(k[1], k[2], batch.end)

(* A backfill that dies anywhere and runs again over the range ends as if    *)
(* it had not died.                                                          *)
BackfillResumes == ResumesWhole /\ CheckpointCovers

(* A claim the code does not keep: "checkpoints progress so a partial run    *)
(* can resume".  A run whose range ends inside a window saves a checkpoint   *)
(* at the window's end, and a later run over a longer range skips the rest   *)
(* of the window.                                                            *)
LongerRangeIsWhole ==
    complete # -1 =>
        \A k \in Uninterrupted(complete) :
            k \in DOMAIN sink /\ sink[k] = EventsIn(k[1], k[2], complete)
=============================================================================
