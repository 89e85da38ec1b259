---------------------------- MODULE FileRetryQueue ----------------------------
(***************************************************************************)
(* The retries of worker submissions (packages/worker-core/src/retry.ts):   *)
(* FileWorkerRetryQueue, a JSON file with a cached array in front of it,    *)
(* RetryPolicy.decide and the dead letters (WorkerDeadLetterStore.ts).      *)
(*                                                                         *)
(* Every queue call loads the array (from the cache, or from the file when  *)
(* there is none), changes it, writes a temporary file and renames it; the  *)
(* calls may overlap at each await.  Arrays keep their identity: a call     *)
(* changes the array it loaded, in place.  The process that runs the        *)
(* attempts is not part of the package (external): it dequeues, attempts,   *)
(* and then acks, or asks the policy and enqueues or dead-letters.          *)
(***************************************************************************)
EXTENDS Integers, Sequences, FiniteSets

CONSTANTS
    Jobs,        \* submissionIds
    MaxAttempts, \* maxAttempts of the policy
    Deadline,    \* windowDeadlineMs of the submissions
    MaxDelay,    \* maxDelayMs: the longest back-off
    MaxEntries,  \* maxEntries of the dead-letter store
    LastTime,    \* BOUND on the clock
    CallSlots,   \* BOUND on the calls under way together: 1..CallSlots
    MaxCrashes   \* BOUND on restarts

ASSUME FileQueueAssumption ==
    /\ MaxAttempts \in Nat \ {0} /\ Deadline \in Nat /\ MaxDelay \in Nat /\ MaxEntries \in Nat
    /\ LastTime \in Nat /\ CallSlots \in Nat /\ MaxCrashes \in Nat

VARIABLES
    time,
    job,        \* what becomes of each submission
    attempts,   \* attempts made of each submission
    file,       \* the records in the file: a function from the jobs in it
    cache,      \* which array this.cache is, 0 for null
    arrays,     \* the arrays this process made, as such functions
    calls,      \* the call in each slot
    deadLetters,\* entries, oldest first
    crashes,
    overlapped, \* history: two calls were under way together
    loadedTwice,\* history: two calls read the file into two arrays
    dropped,    \* history: submissions in a dying process's hands and not in the file
    again       \* history: submissions attempted after they had succeeded

fileVars == <<time, job, attempts, file, cache, arrays, calls, deadLetters, crashes,
              overlapped, loadedTwice, dropped, again>>

NoRecords == [j \in {} |-> 0]
Idle      == [at |-> "idle", op |-> "none", job |-> "none", due |-> 0, array |-> 0,
              text |-> NoRecords]
Slots     == 1..CallSlots
InHand(j) == \/ job[j] \in {"attempting", "enqueuing"}
             \/ job[j] = "queued" /\ \E s \in Slots : calls[s].job = j

FileInit ==
    /\ time = 0
    /\ job = [j \in Jobs |-> "attempting"] /\ attempts = [j \in Jobs |-> 1]
    /\ file = NoRecords /\ cache = 0 /\ arrays = <<>>
    /\ calls = [s \in Slots |-> Idle] /\ deadLetters = <<>>
    /\ crashes = 0 /\ overlapped = FALSE /\ loadedTwice = FALSE /\ dropped = {} /\ again = {}

-----------------------------------------------------------------------------
(* A call starts in a free slot.  `due` is what enqueue is to write.         *)
Starts(op, j, due) ==
    /\ \E s \in Slots :
          /\ calls[s] = Idle /\ \A r \in Slots : r < s => calls[r] # Idle
          /\ calls' = [calls EXCEPT ![s] = [Idle EXCEPT !.at = "load", !.op = op, !.job = j,
                                                        !.due = due]]
    /\ overlapped' = (overlapped \/ \E s \in Slots : calls[s] # Idle)

(* load: the cached array, or a new one with what the file holds.            *)
Load(s) ==
    /\ calls[s].at = "load"
    /\ calls' = [calls EXCEPT ![s].at = IF cache = 0 THEN "read" ELSE "act", ![s].array = cache]
    /\ UNCHANGED <<time, job, attempts, file, cache, arrays, deadLetters, crashes, overlapped,
                   loadedTwice, dropped, again>>

Read(s) ==
    /\ calls[s].at = "read"
    /\ arrays' = Append(arrays, file)
    /\ cache' = Len(arrays) + 1
    /\ loadedTwice' = (loadedTwice \/ cache # 0)
    /\ calls' = [calls EXCEPT ![s].at = "act", ![s].array = Len(arrays) + 1]
    /\ UNCHANGED <<time, job, attempts, file, deadLetters, crashes, overlapped, dropped, again>>

(* persist: the array is the cache at once, and the file two awaits later.   *)
Persists(s, j, records) ==
    LET n == calls[s].array
    IN  /\ arrays' = [arrays EXCEPT ![n] = records]
        /\ cache' = n
        /\ calls' = [calls EXCEPT ![s].at = "write", ![s].job = j]

MutUpserted(old, c) == [k \in {c.job} |-> c.due]
Upserted(old, c) == [k \in DOMAIN old \cup {c.job} |-> IF k = c.job THEN c.due ELSE old[k]]

EnqueueActs(s) ==
    LET c == calls[s] IN
    /\ c.at = "act" /\ c.op = "enqueue"
    /\ Persists(s, c.job, Upserted(arrays[c.array], c))
    /\ job' = [job EXCEPT ![c.job] = "queued"]
    /\ UNCHANGED <<time, attempts, file, deadLetters, crashes, overlapped, loadedTwice,
                   dropped, again>>

(* dequeue takes the earliest due record out of the array.                   *)
EarliestDue(old) ==
    {j \in DOMAIN old : old[j] <= time /\ \A k \in DOMAIN old : old[j] <= old[k]}

DequeueActs(s) ==
    LET c == calls[s] IN
    /\ c.at = "act" /\ c.op = "dequeue"
    /\ LET old == arrays[c.array] IN
       \/ /\ EarliestDue(old) = {}
          /\ calls' = [calls EXCEPT ![s] = Idle]
          /\ UNCHANGED <<arrays, cache>>
       \/ \E j \in EarliestDue(old) :
             Persists(s, j, [k \in DOMAIN old \ {j} |-> old[k]])
    /\ UNCHANGED <<time, job, attempts, file, deadLetters, crashes, overlapped, loadedTwice,
                   dropped, again>>

(* ack removes the record if it is there; filter makes a new array.          *)
AckActs(s) ==
    LET c == calls[s] IN
    /\ c.at = "act" /\ c.op = "ack"
    /\ job' = [job EXCEPT ![c.job] = "done"]
    /\ LET old == arrays[c.array] IN
       IF c.job \in DOMAIN old
       THEN /\ arrays' = Append(arrays, [k \in DOMAIN old \ {c.job} |-> old[k]])
            /\ cache' = Len(arrays) + 1
            /\ calls' = [calls EXCEPT ![s].at = "write", ![s].array = Len(arrays) + 1]
       ELSE calls' = [calls EXCEPT ![s] = Idle] /\ UNCHANGED <<arrays, cache>>
    /\ UNCHANGED <<time, attempts, file, deadLetters, crashes, overlapped, loadedTwice,
                   dropped, again>>

(* writeFile turns the array into text as it is by then.                     *)
WriteTemp(s) ==
    /\ calls[s].at = "write"
    /\ calls' = [calls EXCEPT ![s].at = "rename", ![s].text = arrays[calls[s].array]]
    /\ UNCHANGED <<time, job, attempts, file, cache, arrays, deadLetters, crashes, overlapped,
                   loadedTwice, dropped, again>>

Renamed(c) == c.text

(* After the rename the call is over; a dequeued record is being attempted.  *)
Rename(s) ==
    LET c == calls[s] IN
    /\ c.at = "rename"
    /\ file' = Renamed(c)
    /\ calls' = [calls EXCEPT ![s] = Idle]
    /\ job' = [job EXCEPT ![c.job] = IF c.op = "dequeue" THEN "attempting" ELSE @]
    /\ attempts' = [attempts EXCEPT ![c.job] = IF c.op = "dequeue" THEN @ + 1 ELSE @]
    /\ again' = again \cup (IF c.op = "dequeue" /\ job[c.job] = "done" THEN {c.job} ELSE {})
    /\ UNCHANGED <<time, cache, arrays, deadLetters, crashes, overlapped, loadedTwice, dropped>>

-----------------------------------------------------------------------------
(* The process: an attempt succeeds and is acked, or fails; RetryPolicy      *)
(* decides whether there is another one, and when.                           *)
Succeeds(j) ==
    /\ job[j] = "attempting"
    /\ job' = [job EXCEPT ![j] = "acking"]
    /\ Starts("ack", j, 0)
    /\ UNCHANGED <<time, attempts, file, cache, arrays, deadLetters, crashes, loadedTwice,
                   dropped, again>>

Exhausted(j) == attempts[j] >= MaxAttempts

FailsAndRetries(j) ==
    /\ job[j] = "attempting" /\ ~Exhausted(j)
    /\ \E delay \in 0..MaxDelay :
          /\ time + delay <= Deadline
          /\ Starts("enqueue", j, time + delay)
    /\ job' = [job EXCEPT ![j] = "enqueuing"]
    /\ UNCHANGED <<time, attempts, file, cache, arrays, deadLetters, crashes, loadedTwice,
                   dropped, again>>

(* A terminal failure, no attempt left, or no room in the window; record     *)
(* evicts the oldest entries above maxEntries.                               *)
EvictOldest(entries) == IF Len(entries) > MaxEntries THEN Tail(entries) ELSE entries

FailsForGood(j) ==
    /\ job[j] = "attempting"
    /\ job' = [job EXCEPT ![j] = "dead"]
    /\ deadLetters' = EvictOldest(Append(deadLetters, j))
    /\ UNCHANGED <<time, attempts, file, cache, arrays, calls, crashes, overlapped, loadedTwice,
                   dropped, again>>

Polls ==
    /\ \A s \in Slots : calls[s] = Idle \/ calls[s].op # "dequeue"
    /\ \E j \in Jobs : job[j] = "queued"
    /\ Starts("dequeue", "none", 0)
    /\ UNCHANGED <<time, job, attempts, file, cache, arrays, deadLetters, crashes, loadedTwice,
                   dropped, again>>

TimePasses ==
    /\ time < LastTime
    /\ time' = time + 1
    /\ UNCHANGED <<job, attempts, file, cache, arrays, calls, deadLetters, crashes, overlapped,
                   loadedTwice, dropped, again>>

(* The process dies; the next one starts from the file.  The dead letters    *)
(* are in memory.                                                            *)
Restart ==
    /\ crashes < MaxCrashes
    /\ crashes' = crashes + 1
    /\ calls' = [s \in Slots |-> Idle] /\ cache' = 0 /\ arrays' = <<>> /\ deadLetters' = <<>>
    /\ dropped' = dropped \cup {j \in Jobs : InHand(j) /\ j \notin DOMAIN file}
    /\ job' = [j \in Jobs |-> IF job[j] = "acking" THEN "done"
                              ELSE IF InHand(j) THEN "queued" ELSE job[j]]
    /\ UNCHANGED <<time, attempts, file, overlapped, loadedTwice, again>>

FileNext ==
    \/ \E s \in Slots : \/ Load(s) \/ Read(s) \/ EnqueueActs(s) \/ DequeueActs(s) \/ AckActs(s)
                        \/ WriteTemp(s) \/ Rename(s)
    \/ \E j \in Jobs : Succeeds(j) \/ FailsAndRetries(j) \/ FailsForGood(j)
    \/ Polls \/ TimePasses \/ Restart

FileSpec == FileInit /\ [][FileNext]_fileVars

-----------------------------------------------------------------------------
Queue == IF cache = 0 THEN file ELSE arrays[cache]

(* No submission is forgotten: one that waits for a retry is in the array or *)
(* in a call's hands, unless two first calls read the file into two arrays,  *)
(* a dying process had it in hand, or it died after overlapping calls, whose *)
(* texts may be renamed in the wrong order; and one that was given up is     *)
(* among the dead letters, or made room for others.                          *)
NothingForgotten ==
    \A j \in Jobs :
        /\ job[j] = "queued" => \/ j \in DOMAIN Queue \/ InHand(j)
                                \/ loadedTwice \/ j \in dropped \/ (overlapped /\ crashes > 0)
        /\ job[j] = "dead" => \/ \E n \in DOMAIN deadLetters : deadLetters[n] = j
                              \/ Len(deadLetters) = MaxEntries \/ crashes > 0

(* A submission that succeeded is not attempted again, whatever the process  *)
(* dies in the middle of, unless calls overlapped.                           *)
SucceedsOnce == overlapped \/ again = {}

(* A submission is retried until it succeeds or is given up, and not after.  *)
RetriesKept == NothingForgotten /\ SucceedsOnce

(* What the comment on FileWorkerRetryQueue says: "an operator restart       *)
(* replays the exact same retry chain from where it left off".               *)
SurvivesRestart == dropped = {}
=============================================================================
