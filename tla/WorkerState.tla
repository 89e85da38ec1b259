----------------------------- MODULE WorkerState -----------------------------
(***************************************************************************)
(* The worker state stores (packages/worker-core/src) for one worker.       *)
(* FileWorkerStateStore and RedisWorkerStateStore read the whole state and  *)
(* write it back (`doc`); PostgresWorkerStateStore inserts into the history *)
(* and then updates the registration row (`history`, `row`).  The same      *)
(* calls are made on both; calls of several processes overlap at every      *)
(* await, and a process may die between two of them.                        *)
(***************************************************************************)
EXTENDS Integers, Sequences, FiniteSets

CONSTANTS
    Writers,  \* processes, one call each at a time
    Fires,    \* fire records to append
    MaxDies   \* BOUND on calls cut short

ASSUME WorkerStateAssumption == MaxDies \in Nat

VARIABLES
    doc,        \* the stored document, or Missing
    history,    \* worker_fire_history
    claimed,    \* worker_claims: is the window claimed?
    row,        \* worker_registrations: last_fired_window, or Missing
    call,       \* each writer's call
    todo,       \* fire records not yet given to appendFireRecord
    dies,
    written,    \* history: the store and record of each append that resolved
    callsMet    \* history: two calls were under way together

stateVars == <<doc, history, claimed, row, call, todo, dies, written, callsMet>>

Nothing  == "nothing"
Missing  == [there |-> FALSE, fires |-> <<>>, claimed |-> FALSE, last |-> Nothing]
Fresh    == [Missing EXCEPT !.there = TRUE]
NoCall   == [op |-> Nothing, at |-> "idle", arg |-> Nothing, seen |-> Missing,
             known |-> FALSE]

StateInit ==
    /\ doc = Missing /\ history = <<>> /\ claimed = FALSE /\ row = Missing
    /\ call = [w \in Writers |-> NoCall]
    /\ todo = Fires /\ dies = 0 /\ written = {} /\ callsMet = FALSE

-----------------------------------------------------------------------------
StartsCall(w, op, arg) ==
    /\ call[w] = NoCall
    /\ call' = [call EXCEPT ![w] = [NoCall EXCEPT !.op = op, !.at = "read", !.arg = arg]]
    /\ callsMet' = (callsMet \/ \E v \in Writers : call[v] # NoCall)

CallRegister(w) ==
    /\ StartsCall(w, "register", Nothing)
    /\ UNCHANGED <<doc, history, claimed, row, todo, dies, written>>

CallAppend(w) ==
    /\ \E f \in todo : StartsCall(w, "append", f) /\ todo' = todo \ {f}
    /\ UNCHANGED <<doc, history, claimed, row, dies, written>>

CallClaims(w) ==
    /\ \E op \in {"claim", "release"} : StartsCall(w, op, Nothing)
    /\ UNCHANGED <<doc, history, claimed, row, todo, dies, written>>

(* The first await: the document, and SELECT 1 FROM worker_registrations     *)
(* (for registerWorker, the INSERT ... DO NOTHING).  Without a registration  *)
(* the other calls throw; with one, registerWorker is over.  A call cut      *)
(* short may have left the worker registered in one kind of store only.      *)
ReadState(w) ==
    LET c == call[w]
        goesOn == IF c.op = "register" THEN ~doc.there ELSE doc.there \/ row.there
    IN
    /\ c.at = "read"
    /\ row' = IF c.op = "register" /\ ~row.there THEN Fresh ELSE row
    /\ call' = [call EXCEPT ![w] =
                   IF goesOn THEN [c EXCEPT !.at = "write", !.seen = doc, !.known = row.there]
                   ELSE NoCall]
    /\ UNCHANGED <<doc, history, claimed, todo, dies, written, callsMet>>

(* What the call makes of the state it has read.                             *)
Updated(c) ==
    CASE c.op = "register" -> Fresh
      [] c.op = "append"   -> [c.seen EXCEPT !.fires = Append(@, c.arg), !.last = c.arg]
      [] c.op = "claim"    -> [c.seen EXCEPT !.claimed = TRUE]
      [] c.op = "release"  -> [c.seen EXCEPT !.claimed = FALSE]

(* The second await: SET or rename of the document; INSERT into the history, *)
(* upsert or DELETE of the claim.                                            *)
WriteState(w) ==
    LET c == call[w] IN
    /\ c.at = "write"
    /\ doc' = IF c.op = "register" \/ c.seen.there THEN Updated(c) ELSE doc
    /\ history' = IF c.op = "append" /\ c.known THEN Append(history, c.arg) ELSE history
    /\ claimed' = IF c.op \in {"claim", "release"} /\ c.known THEN c.op = "claim" ELSE claimed
    /\ call' = [call EXCEPT ![w].at = "update"]
    /\ UNCHANGED <<row, todo, dies, written, callsMet>>

(* The third: UPDATE worker_registrations; the call resolves.                *)
MutLastFired(c) == row.last
LastFired(c) == IF c.op = "append" /\ c.known THEN c.arg ELSE row.last

UpdateRow(w) ==
    LET c == call[w] IN
    /\ c.at = "update"
    /\ row' = [row EXCEPT !.last = LastFired(c)]
    /\ written' = written \cup {s \in {"document", "rows"} \X {c.arg} :
                                   /\ c.op = "append"
                                   /\ IF s[1] = "rows" THEN c.known ELSE c.seen.there}
    /\ call' = [call EXCEPT ![w] = NoCall]
    /\ UNCHANGED <<doc, history, claimed, todo, dies, callsMet>>

(* The process dies in the middle of a call.                                 *)
Dies(w) ==
    /\ dies < MaxDies /\ call[w] # NoCall
    /\ dies' = dies + 1
    /\ call' = [call EXCEPT ![w] = NoCall]
    /\ UNCHANGED <<doc, history, claimed, row, todo, written, callsMet>>

StateNext ==
    \E w \in Writers : \/ CallRegister(w) \/ CallAppend(w) \/ CallClaims(w)
                       \/ ReadState(w) \/ WriteState(w) \/ UpdateRow(w) \/ Dies(w)

StateSpec == StateInit /\ [][StateNext]_stateVars

-----------------------------------------------------------------------------
InOrder(s) == {s[n] : n \in DOMAIN s}

(* "A minor-version upgrade MUST NOT lose fire history": a fire whose append *)
(* resolved stays in the history of both stores, whatever other calls do and *)
(* whoever dies, unless calls overlapped on a store that rewrites the whole  *)
(* document; the insert-only history keeps it even then.                     *)
HistoryKept ==
    \A s \in written : IF s[1] = "rows" THEN s[2] \in InOrder(history)
                       ELSE callsMet \/ s[2] \in InOrder(doc.fires)

(* The last fired window is the last one of the history, unless an append is *)
(* under way, calls overlapped, or a process died between INSERT and UPDATE. *)
LastFiredIsLast ==
    \/ callsMet \/ dies > 0 \/ history = <<>>
    \/ \E w \in Writers : call[w].op = "append"
    \/ row.last = history[Len(history)]

(* As long as calls neither overlap nor are cut short, the two kinds of      *)
(* store agree on the history and on the claim after every write.            *)
StoresAgree == callsMet \/ dies > 0 \/ (doc.fires = history /\ doc.claimed = claimed)

(* The stores keep the fire history and agree with each other on it.         *)
StateKept == HistoryKept /\ LastFiredIsLast /\ StoresAgree
=============================================================================
