---------------------------- MODULE ContractState ----------------------------
(***************************************************************************)
(* useContractState (packages/pulse-notify/src/useContractState.ts): a hook *)
(* that reads one ledger entry on mount, on a timer, on a matching event    *)
(* and on refetch().  A fetch aborts the one before it; its answer may come *)
(* late, also when it has been aborted.  The key may change between         *)
(* renders.                                                                 *)
(***************************************************************************)
EXTENDS Integers, Sequences

CONSTANTS
    LedgerKeys,   \* the keys the component may ask for
    MaxFetches    \* BOUND on the fetches ever made

VARIABLES
    keyProp,  \* the key of the last render, or NoLedgerKey when unmounted
    effectOf, \* the key the effect last ran for: its interval and subscription
    fetches,  \* every fetch made: its key, whether aborted, whether answered
    entry     \* data, loading and error as rendered, with the fetch data is of

readerVars == <<keyProp, effectOf, fetches, entry>>

NoLedgerKey == "no key"
Blank == [fetch |-> 0, loading |-> TRUE, error |-> FALSE]

ASSUME ContractStateAssumption == MaxFetches \in Nat /\ LedgerKeys # {} /\ NoLedgerKey \notin LedgerKeys

ReaderInit ==
    /\ keyProp = NoLedgerKey /\ effectOf = NoLedgerKey /\ fetches = <<>> /\ entry = Blank

-----------------------------------------------------------------------------
(* The controller in abortRef is always the last fetch's.                    *)
Aborted(fs) == [n \in DOMAIN fs |-> [fs[n] EXCEPT !.aborted = TRUE]]

(* fetchState up to its await.                                               *)
FetchState(k) ==
    /\ Len(fetches) < MaxFetches
    /\ fetches' = Append(Aborted(fetches), [key |-> k, aborted |-> FALSE, done |-> FALSE])
    /\ entry' = [entry EXCEPT !.loading = TRUE, !.error = FALSE]

(* A render with the same hook state and some key; the first one mounts.     *)
RenderReader(k) ==
    /\ keyProp # k /\ Len(fetches) < MaxFetches
    /\ keyProp' = k
    /\ entry' = IF keyProp = NoLedgerKey THEN Blank ELSE entry
    /\ UNCHANGED <<effectOf, fetches>>

(* The effects of fetchState's identity: the old ones are cleaned up, the    *)
(* interval and the connection are made again.                               *)
RunReaderEffect ==
    /\ effectOf # keyProp /\ keyProp # NoLedgerKey
    /\ FetchState(keyProp) /\ effectOf' = keyProp
    /\ UNCHANGED keyProp

(* The interval, a contract.emitted event the filter accepts, or refetch().  *)
Refresh ==
    /\ effectOf # NoLedgerKey /\ FetchState(effectOf)
    /\ UNCHANGED <<keyProp, effectOf>>

UnmountReader ==
    /\ keyProp # NoLedgerKey
    /\ keyProp' = NoLedgerKey /\ effectOf' = NoLedgerKey /\ fetches' = Aborted(fetches)
    /\ UNCHANGED entry

(* The continuation of getLedgerEntry: an aborted fetch says nothing.        *)
MutSpeaks(n) == keyProp # NoLedgerKey
Speaks(n) == ~fetches[n].aborted

AnswerShown(n) ==
    /\ ~fetches[n].done
    /\ fetches' = [fetches EXCEPT ![n].done = TRUE]
    /\ entry' = IF Speaks(n) THEN [entry EXCEPT !.fetch = n, !.loading = FALSE] ELSE entry
    /\ UNCHANGED <<keyProp, effectOf>>

FetchFails(n) ==
    /\ ~fetches[n].done
    /\ fetches' = [fetches EXCEPT ![n].done = TRUE]
    /\ entry' = IF Speaks(n) THEN [entry EXCEPT !.loading = FALSE, !.error = TRUE] ELSE entry
    /\ UNCHANGED <<keyProp, effectOf>>

ReaderNext ==
    \/ \E k \in LedgerKeys : RenderReader(k)
    \/ RunReaderEffect \/ Refresh \/ UnmountReader
    \/ \E n \in DOMAIN fetches : AnswerShown(n) \/ FetchFails(n)

ReaderSpec == ReaderInit /\ [][ReaderNext]_readerVars

-----------------------------------------------------------------------------
(* What is shown without an error is the entry the component asks for, as    *)
(* read by the last fetch of all, whatever the order of the answers; and     *)
(* `loading` says whether an answer is still to come.                        *)
EntryIsCurrent ==
    keyProp # NoLedgerKey /\ effectOf = keyProp =>
        /\ ~entry.loading /\ ~entry.error =>
              entry.fetch = Len(fetches) /\ fetches[entry.fetch].key = keyProp
        /\ entry.loading <=> ~fetches[Len(fetches)].done
=============================================================================
