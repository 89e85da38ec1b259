---------------------------- MODULE WorkerRegistry ----------------------------
(***************************************************************************)
(* The operators' table or the offerings' table of the registry contract    *)
(* (contracts/registry/src/lib.rs) for one operator: the two are written    *)
(* the same way and share nothing.  A client pages through the versions     *)
(* while others are registered.  Every call is atomic.  Entries lapse, each  *)
(* for itself, and anyone may pay to restore or extend one.  There is no    *)
(* touch for these tables: of the contract's calls only register extends.   *)
(***************************************************************************)
EXTENDS Integers, Sequences, SequencesExt, FiniteSets

CONSTANTS
    WorkerVersions, \* versions there are to register
    PageSize,       \* MAX_PAGE_SIZE
    WorkerBump,     \* BUMP_AMOUNT, in ledgers
    WorkerTtlMin,   \* LIFETIME_THRESHOLD
    LastSequence    \* BOUND on the ledgers

(* The keys of the list and of the latest are no version.                    *)
ASSUME WorkerRegistryAssumption ==
    /\ PageSize \in Nat \ {0} /\ WorkerTtlMin <= WorkerBump
    /\ WorkerBump \in Nat /\ WorkerTtlMin \in Nat \ {0} /\ LastSequence \in Nat
    /\ "versions" \notin WorkerVersions /\ "latest" \notin WorkerVersions

VARIABLES
    sequence,  \* the current ledger
    table,     \* of each kind: the records, the list, the latest, until when entries live
    pager,     \* the paged read under way, of each kind
    prolonged  \* history: someone prolonged the latest entry since the last register

workerRegistryVars == <<sequence, table, pager, prolonged>>

NoVersion == "no version"
Marker == "truncated"
NoPager == [on |-> FALSE, cursor |-> 0, got |-> <<>>, began |-> 0, done |-> FALSE]

WorkerRegistryInit ==
    /\ sequence = 0
    /\ table = [versions |-> <<>>, latest |-> NoVersion, until |-> <<>>]
    /\ pager = NoPager /\ prolonged = FALSE

-----------------------------------------------------------------------------
(* extend_ttl does nothing while enough life is left.                        *)
Kept(until) == IF until - sequence < WorkerTtlMin THEN sequence + WorkerBump ELSE until

Alive(e) == table.until[e] >= sequence

Registered == Range(table.versions)

(* register_operator, register_offering: auth, the non-empty fields and      *)
(* AlreadyPublished are conditions; the record, the list and the latest are  *)
(* written and extended.  With a lapsed entry in its footprint it does not   *)
(* run.                                                                      *)
Register(v) ==
    LET written == {v, "versions", "latest"}
        old(e) == IF e \in DOMAIN table.until THEN table.until[e] ELSE sequence
    IN  /\ v \notin Registered
        /\ \A e \in {"versions", "latest"} \cap DOMAIN table.until : Alive(e)
        /\ table' = [versions |-> Append(table.versions, v), latest |-> v,
                     until |-> [e \in DOMAIN table.until \cup written |->
                                  IF e \in written THEN Kept(old(e)) ELSE table.until[e]]]
        /\ prolonged' = FALSE
        /\ UNCHANGED <<sequence, pager>>

(* Someone restores a lapsed entry, or extends one: that entry alone, and    *)
(* for as long as they pay for.                                              *)
Prolong(e) ==
    /\ e \in DOMAIN table.until
    /\ \E n \in sequence .. sequence + WorkerBump :
          n > table.until[e] /\ table' = [table EXCEPT !.until[e] = n]
    /\ prolonged' = (prolonged \/ e = "latest")
    /\ UNCHANGED <<sequence, pager>>

(* list_operator_versions: one page, and a marker if there are more.         *)
MutListVersions ==
    IF Len(table.versions) > PageSize THEN SubSeq(table.versions, 1, PageSize) ELSE table.versions
ListVersions ==
    IF Len(table.versions) > PageSize
    THEN Append(SubSeq(table.versions, 1, PageSize), Marker) ELSE table.versions

(* list_operator_versions_paged, one call; -1 is the cursor of the last page. *)
PageOf(start) ==
    LET all == table.versions
        end == IF start + PageSize < Len(all) THEN start + PageSize ELSE Len(all)
    IN  IF start >= Len(all) THEN [names |-> <<>>, next |-> -1]
        ELSE [names |-> SubSeq(all, start + 1, end), next |-> IF end < Len(all) THEN end ELSE -1]

StartPaging ==
    /\ ~pager.on /\ ~pager.done
    /\ pager' = [NoPager EXCEPT !.on = TRUE, !.began = Len(table.versions)]
    /\ UNCHANGED <<sequence, table, prolonged>>

(* The simulation of a call on a lapsed list does not answer.                *)
NextPage ==
    LET page == PageOf(pager.cursor) IN
    /\ pager.on
    /\ "versions" \in DOMAIN table.until => Alive("versions")
    /\ pager' = [pager EXCEPT !.got = @ \o page.names, !.cursor = page.next,
                              !.on = page.next # -1, !.done = page.next = -1]
    /\ UNCHANGED <<sequence, table, prolonged>>

SequenceCloses ==
    /\ sequence < LastSequence /\ sequence' = sequence + 1
    /\ UNCHANGED <<table, pager, prolonged>>

WorkerRegistryNext ==
    \/ StartPaging \/ NextPage \/ SequenceCloses
    \/ \E v \in WorkerVersions : Register(v)
    \/ \E e \in WorkerVersions \cup {"versions", "latest"} : Prolong(e)

WorkerRegistrySpec == WorkerRegistryInit /\ [][WorkerRegistryNext]_workerRegistryVars

-----------------------------------------------------------------------------
(* The list has every version once and the latest is its last; while the     *)
(* latest entry is live the record it names is, so that latest_operator and  *)
(* latest_offering never find the one without the other.  Only a payment for *)
(* the latest entry alone can part them, and the next registration joins     *)
(* them again.                                                               *)
LatestIsReadable ==
    /\ IsInjective(table.versions)
    /\ table.versions # <<>> =>
          /\ table.latest = Last(table.versions)
          /\ Alive("latest") => Alive(table.latest) \/ prolonged

(* Pages read while versions are registered come to a list that has skipped  *)
(* and repeated none, with all there were at the start; and the short list   *)
(* either is the whole list or says that it is not.                          *)
VersionsAreComplete ==
    /\ IsPrefix(pager.got, table.versions)
    /\ pager.done => Len(pager.got) >= pager.began
    /\ ListVersions = table.versions \/ Last(ListVersions) = Marker

(* The workers registered are found: by the latest entry, page by page and   *)
(* in the short list.                                                        *)
WorkersAreListed == LatestIsReadable /\ VersionsAreComplete
=============================================================================
