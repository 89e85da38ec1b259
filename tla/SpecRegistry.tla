----------------------------- MODULE SpecRegistry -----------------------------
(***************************************************************************)
(* The on-chain spec registry (contracts/registry/src/lib.rs) for one       *)
(* contract and publisher, and OnChainAbiRegistryClient reading it.  A call *)
(* of the contract is one atomic transaction or simulation; the client's    *)
(* reads are several of them, with publications and lapsing entries in      *)
(* between.  The operators' and offerings' tables are in WorkerRegistry.    *)
(* The spec blobs, immutable and checked against their hash, are left out:  *)
(* fetching one succeeds or the call throws.                                *)
(***************************************************************************)
EXTENDS Integers, Sequences, SequencesExt, FiniteSets, FiniteSetsExt

CONSTANTS
    Releases,        \* the versions there are to publish
    Readers,         \* calls of the client that may overlap
    MaxPageSize,     \* MAX_PAGE_SIZE
    BumpAmount,      \* BUMP_AMOUNT, in ledgers
    TtlThreshold,    \* LIFETIME_THRESHOLD
    CacheTtl,        \* cacheTtlMs of the client, in ledgers
    LastClose,       \* bound: the last ledger
    MaxTouches       \* bound: calls of touch and restorations

VARIABLES
    closes,     \* the current ledger
    specs,      \* version -> published_at_ledger, DataKey::Spec
    index,      \* DataKey::Versions, oldest first
    newest,     \* DataKey::Latest
    liveUntil,  \* until when each entry is live
    reads,      \* the read each call of the client is in
    records,    \* recordsCache
    touches

registryVars == <<closes, specs, index, newest, liveUntil, reads, records, touches>>

None == "none"

(* The keys of the list and of the latest are no version.                    *)
ASSUME RegistryAssumption ==
    /\ MaxPageSize \in Nat \ {0} /\ BumpAmount \in Nat /\ TtlThreshold \in Nat
    /\ CacheTtl \in Nat /\ LastClose \in Nat /\ MaxTouches \in Nat
    /\ {None, "versions", "latest"} \cap Releases = {}

NoRead == [at |-> "idle", cursor |-> 0, names |-> <<>>, left |-> {}, began |-> 0]
NoCache == [there |-> FALSE, names |-> <<>>, stored |-> 0, began |-> 0]

RegistryInit ==
    /\ closes = 0 /\ specs = <<>> /\ index = <<>> /\ newest = None
    /\ liveUntil = <<>> /\ reads = [r \in Readers |-> NoRead] /\ records = NoCache /\ touches = 0

-----------------------------------------------------------------------------
(* The contract.  extend_ttl does nothing while enough life is left.         *)
Extended(until) == IF until - closes < TtlThreshold THEN closes + BumpAmount ELSE until

Live(k) == liveUntil[k] >= closes

IsNew(v) == v \notin DOMAIN specs

(* A transaction with a lapsed entry in its footprint does not run.          *)
Publish(v) ==
    /\ IsNew(v)
    /\ \A k \in {"versions", "latest"} \cap DOMAIN liveUntil : Live(k)
    /\ specs' = [u \in DOMAIN specs \cup {v} |-> IF u = v THEN closes ELSE specs[u]]
    /\ index' = Append(index, v) /\ newest' = v
    /\ liveUntil' = [k \in DOMAIN liveUntil \cup {v, "versions", "latest"} |->
                        IF k \notin DOMAIN liveUntil THEN closes + BumpAmount
                        ELSE IF k \in {"versions", "latest"} THEN Extended(liveUntil[k])
                        ELSE liveUntil[k]]
    /\ UNCHANGED <<closes, reads, records, touches>>

(* list_versions_paged: the page and the cursor of the next one.             *)
MutNextCursor(end) == IF end < Len(index) THEN end + 1 ELSE -1
NextCursor(end) == IF end < Len(index) THEN end ELSE -1

PageEnd(start) == IF start >= Len(index) THEN start
                  ELSE Min({start + MaxPageSize, Len(index)})

Touch(vs) ==
    LET touched == (vs \cup {"versions", "latest"}) \cap DOMAIN liveUntil IN
    /\ touches < MaxTouches /\ Cardinality(vs) <= MaxPageSize
    /\ touched # {} /\ \A k \in touched : Live(k)
    /\ liveUntil' = [k \in DOMAIN liveUntil |->
                        IF k \in touched THEN Extended(liveUntil[k]) ELSE liveUntil[k]]
    /\ touches' = touches + 1
    /\ UNCHANGED <<closes, specs, index, newest, reads, records>>

(* RestoreFootprint brings a lapsed entry back.                              *)
RestoreFootprint(k) ==
    /\ touches < MaxTouches /\ k \in DOMAIN liveUntil /\ ~Live(k)
    /\ liveUntil' = [liveUntil EXCEPT ![k] = closes + BumpAmount]
    /\ touches' = touches + 1
    /\ UNCHANGED <<closes, specs, index, newest, reads, records>>

LedgerClose ==
    /\ closes < LastClose
    /\ closes' = closes + 1
    /\ UNCHANGED <<specs, index, newest, liveUntil, reads, records, touches>>

-----------------------------------------------------------------------------
(* The client.                                                               *)
CacheValid == records.there /\ closes <= records.stored + CacheTtl

(* getRecordsInternal misses the cache and asks for the first page.          *)
StartRead(r) ==
    /\ reads[r] = NoRead /\ ~CacheValid
    /\ reads' = [reads EXCEPT ![r] = [NoRead EXCEPT !.at = "listing", !.began = closes]]
    /\ records' = NoCache
    /\ UNCHANGED <<closes, specs, index, newest, liveUntil, touches>>

(* simulateListVersions, one page; the simulation of a call on a lapsed      *)
(* entry ends the read with RegistryEntryArchivedError, see ReadThrows.      *)
ListPage(r) ==
    LET read == reads[r]
        end == PageEnd(read.cursor)
        names == read.names \o SubSeq(index, read.cursor + 1, end)
        next == NextCursor(end)
    IN
    /\ read.at = "listing"
    /\ "versions" \in DOMAIN liveUntil => Live("versions")
    /\ reads' = [reads EXCEPT ![r] =
                    IF next # -1 THEN [read EXCEPT !.names = names, !.cursor = next]
                    ELSE [read EXCEPT !.names = names, !.at = "getting", !.left = Range(names)]]
    /\ UNCHANGED <<closes, specs, index, newest, liveUntil, records, touches>>

(* One simulateGetVersion of the Promise.all answers.                        *)
GetVersion(r, v) ==
    /\ reads[r].at = "getting" /\ v \in reads[r].left /\ Live(v)
    /\ reads' = [reads EXCEPT ![r].left = @ \ {v}]
    /\ UNCHANGED <<closes, specs, index, newest, liveUntil, records, touches>>

(* The records are all there and are cached, over what an overlapping call   *)
(* cached meanwhile.                                                         *)
StoreRecords(r) ==
    /\ reads[r].at = "getting" /\ reads[r].left = {}
    /\ records' = [there |-> TRUE, names |-> reads[r].names, stored |-> closes,
                  began |-> reads[r].began]
    /\ reads' = [reads EXCEPT ![r] = NoRead]
    /\ UNCHANGED <<closes, specs, index, newest, liveUntil, touches>>

(* The RPC cannot be reached after the retries, or a lapsed entry was read.  *)
ReadThrows(r) ==
    /\ reads[r] # NoRead
    /\ reads' = [reads EXCEPT ![r] = NoRead]
    /\ UNCHANGED <<closes, specs, index, newest, liveUntil, records, touches>>

(* getSpec answers the last record.                                          *)
GetSpec == IF records.names = <<>> THEN None ELSE Last(records.names)

(* getSpecAt: the first of the records with the highest ledger up to l.      *)
UpTo(l) == {n \in DOMAIN records.names : specs[records.names[n]] <= l}

Candidates(l) ==
    {n \in UpTo(l) : \A m \in UpTo(l) : specs[records.names[m]] <= specs[records.names[n]]}

GetSpecAt(l) == IF UpTo(l) = {} THEN None ELSE records.names[Min(Candidates(l))]

(* clearCache                                                                *)
ClearCache ==
    /\ records.there
    /\ records' = NoCache
    /\ UNCHANGED <<closes, specs, index, newest, liveUntil, reads, touches>>

RegistryNext ==
    \/ \E v \in Releases : Publish(v) \/ \E r \in Readers : GetVersion(r, v)
    \/ \E r \in Readers : StartRead(r) \/ ListPage(r) \/ StoreRecords(r) \/ ReadThrows(r)
    \/ \E vs \in SUBSET Releases : Touch(vs)
    \/ \E k \in Releases \cup {"versions", "latest"} : RestoreFootprint(k)
    \/ LedgerClose \/ ClearCache

RegistrySpec == RegistryInit /\ [][RegistryNext]_registryVars

-----------------------------------------------------------------------------
(* The three kinds of entries agree whatever is published, touched or lapses: *)
(* the list holds every published version once, in the order of their        *)
(* ledgers, and the latest one is its last.                                  *)
IndexAgrees ==
    /\ IsInjective(index) /\ Range(index) = DOMAIN specs
    /\ \A i, j \in DOMAIN index : i <= j => specs[index[i]] <= specs[index[j]]
    /\ newest = IF index = <<>> THEN None ELSE Last(index)

(* The versions published before ledger l.                                   *)
PublishedBefore(l) == {v \in DOMAIN specs : specs[v] < l}

(* What a paged read comes to while versions are published is the list of    *)
(* some moment of the read: none is skipped, repeated or out of order, and   *)
(* none that was there when the read began is missing.                       *)
ReadsAreComplete ==
    records.there => /\ IsPrefix(records.names, index)
                     /\ PublishedBefore(records.began) \subseteq Range(records.names)

(* getSpec and getSpecAt may be behind the registry, through the cache, but  *)
(* never by more than the cache's time to live and the time the read took,   *)
(* not even when an older read is stored over a newer one; a published       *)
(* contract is not reported unknown for longer.                              *)
StaleAtMostTtl ==
    CacheValid =>
        \A v \in PublishedBefore(closes - CacheTtl - (records.stored - records.began)) :
            /\ v \in Range(records.names)
            /\ GetSpec # None /\ specs[v] <= specs[GetSpec]

(* getSpecAt answers a version of the highest publication ledger up to the   *)
(* one asked for, and None only if there is none among the known.            *)
InForceThen ==
    CacheValid => \A l \in 0 .. closes :
        LET known == {v \in Range(records.names) : specs[v] <= l} IN
        IF known = {} THEN GetSpecAt(l) = None
        ELSE /\ GetSpecAt(l) \in known
             /\ \A v \in known : specs[v] <= specs[GetSpecAt(l)]

(* What a client reads of the registry, page by page and through its cache,  *)
(* is what the registry held, up to the cache's age.                         *)
RegistryReadsSound == IndexAgrees /\ ReadsAreComplete /\ StaleAtMostTtl /\ InForceThen

(* A claim the code does not keep: getSpecAt resolves "the most recently     *)
(* published version whose `published_at_ledger` is `<= ledger`".  Of two    *)
(* versions published in one ledger it answers the older one.                *)
SpecAtIsMostRecent ==
    CacheValid => \A l \in 0 .. closes : \A i, j \in DOMAIN records.names :
        records.names[i] = GetSpecAt(l) /\ specs[records.names[j]] <= l => j <= i
=============================================================================
