---------------------------- MODULE SpecResolution ----------------------------
(***************************************************************************)
(* getSpec of the default registry client (packages/abi-registry/src): a    *)
(* ChainedAbiRegistryClient that asks HostedAbiRegistryClient first, which  *)
(* compares some answers with the chain, and then OnChainAbiRegistryClient. *)
(* Each of the two has a TtlLruCache.  The hosted mirror is external and    *)
(* lags behind the chain.                                                   *)
(***************************************************************************)
EXTENDS Integers, Sequences, SequencesExt, FiniteSets, FiniteSetsExt, Functions

CONSTANTS
    SpecIds,      \* contractIds
    Askers,       \* calls of getSpec that may overlap
    SpecTtl,      \* cacheTtlMs, of both clients
    SpecCapacity, \* maxCacheSize, of both clients
    MaxPublished, \* BOUND on the versions of all specs
    LastInstant   \* BOUND on the clock

ASSUME ResolutionAssumption ==
    /\ SpecTtl \in Nat /\ SpecCapacity \in Nat \ {0} /\ MaxPublished \in Nat
    /\ LastInstant \in Nat

VARIABLES
    instant,
    held,     \* by instant, what chain and mirror held at its end; the last is now
    lru,      \* by source, the entries of its client's cache, least recently used
              \* first; history: how long the fetch took
    asks      \* the call each asker is in: the hosted spec it got and since when it
              \* asked; what the on-chain client has for it, since when that was
              \* asked, and for a cached answer how long the read of it took

resolutionVars == <<instant, held, lru, asks>>

Sources == {"chain", "mirror"}

NoAsk == [at |-> "idle", id |-> "none", got |-> 0, began |-> 0,
          seen |-> 0, asked |-> 0, took |-> 0]
NoSpecs == [c \in SpecIds |-> 0]

ResolutionInit ==
    /\ instant = 0 /\ held = <<[chain |-> NoSpecs, mirror |-> NoSpecs]>>
    /\ lru = [w \in Sources |-> <<>>] /\ asks = [a \in Askers |-> NoAsk]

Now == held[instant + 1]

-----------------------------------------------------------------------------
(* LruCache: get moves an entry to the end, set adds it there and drops the  *)
(* first one when there are too many.  A Map deletes the one entry of a key. *)
PlacesOf(w, id) == {n \in DOMAIN lru[w] : lru[w][n].id = id}
Without(w, id) ==
    IF PlacesOf(w, id) = {} THEN lru[w]
    ELSE RemoveAt(lru[w], CHOOSE n \in PlacesOf(w, id) : TRUE)
AfterSet(w, e) ==
    LET set == Append(Without(w, e.id), e)
    IN  IF Len(set) > SpecCapacity THEN Tail(set) ELSE set

(* TtlLruCache.get                                                           *)
MutValid(e) == TRUE
Valid(e) == instant <= e.expires

Hits(w, id) == {n \in PlacesOf(w, id) : Valid(lru[w][n])}
Touched(w, n) == Append(Without(w, lru[w][n].id), lru[w][n])

(* TtlLruCache.set: the whole time to live, from the end of the fetch.       *)
Fetched(id, version, since) ==
    [id |-> id, version |-> version, expires |-> instant + SpecTtl, took |-> instant - since]

(* The answer is what the hosted client's cache holds.                       *)
CacheHit(a, id) ==
    /\ asks[a] = NoAsk
    /\ \E n \in Hits("mirror", id) : lru' = [lru EXCEPT !["mirror"] = Touched("mirror", n)]
    /\ UNCHANGED <<instant, held, asks>>

(* An expired entry is deleted; the hosted registry is asked.                *)
CacheMiss(a, id) ==
    /\ asks[a] = NoAsk /\ Hits("mirror", id) = {}
    /\ lru' = [lru EXCEPT !["mirror"] = Without("mirror", id)]
    /\ asks' = [asks EXCEPT ![a] = [NoAsk EXCEPT !.at = "hosted", !.id = id, !.began = instant]]
    /\ UNCHANGED <<instant, held>>

(* The next client of the chain is asked, when the hosted one has null.      *)
Fallback(ask) == [NoAsk EXCEPT !.at = "chain", !.id = ask.id]

(* fetchSpec: a 404, an error, a time-out or a bad body is null, and null is *)
(* not cached.                                                               *)
HostedSaysNull(a) ==
    /\ asks[a].at = "hosted"
    /\ asks' = [asks EXCEPT ![a] = Fallback(@)]
    /\ UNCHANGED <<instant, held, lru>>

HostedReads(a) ==
    /\ asks[a].at = "hosted" /\ Now.mirror[asks[a].id] # 0
    /\ \E at \in {"sampling", "storing"} :
          asks' = [asks EXCEPT ![a] = [@ EXCEPT !.at = at, !.got = Now.mirror[asks[a].id]]]
    /\ UNCHANGED <<instant, held, lru>>

HostedStores(a) ==
    LET ask == asks[a] IN
    /\ ask.at = "storing"
    /\ lru' = [lru EXCEPT !["mirror"] = AfterSet("mirror", Fetched(ask.id, ask.got, ask.began))]
    /\ asks' = [asks EXCEPT ![a] = NoAsk]
    /\ UNCHANGED <<instant, held>>

-----------------------------------------------------------------------------
(* OnChainAbiRegistryClient.getSpec, for the sampling or the fallback.  The  *)
(* cache of records also holds the empty list of a spec not published.       *)
ChainHit(a) ==
    LET ask == asks[a] IN
    /\ ask.at \in {"sampling", "chain"}
    /\ \E n \in Hits("chain", ask.id) :
          /\ lru' = [lru EXCEPT !["chain"] = Touched("chain", n)]
          /\ asks' = [asks EXCEPT ![a] = [@ EXCEPT !.at = "resolving", !.asked = instant,
                          !.seen = lru["chain"][n].version, !.took = lru["chain"][n].took]]
    /\ UNCHANGED <<instant, held>>

ChainMiss(a) ==
    LET ask == asks[a] IN
    /\ ask.at \in {"sampling", "chain"} /\ Hits("chain", ask.id) = {}
    /\ lru' = [lru EXCEPT !["chain"] = Without("chain", ask.id)]
    /\ asks' = [asks EXCEPT ![a] = [@ EXCEPT !.at = "listing", !.asked = instant]]
    /\ UNCHANGED <<instant, held>>

(* The last page of the list of versions; their records are read after it.   *)
ChainLists(a) ==
    /\ asks[a].at = "listing"
    /\ asks' = [asks EXCEPT ![a] = [@ EXCEPT !.at = "reading", !.seen = Now.chain[asks[a].id]]]
    /\ UNCHANGED <<instant, held, lru>>

(* The records are cached as they come, also over those of a later read.     *)
ChainStores(a) ==
    LET ask == asks[a] IN
    /\ ask.at = "reading"
    /\ lru' = [lru EXCEPT !["chain"] = AfterSet("chain", Fetched(ask.id, ask.seen, ask.asked))]
    /\ asks' = [asks EXCEPT ![a] = [@ EXCEPT !.at = "resolving"]]
    /\ UNCHANGED <<instant, held>>

(* verifySampledHash: a spec that the chain has otherwise is dropped.        *)
Agrees(hosted, chain) == chain = 0 \/ chain = hosted

SampleCompares(a) ==
    /\ asks[a].at = "resolving" /\ asks[a].got # 0
    /\ asks' = [asks EXCEPT ![a] = IF Agrees(@.got, @.seen) THEN [@ EXCEPT !.at = "storing"]
                                   ELSE Fallback(@)]
    /\ UNCHANGED <<instant, held, lru>>

(* The newest record's spec, or null when there is none.                     *)
ChainAnswers(a) ==
    /\ asks[a].at = "resolving" /\ asks[a].got = 0
    /\ asks' = [asks EXCEPT ![a] = NoAsk]
    /\ UNCHANGED <<instant, held, lru>>

(* The network, an archived entry or a blob that does not match: a sample is *)
(* skipped, and the fallback throws.                                         *)
ChainThrows(a) ==
    /\ asks[a].at \in {"listing", "reading", "resolving"}
    /\ asks[a].at = "resolving" => asks[a].seen # 0
    /\ asks' = [asks EXCEPT ![a] = IF @.got # 0 THEN [@ EXCEPT !.at = "storing"] ELSE NoAsk]
    /\ UNCHANGED <<instant, held, lru>>

-----------------------------------------------------------------------------
VersionsPublished == FoldFunction(+, 0, Now.chain)

Published(id) ==
    /\ VersionsPublished < MaxPublished
    /\ held' = [held EXCEPT ![instant + 1].chain[id] = @ + 1]
    /\ UNCHANGED <<instant, lru, asks>>

MirrorSyncs(id) ==
    /\ Now.mirror[id] # Now.chain[id]
    /\ held' = [held EXCEPT ![instant + 1].mirror[id] = Now.chain[id]]
    /\ UNCHANGED <<instant, lru, asks>>

InstantPasses ==
    /\ instant < LastInstant
    /\ instant' = instant + 1 /\ held' = Append(held, Now)
    /\ UNCHANGED <<lru, asks>>

ResolutionNext ==
    \/ \E a \in Askers : \/ HostedSaysNull(a) \/ HostedReads(a) \/ SampleCompares(a)
                         \/ HostedStores(a) \/ ChainHit(a) \/ ChainMiss(a) \/ ChainLists(a)
                         \/ ChainStores(a) \/ ChainAnswers(a) \/ ChainThrows(a)
                         \/ \E id \in SpecIds : CacheHit(a, id) \/ CacheMiss(a, id)
    \/ \E id \in SpecIds : Published(id) \/ MirrorSyncs(id)
    \/ InstantPasses

ResolutionSpec == ResolutionInit /\ [][ResolutionNext]_resolutionVars

-----------------------------------------------------------------------------
(* What a source held at the end of the instant before t.                    *)
HeldBefore(w, t, id) == IF t <= 0 THEN 0 ELSE held[t][w][id]

(* Each cache holds each contract once and no more than its capacity.        *)
CacheWithinBounds ==
    \A w \in Sources :
        /\ Len(lru[w]) <= SpecCapacity
        /\ \A m, n \in DOMAIN lru[w] : lru[w][m].id = lru[w][n].id => m = n

(* A hit is not older than its source was one time to live and one fetch     *)
(* ago, also when a slow fetch is stored over a newer one.                   *)
HitsAreFresh ==
    \A w \in Sources : \A n \in DOMAIN lru[w] :
        LET e == lru[w][n]
        IN  Valid(e) => e.version >= HeldBefore(w, instant - SpecTtl - e.took, e.id)

(* A spec the chain had one time to live and one read before its client was  *)
(* asked is found, and no older version of it handed out or compared: not    *)
(* from the cache, not by a slow read that ends over a newer one's records.  *)
(* No hit of the hosted client hides the chain.                              *)
KnownIsFound ==
    /\ \A n \in DOMAIN lru["mirror"] : lru["mirror"][n].version # 0
    /\ \A a \in Askers :
          asks[a].at = "resolving" =>
              asks[a].seen >= HeldBefore("chain", asks[a].asked - SpecTtl - asks[a].took, asks[a].id)

(* "The hosted service must never silently override a chain-attested spec"   *)
(* (HostedAbiRegistryClient.ts:68).  An answer that is not sampled is not    *)
(* compared: the mirror's older spec is handed out.                          *)
AttestedIsAnswered ==
    \A n \in DOMAIN lru["mirror"] :
        LET e == lru["mirror"][n]
        IN  Valid(e) => e.version >= HeldBefore("chain", instant - SpecTtl - e.took, e.id)

(* One time to live, and no more: false, since the records a slow read got   *)
(* are kept for the whole time to live from its end                          *)
(* (OnChainAbiRegistryClient.ts:237).                                        *)
HitsWithinTtl ==
    \A w \in Sources : \A n \in DOMAIN lru[w] :
        LET e == lru[w][n]
        IN  Valid(e) => e.version >= HeldBefore(w, instant - SpecTtl, e.id)

(* What the default client answers is in its bounds, fresh and not hidden.   *)
SpecsResolved == CacheWithinBounds /\ HitsAreFresh /\ KnownIsFound
=============================================================================
