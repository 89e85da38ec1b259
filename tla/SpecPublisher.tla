----------------------------- MODULE SpecPublisher -----------------------------
(***************************************************************************)
(* AutoPublishIndexer (orbital-indexer): the specs of contracts seen in the *)
(* event stream are discovered and published by OnChainRegistryPublisher.   *)
(* Several indexer processes may run with one signing key, and so share the *)
(* sequence number of one account.  A transaction may be included after the *)
(* publisher has stopped waiting for it.                                    *)
(***************************************************************************)
EXTENDS Integers, Sequences, FiniteSets

CONSTANTS
    Indexers,   \* the processes
    NewContracts, \* contracts seen in events
    MaxSent     \* bound: transactions sent

VARIABLES
    work,       \* inFlight: the discovery of a contract by a process
    backoff,    \* undiscoverableUntil, not over yet
    absent,     \* answers `null` in the cache of a process's registry client
    onChain,    \* the contracts with a spec in the registry
    account,    \* the sequence number of the publisher's account
    sent,       \* the transactions sent
    dryRun,     \* the processes whose publisher is configured to rehearse
    promised,   \* history: ensureDiscovered resolved with a spec
    refused     \* history: ... on a contract error other than AlreadyPublished

publisherVars ==
    <<work, backoff, absent, onChain, account, sent, dryRun, promised, refused>>

NoWork == [at |-> "idle", seq |-> 0, tx |-> 0, again |-> FALSE]

PublisherInit ==
    /\ work = [w \in Indexers \X NewContracts |-> NoWork]
    /\ backoff = {} /\ absent = {} /\ onChain = {} /\ account = 0
    /\ sent = <<>> /\ dryRun \in SUBSET Indexers /\ promised = {} /\ refused = {}

Becomes(w, to) == work' = [work EXCEPT ![w] = to]

-----------------------------------------------------------------------------
(* handleEvent, ensureDiscovered: nothing while backing off, and a discovery *)
(* in flight is shared.                                                      *)
EnsureDiscovered(w) ==
    /\ w \notin backoff /\ work[w] = NoWork
    /\ Becomes(w, [NoWork EXCEPT !.at = "asking"])
    /\ UNCHANGED <<backoff, absent, onChain, account, sent, promised, refused>>

(* discoverAndPublish: registryClient.getSpec, through its cache.            *)
SpecKnown(w) ==
    /\ work[w].at = "asking" /\ w[2] \in onChain /\ w \notin absent
    /\ Becomes(w, NoWork) /\ promised' = promised \cup {w}
    /\ UNCHANGED <<backoff, absent, onChain, account, sent, refused>>

SpecUnknown(w) ==
    /\ work[w].at = "asking" /\ (w[2] \notin onChain \/ w \in absent)
    /\ Becomes(w, [work[w] EXCEPT !.at = "discovering"])
    /\ absent' = absent \cup {w}
    /\ UNCHANGED <<backoff, onChain, account, sent, promised, refused>>

CacheExpires(w) ==
    /\ w \in absent
    /\ absent' = absent \ {w}
    /\ UNCHANGED <<work, backoff, onChain, account, sent, promised, refused>>

NoEmbeddedSpec(w) ==
    /\ work[w].at = "discovering"
    /\ Becomes(w, NoWork) /\ backoff' = backoff \cup {w}
    /\ UNCHANGED <<absent, onChain, account, sent, promised, refused>>

BackoffOver(w) ==
    /\ w \in backoff
    /\ backoff' = backoff \ {w}
    /\ UNCHANGED <<work, absent, onChain, account, sent, promised, refused>>

(* The spec is there and its pointer stored: publish().                      *)
Discovered(w) ==
    /\ work[w].at = "discovering"
    /\ Becomes(w, [work[w] EXCEPT !.at = "building"])
    /\ UNCHANGED <<backoff, absent, onChain, account, sent, promised, refused>>

(* getAccount: the transaction is built with the next sequence number.       *)
LoadAccount(w) ==
    /\ work[w].at = "building"
    /\ Becomes(w, [work[w] EXCEPT !.at = "preparing", !.seq = account + 1])
    /\ UNCHANGED <<backoff, absent, onChain, account, sent, promised, refused>>

(* Which errors of the first publish() count as published: the registry's    *)
(* AlreadyPublished, and whatever else says contract_error.                  *)
CountsAsPublished(why) == why \in {"AlreadyPublished", "contract_error"}

(* publish() throws: success-with-existing, one retry, or an error.          *)
PublishThrows(w, why) ==
    \/ /\ ~work[w].again /\ CountsAsPublished(why)
       /\ Becomes(w, NoWork) /\ promised' = promised \cup {w}
       /\ refused' = IF why = "AlreadyPublished" THEN refused ELSE refused \cup {w}
    \/ /\ ~work[w].again /\ ~CountsAsPublished(why)
       /\ Becomes(w, [work[w] EXCEPT !.at = "building", !.again = TRUE])
       /\ UNCHANGED <<promised, refused>>
    \/ work[w].again /\ Becomes(w, NoWork) /\ UNCHANGED <<promised, refused>>

(* prepareTransaction simulates against the registry, which may refuse the   *)
(* spec; a dry run returns here as if it had published.                      *)
Prepare(w) ==
    /\ work[w].at = "preparing"
    /\ \/ w[2] \in onChain /\ PublishThrows(w, "AlreadyPublished")
       \/ PublishThrows(w, "contract_error")
       \/ /\ w[2] \notin onChain /\ w[1] \in dryRun
          /\ Becomes(w, NoWork) /\ promised' = promised \cup {w} /\ UNCHANGED refused
       \/ /\ w[2] \notin onChain /\ w[1] \notin dryRun
          /\ Becomes(w, [work[w] EXCEPT !.at = "sending"]) /\ UNCHANGED <<promised, refused>>
    /\ UNCHANGED <<backoff, absent, onChain, account, sent>>

(* The sequence number a transaction carries.                                *)
MutSequenceOf(w) == account + 1
SequenceOf(w) == work[w].seq

(* sendTransaction refuses a used sequence number.                           *)
SendTransaction(w) ==
    /\ work[w].at = "sending" /\ Len(sent) < MaxSent
    /\ \/ /\ SequenceOf(w) # account + 1
          /\ PublishThrows(w, "tx_bad_seq") /\ UNCHANGED sent
       \/ /\ SequenceOf(w) = account + 1
          /\ sent' = Append(sent, [for |-> w[2], seq |-> SequenceOf(w), status |-> "NOT_FOUND"])
          /\ Becomes(w, [work[w] EXCEPT !.at = "polling", !.tx = Len(sent) + 1])
          /\ UNCHANGED <<promised, refused>>
    /\ UNCHANGED <<backoff, absent, onChain, account>>

(* The network includes a transaction: the registry takes a contract's spec  *)
(* once.                                                                     *)
Included(i) ==
    /\ sent[i].status = "NOT_FOUND" /\ sent[i].seq = account + 1
    /\ account' = account + 1
    /\ sent' = [sent EXCEPT ![i].status = IF sent[i].for \in onChain THEN "FAILED" ELSE "SUCCESS"]
    /\ onChain' = onChain \cup {sent[i].for}
    /\ UNCHANGED <<work, backoff, absent, promised, refused>>

(* The key publishes another contract's spec.                                *)
KeyUsedElsewhere ==
    /\ account < MaxSent
    /\ account' = account + 1
    /\ UNCHANGED <<work, backoff, absent, onChain, sent, promised, refused>>

(* getTransaction finds it.                                                  *)
Confirmed(w) ==
    /\ work[w].at = "polling" /\ sent[work[w].tx].status # "NOT_FOUND"
    /\ Becomes(w, NoWork)
    /\ promised' = IF sent[work[w].tx].status = "SUCCESS" THEN promised \cup {w} ELSE promised
    /\ UNCHANGED <<backoff, absent, onChain, account, sent, refused>>

(* A request fails, or a transaction is not confirmed in time.               *)
Throws(w) ==
    /\ work[w] # NoWork
    /\ Becomes(w, NoWork)
    /\ UNCHANGED <<backoff, absent, onChain, account, sent, promised, refused>>

PublisherNext ==
    /\ \/ \E w \in Indexers \X NewContracts :
             \/ EnsureDiscovered(w) \/ SpecKnown(w) \/ SpecUnknown(w) \/ CacheExpires(w)
             \/ NoEmbeddedSpec(w) \/ BackoffOver(w) \/ Discovered(w) \/ LoadAccount(w)
             \/ Prepare(w) \/ SendTransaction(w) \/ Confirmed(w) \/ Throws(w)
       \/ \E i \in DOMAIN sent : Included(i)
       \/ KeyUsedElsewhere
    /\ UNCHANGED dryRun

PublisherSpec == PublisherInit /\ [][PublisherNext]_publisherVars

-----------------------------------------------------------------------------
(* Whoever ensureDiscovered hands a spec to can find it in the registry,     *)
(* whichever process published it and whatever collided on the way, with the *)
(* two exceptions the code makes: a contract error other than AlreadyPublished*)
(* counts as published (AutoPublishIndexer.ts:175), and a dry run returns    *)
(* without sending (OnChainRegistryPublisher.ts:335).                        *)
PromisedIsPublished ==
    \A w \in promised : w[2] \in onChain \/ w \in refused \/ w[1] \in dryRun

(* No fee is paid in vain: however many processes publish with the key, and  *)
(* however long transactions stay pending after the publisher gave up, none  *)
(* is included and fails.  (The account is read before the simulation, so a  *)
(* transaction that could still be included was simulated against a registry *)
(* that had every earlier one.)                                              *)
NoFeeInVain == \A i \in DOMAIN sent : sent[i].status # "FAILED"

(* Several publishers with one key keep what they promise and pay for        *)
(* nothing twice.                                                            *)
PublishingSound == PromisedIsPublished /\ NoFeeInVain

(* A claim the code does not keep, that ensureDiscovered "ensures `contractId`*)
(* has a published spec": both exceptions above hand out a spec nobody can   *)
(* find.                                                                     *)
EveryPromiseIsPublished == \A w \in promised : w[2] \in onChain

(* A claim the code does not keep: "duplicate events for the same unseen     *)
(* contract don't trigger duplicate publish attempts".  An attempt that was  *)
(* given up, or that the cache of the client does not know of, is repeated   *)
(* with the next event.                                                      *)
NoDuplicateAttempts ==
    \A i, j \in DOMAIN sent : sent[i].for = sent[j].for => i = j
=============================================================================
