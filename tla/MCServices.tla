------------------------------ MODULE MCServices ------------------------------
(***************************************************************************)
(* Small instances of the parts around the engine and the deliveries: the  *)
(* browser hooks, the webhook receiver, the registry and the workers.       *)
(* A behaviour is one of them, whichever `part` says; they share no state.  *)
(***************************************************************************)
EXTENDS ConnectionPool, SuspenseResource, DedupReceiver, FireClaims,
        FileRetryQueue, WorkerState, BackstopSubscription, SubscriptionService, Sponsorship,
        Payroll, SpecRegistry, SpecPublisher, Backfill, Verification, VerdictStore,
        CostMeter, StreamSlots, EventHook, ContractState, VerificationJob, WorkerRegistry,
        SpecResolution, TLC

VARIABLE part

SomePayrolls ==
    {<<>>, [a |-> 0], [b |-> 1], [a |-> 2, b |-> 1]}

(* By ledger, the subjects with an event.                                    *)
Dense == <<{"a"}, {"a", "b"}, {"b"}, {"b"}, {"a", "b"}, {"b"}>>
Sparse == <<{}, {"a"}, {"a"}, {}, {}, {"a"}>>
SomeExports == {Dense, Sparse}

servicesVars == <<part, poolVars, suspenseVars, dedupVars, fireVars, fileVars,
                  stateVars, backstopVars, serviceVars, sponsorVars,
                  payrollVars, registryVars, publisherVars, backfillVars, verificationVars,
                  storeVars, meterVars, slotVars, hookVars, readerVars, jobVars,
                  workerRegistryVars, resolutionVars>>

ServicesInit ==
    /\ PoolInit /\ SuspenseInit /\ DedupInit /\ FireInit /\ FileInit
    /\ StateInit /\ BackstopInit /\ ServiceInit /\ SponsorInit
    /\ PayrollInit /\ RegistryInit /\ PublisherInit /\ BackfillInit /\ VerificationInit
    /\ StoreInit /\ MeterInit /\ SlotInit /\ HookInit /\ ReaderInit /\ JobInit
    /\ WorkerRegistryInit /\ ResolutionInit
    /\ part \in {"pool", "suspense", "dedup", "fire", "retry",
                 "state", "backstop", "service", "sponsor", "payroll", "registry", "backfill",
                 "verification", "publisher", "verdicts", "meter", "slots",
                 "hook", "reader", "job", "workers", "eviction", "reads", "fetches"}
    /\ part # "backfill" => export = Sparse
    /\ part # "hook" => auth.prop = "t1"
    /\ dryRun \subseteq IF part = "publisher" THEN {"i1"} ELSE {}
    /\ part # "verification" => horizon = 0

(* Every part but the one that runs stands still.                            *)
OthersStill ==
    /\ IF part = "pool" THEN TRUE ELSE UNCHANGED poolVars
    /\ IF part = "suspense" THEN TRUE ELSE UNCHANGED suspenseVars
    /\ IF part = "dedup" THEN TRUE ELSE UNCHANGED dedupVars
    /\ IF part = "fire" THEN TRUE ELSE UNCHANGED fireVars
    /\ IF part = "retry" THEN TRUE ELSE UNCHANGED fileVars
    /\ IF part = "state" THEN TRUE ELSE UNCHANGED stateVars
    /\ IF part = "backstop" THEN TRUE ELSE UNCHANGED backstopVars
    /\ IF part = "service" THEN TRUE ELSE UNCHANGED serviceVars
    /\ IF part = "sponsor" THEN TRUE ELSE UNCHANGED sponsorVars
    /\ IF part = "payroll" THEN TRUE ELSE UNCHANGED payrollVars
    /\ IF part = "registry" THEN TRUE ELSE UNCHANGED registryVars
    /\ IF part = "backfill" THEN TRUE ELSE UNCHANGED backfillVars
    /\ IF part = "verification" THEN TRUE ELSE UNCHANGED verificationVars
    /\ IF part = "publisher" THEN TRUE ELSE UNCHANGED publisherVars
    /\ IF part = "verdicts" THEN TRUE ELSE UNCHANGED storeVars
    /\ IF part = "meter" THEN TRUE ELSE UNCHANGED meterVars
    /\ IF part = "slots" THEN TRUE ELSE UNCHANGED slotVars
    /\ IF part = "hook" THEN TRUE ELSE UNCHANGED hookVars
    /\ IF part = "reader" THEN TRUE ELSE UNCHANGED readerVars
    /\ IF part = "job" THEN TRUE ELSE UNCHANGED jobVars
    /\ IF part = "workers" THEN TRUE ELSE UNCHANGED workerRegistryVars
    /\ IF part \in {"eviction", "reads", "fetches"} THEN TRUE ELSE UNCHANGED resolutionVars

(* Two specs contend for the caches without overlapping calls; or two calls  *)
(* overlap for one spec, which the mirror does not have, or has and answers. *)
ResolutionBounded ==
    \/ /\ part = "eviction" /\ asks'["a2"] = NoAsk
       /\ instant' < LastInstant /\ (instant' = 0 \/ held'[Len(held')].chain["c2"] = 1)
    \/ /\ \A a \in Askers : asks'[a].id # "c2" /\ held'[Len(held')].chain["c2"] = 0
       /\ asks["a2"] = NoAsk /\ asks'["a2"] # NoAsk => asks["a1"] # NoAsk
       /\ held'[Len(held')].chain["c1"] < 2
       /\ \/ part = "reads" /\ held'[Len(held')].mirror["c1"] = 0
          \/ part = "fetches" /\ \A a \in Askers : asks'[a].at # "chain"

(* The two promises without a publication, one at a time.                    *)
PublisherBounded ==
    /\ Cardinality(refused') <= IF dryRun = {} THEN 1 ELSE 0
    /\ (dryRun # {} \/ refused' # {}) => account' <= 1

(* A process dies while one fire is left, two windows of coverage show every *)
(* gap, and without a horizon every deadline comes a ledger earlier.         *)
ServicesNext ==
    /\ UNCHANGED part /\ OthersStill
    /\ \/ part = "pool" /\ PoolNext
       \/ part = "suspense" /\ SuspenseNext
       \/ part = "dedup" /\ DedupNext
       \/ part = "fire" /\ FireNext
       \/ part = "retry" /\ FileNext
       \/ part = "state" /\ StateNext /\ (dies' # dies => Cardinality(todo) = 1)
       \/ part = "backstop" /\ BackstopNext /\ Cardinality(windows') <= 2
       \/ part = "service" /\ ServiceNext
       \/ part = "sponsor" /\ SponsorNext
       \/ part = "payroll" /\ PayrollNext
       \/ part = "registry" /\ RegistryNext
       \/ part = "backfill" /\ BackfillNext
       \/ part = "verification" /\ VerificationNext /\ tip' < LastTip + horizon
       \/ part = "publisher" /\ PublisherNext /\ PublisherBounded
       \/ part = "verdicts" /\ StoreNext
       \/ part = "meter" /\ MeterNext
       \/ part = "slots" /\ SlotNext
       \/ part = "hook" /\ HookNext
       \/ part = "reader" /\ ReaderNext
       \/ part = "job" /\ JobNext
       \/ part = "workers" /\ WorkerRegistryNext
       \/ part \in {"eviction", "reads", "fetches"} /\ ResolutionNext /\ ResolutionBounded

ServicesSpec == ServicesInit /\ [][ServicesNext]_servicesVars

(* The browser hooks hold no more than they need and get what they need: the *)
(* mounted ones of a key share a connection that comes back, and a suspense  *)
(* resource nobody uses is released.  An event hook follows its stream, and  *)
(* a state hook shows the entry its last fetch read.                         *)
HooksServed == PoolKeepsConnected /\ ReleasedWhenUnused /\ HookFollowsStream /\ EntryIsCurrent

(* What the registry holds is found: a spec, its versions and the latest, on *)
(* the contract and through the caches of its clients, and the versions of   *)
(* the workers while others are registered.                                  *)
RegistryFinds == RegistryReadsSound /\ WorkersAreListed /\ SpecsResolved

(* The registry's jobs do what they say: an indexer publishes what it        *)
(* promised and pays for nothing twice, and the verification leaves no spec  *)
(* out and no change of verdict untold.                                      *)
RegistryKept == PublishingSound /\ JobTellsChanges
=============================================================================
