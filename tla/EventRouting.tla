----------------------------- MODULE EventRouting -----------------------------
(***************************************************************************)
(* What EventEngine makes of a record and whom it tells                     *)
(* (packages/pulse-core/src/EventEngine.ts: normalize, route,               *)
(* handleSorobanEvent, dispatchContractEvent).                              *)
(*                                                                         *)
(* A Horizon operation is normalised and routed in one go to the watchers   *)
(* of the accounts it names.  A contract.emitted event waits for the ABI    *)
(* registry (external), while later events, pauses and unsubscriptions go   *)
(* on.  The queue between the two is in EventEngine.tla, transport choice   *)
(* and de-duplication in DualTransport.tla.                                 *)
(***************************************************************************)
EXTENDS Integers, Sequences, FiniteSets, SequencesExt

CONSTANTS
    Accounts,      \* addresses
    Contracts,     \* contract ids
    ContractSubs,  \* the contract subscriptions there may be: id -> its filters
    MaxSoroban,    \* BOUND on contract events
    MaxUnsubs      \* BOUND on unsubscriptions

VARIABLES
    watchedAccounts,  \* registry: watched addresses
    rejecting,        \* addresses whose filter rejects, or throws
    contractRegistry, \* contract subscriptions in force
    pausedSources,    \* a subset of {"horizon", "soroban"}
    lines,            \* accounts that have the trustline (network)
    last,             \* history: the last operation and who was told what
    arrived,          \* contract events so far, in order
    lookups,          \* numbers of the events held for the registry's answer
    given,            \* history: the events each subscription was given, in order
    owed,             \* history: the subscriptions each event must still reach
    late,             \* history: events handed out while their source was paused
    unsubs

routingVars == <<watchedAccounts, rejecting, contractRegistry, pausedSources, lines, last, arrived,
                 lookups, given, owed, late, unsubs>>
contractVars == <<contractRegistry, arrived, lookups, given, owed, late>>

Anybody == "any"
NoAccount == "none"

ASSUME RoutingAssumption == MaxSoroban \in Nat /\ MaxUnsubs \in Nat /\ NoAccount \notin Accounts

(* The last operation, before there is one.                                  *)
NoOp == [type |-> NoAccount, what |-> "-", one |-> NoAccount, two |-> NoAccount, claimants |-> <<>>,
         complete |-> FALSE]

-----------------------------------------------------------------------------
(* The operations Horizon may report: `one` and `two` are the accounts they  *)
(* name, `claimants` those of a claimable balance, `what` the part of their  *)
(* payload normalize looks at; an incomplete one lacks a required field.     *)
Kinds == [payment |-> {"-"}, create_account |-> {"-"}, account_merge |-> {"-"},
          allow_trust |-> {"grant", "revoke"},
          set_trust_line_flags |-> {"grant", "revoke", "neither"},
          set_options |-> {"tracked", "flags"}, bump_sequence |-> {"-"},
          manage_sell_offer |-> {"zero", "new", "old"}, manage_buy_offer |-> {"zero", "new", "old"},
          manage_data |-> {"value", "null"}, change_trust |-> {"zero", "max", "other"},
          create_claimable_balance |-> {"-"}, claim_claimable_balance |-> {"-"},
          liquidity_pool_deposit |-> {"-"}, liquidity_pool_withdraw |-> {"-"},
          clawback |-> {"-"}]

TwoParty == {"payment", "create_account", "account_merge", "allow_trust", "set_trust_line_flags"}

Operations ==
    {o \in [type : DOMAIN Kinds, what : UNION {Kinds[k] : k \in DOMAIN Kinds}, one : Accounts,
            two : Accounts \cup {NoAccount}, claimants : {<<>>} \cup (Accounts \X Accounts),
            complete : BOOLEAN] :
        /\ o.what \in Kinds[o.type]
        /\ o.two # NoAccount <=> o.type \in TwoParty
        /\ o.claimants # <<>> <=> o.type = "create_claimable_balance"
        /\ o.type \in {"create_account", "account_merge"} => o.one # o.two
        /\ o.type \in {"set_options", "account_merge", "clawback"} => o.complete}

(* The network refuses to remove a trustline that is not there.              *)
Possible(o) == o.type = "change_trust" /\ o.what = "zero" => o.one \in lines

-----------------------------------------------------------------------------
(* _normalize and its helpers: the type of the event, or why there is none.  *)
OfferType(what) == CASE what = "zero" -> "offer.deleted"
                     [] what = "new"  -> "offer.created"
                     [] OTHER         -> "offer.updated"

ResolveTrustlineEventType(limit) == CASE limit = "zero" -> "trustline.removed"
                                      [] limit = "max"  -> "trustline.added"
                                      [] OTHER          -> "trustline.updated"

AuthType(what) == CASE what = "grant"  -> "trustline.authorized"
                    [] what = "revoke" -> "trustline.deauthorized"
                    [] OTHER           -> "dropped"

DataType(what) == IF what = "value" THEN "data.set" ELSE "data.cleared"

(* Only a change of signers, thresholds or the home domain makes an event.   *)
OptionsType(what) == IF what = "tracked" THEN "account.options_changed" ELSE "dropped"

ClaimableType == [create_claimable_balance |-> "claimable.created",
                  claim_claimable_balance  |-> "claimable.claimed"]

PoolType == [liquidity_pool_deposit |-> "lp.deposited", liquidity_pool_withdraw |-> "lp.withdrawn"]

AccountType == [create_account |-> "account.created", bump_sequence |-> "account.bump_sequence"]

Normalize(o) ==
    IF ~o.complete THEN "dropped"
    ELSE CASE o.type = "payment" -> "unknown"
           [] o.type = "account_merge" -> "account.merged"
           [] o.type = "set_options" -> OptionsType(o.what)
           [] o.type \in DOMAIN AccountType -> AccountType[o.type]
           [] o.type \in {"manage_sell_offer", "manage_buy_offer"} -> OfferType(o.what)
           [] o.type = "manage_data" -> DataType(o.what)
           [] o.type = "change_trust" -> ResolveTrustlineEventType(o.what)
           [] o.type \in DOMAIN ClaimableType -> ClaimableType[o.type]
           [] o.type \in DOMAIN PoolType -> PoolType[o.type]
           [] o.type \in {"allow_trust", "set_trust_line_flags"} -> AuthType(o.what)
           [] OTHER -> "unrecognized"

-----------------------------------------------------------------------------
(* route: one watcher after the other, each if it is registered and its      *)
(* filter passes.                                                            *)
Tell(a, type) == IF a \in watchedAccounts \ rejecting THEN << <<a, type>> >> ELSE <<>>

TellOther(a, b, type) == IF a = b THEN <<>> ELSE Tell(a, type)

(* claimants in order, each once, then the sponsor if not told already       *)
MutTellClaimants(o, type) ==
    Tell(o.claimants[1], type) \o Tell(o.claimants[2], type) \o Tell(o.one, type)
TellClaimants(o, type) ==
    LET first == Tell(o.claimants[1], type)
        both  == first \o (IF <<o.claimants[2], type>> \in ToSet(first) THEN <<>>
                           ELSE Tell(o.claimants[2], type))
    IN  both \o (IF <<o.one, type>> \in ToSet(both) THEN <<>> ELSE Tell(o.one, type))

RoutePayment(o) ==
    IF o.one = o.two THEN Tell(o.two, "payment.self")
    ELSE Tell(o.two, "payment.received") \o Tell(o.one, "payment.sent")

RouteOperation(o, type) ==
    CASE type = "unknown" -> RoutePayment(o)
      [] type = "claimable.created" -> TellClaimants(o, type)
      [] type = "account.merged" -> Tell(o.one, type) \o Tell(o.two, type)
      [] type \in {"account.created", "trustline.authorized", "trustline.deauthorized"} ->
            Tell(o.one, type) \o TellOther(o.two, o.one, type)
      [] OTHER -> Tell(o.one, type)

(* emitUnrecognizedOperationTypeNotification tells every watcher.            *)
TellEverybody == SetToSeq({<<a, "engine.unrecognized_operation_type">> : a \in watchedAccounts})

OnOperation(o) ==
    LET type == Normalize(o) IN
    /\ Possible(o)
    /\ last' = [op |-> o, type |-> type, newLine |-> o.one \notin lines,
                due |-> IF "horizon" \in pausedSources THEN {} ELSE watchedAccounts \ rejecting,
                told |-> IF type = "unrecognized" THEN TellEverybody
                         ELSE IF type = "dropped" \/ "horizon" \in pausedSources THEN <<>>
                         ELSE RouteOperation(o, type)]
    /\ lines' = IF o.type # "change_trust" THEN lines
                ELSE IF o.what = "zero" THEN lines \ {o.one}
                ELSE lines \cup {o.one}
    /\ UNCHANGED <<watchedAccounts, rejecting, pausedSources, contractVars, unsubs>>

-----------------------------------------------------------------------------
(* A filter names a type, a contract and a topic, or leaves them open; a     *)
(* topic filter never matches an invocation.                                 *)
MatchesFilter(e, f) ==
    /\ f.type \in {Anybody, e.type} /\ f.contract \in {Anybody, e.contract}
    /\ f.topic # Anybody => e.type = "contract.emitted" /\ f.topic = e.topic

MatchesContractFilters(e, filters) == filters = {} \/ \E f \in filters : MatchesFilter(e, f)

MatchingSubs(e) == {s \in contractRegistry : MatchesContractFilters(e, ContractSubs[s])}

(* dispatchContractEvent of event number n.                                  *)
DispatchContract(n, e) ==
    /\ given' = [s \in DOMAIN given |->
                    IF s \in MatchingSubs(e) THEN Append(given[s], n) ELSE given[s]]
    /\ late' = IF "soroban" \in pausedSources THEN late \cup {n} ELSE late

SorobanPaused == "soroban" \in pausedSources

(* handleSorobanEvent and route: dropped while paused; an invocation goes    *)
(* out at once, an emitted event when the registry has answered.             *)
OnSorobanEvent(e) ==
    LET n == Len(arrived) + 1 IN
    /\ n <= MaxSoroban
    /\ arrived' = Append(arrived, e)
    /\ IF SorobanPaused
       THEN owed' = Append(owed, {}) /\ UNCHANGED <<lookups, given, late>>
       ELSE /\ owed' = Append(owed, MatchingSubs(e))
            /\ IF e.type = "contract.emitted"
               THEN lookups' = lookups \cup {n} /\ UNCHANGED <<given, late>>
               ELSE DispatchContract(n, e) /\ UNCHANGED lookups
    /\ UNCHANGED <<watchedAccounts, rejecting, contractRegistry, pausedSources, lines, last,
                   unsubs>>

(* The registry answers or fails: the event carries decodedData or not, and a *)
(* failure is told as event.decode_failed first; it goes out either way.      *)
LookupSettles(n) ==
    /\ n \in lookups
    /\ lookups' = lookups \ {n}
    /\ DispatchContract(n, arrived[n])
    /\ UNCHANGED <<watchedAccounts, rejecting, contractRegistry, pausedSources, lines, last,
                   arrived, owed, unsubs>>

-----------------------------------------------------------------------------
Subscribe(a, rejects) ==
    /\ a \notin watchedAccounts
    /\ watchedAccounts' = watchedAccounts \cup {a}
    /\ rejecting' = IF rejects THEN rejecting \cup {a} ELSE rejecting \ {a}
    /\ UNCHANGED <<pausedSources, lines, last, contractVars, unsubs>>

UnsubscribeAddress(a) ==
    /\ a \in watchedAccounts /\ unsubs < MaxUnsubs
    /\ watchedAccounts' = watchedAccounts \ {a} /\ rejecting' = rejecting \ {a}
    /\ unsubs' = unsubs + 1
    /\ UNCHANGED <<pausedSources, lines, last, contractVars>>

SubscribeContract(s) ==
    /\ s \notin contractRegistry
    /\ contractRegistry' = contractRegistry \cup {s}
    /\ UNCHANGED <<watchedAccounts, rejecting, pausedSources, lines, last, arrived, lookups, given,
                   owed, late, unsubs>>

UnsubscribeContract(s) ==
    /\ s \in contractRegistry /\ unsubs < MaxUnsubs
    /\ contractRegistry' = contractRegistry \ {s}
    /\ owed' = [n \in DOMAIN owed |-> owed[n] \ {s}]
    /\ unsubs' = unsubs + 1
    /\ UNCHANGED <<watchedAccounts, rejecting, pausedSources, lines, last, arrived, lookups,
                   given, late>>

(* pauseSource and resumeSource                                              *)
SetPaused(source) ==
    /\ pausedSources' = IF source \in pausedSources THEN pausedSources \ {source}
                        ELSE pausedSources \cup {source}
    /\ UNCHANGED <<watchedAccounts, rejecting, lines, last, contractVars, unsubs>>

RoutingInit ==
    /\ watchedAccounts = {} /\ rejecting = {} /\ contractRegistry = {} /\ pausedSources = {}
    /\ lines = {}
    /\ last = [op |-> NoOp, type |-> "dropped", newLine |-> FALSE, due |-> {}, told |-> <<>>]
    /\ arrived = <<>> /\ lookups = {} /\ given = [s \in DOMAIN ContractSubs |-> <<>>]
    /\ owed = <<>> /\ late = {} /\ unsubs = 0

SorobanEvents == [type : {"contract.invoked", "contract.emitted"}, contract : Contracts,
                  topic : {"t", "u"}]

HorizonStep ==
    \/ \E o \in Operations : OnOperation(o)
    \/ \E a \in Accounts, rejects \in BOOLEAN : Subscribe(a, rejects)
    \/ \E a \in Accounts : UnsubscribeAddress(a)
    \/ SetPaused("horizon")

ContractStep ==
    \/ \E e \in SorobanEvents : OnSorobanEvent(e)
    \/ \E n \in lookups : LookupSettles(n)
    \/ \E s \in DOMAIN ContractSubs : SubscribeContract(s) \/ UnsubscribeContract(s)
    \/ SetPaused("soroban")

RoutingNext == HorizonStep \/ ContractStep

RoutingSpec == RoutingInit /\ [][RoutingNext]_routingVars

-----------------------------------------------------------------------------
(* The accounts an operation concerns and what each is to be told.           *)
Concerned(o) == {o.one, o.two} \cup ToSet(o.claimants)

Expected(a, o, type) ==
    IF type # "unknown" THEN type
    ELSE IF o.one = o.two THEN "payment.self"
    ELSE IF a = o.two THEN "payment.received" ELSE "payment.sent"

(* Every watched account an operation concerns, whose filter passes, is told *)
(* of it exactly once whatever roles it has in it, in the direction it has   *)
(* for a payment, and nobody else is; none while the source is paused.       *)
ConcernedAreTold ==
    last.type \notin {"dropped", "unrecognized"} =>
        /\ IsInjective(last.told)
        /\ ToSet(last.told) = {<<a, Expected(a, last.op, last.type)>> :
                                  a \in Concerned(last.op) \cap last.due}

(* A contract event reaches every subscription it matched when it came and   *)
(* that has not been removed since, once, whether or not the registry knows  *)
(* its ABI; it reaches no other subscription it does not match; and only an  *)
(* event that waited for the registry comes after a later one.               *)
ContractEventsArrive ==
    /\ \A n \in DOMAIN owed : n \notin lookups =>
          \A s \in owed[n] : \E i \in DOMAIN given[s] : given[s][i] = n
    /\ \A s \in DOMAIN given :
          /\ IsInjective(given[s])
          /\ \A i, j \in DOMAIN given[s] : i < j /\ given[s][i] > given[s][j] =>
                arrived[given[s][j]].type = "contract.emitted"
          /\ \A i \in DOMAIN given[s] : ContractSubs[s] # {} =>
                LET e == arrived[given[s][i]] IN
                \E f \in ContractSubs[s] :
                    /\ f.contract \in {Anybody, e.contract}
                    /\ f.topic = Anybody \/ <<e.type, e.topic>> = <<"contract.emitted", f.topic>>

(* "Paused sources stop emitting events": nothing is handed out while its    *)
(* source is paused, but what waited for the registry when it was.           *)
PausedIsSilent == \A n \in late : arrived[n].type = "contract.emitted"

(* Operations and contract events reach whom they concern, once, and nobody  *)
(* while their source is paused.                                             *)
EveryoneIsTold == ConcernedAreTold /\ ContractEventsArrive /\ PausedIsSilent

(* What the event taxonomy says of trustline.added: "A `change_trust`        *)
(* operation created a new trustline".                                       *)
AddedMeansNew == last.type = "trustline.added" => last.newLine
=============================================================================
