---------------------------- MODULE ServicesProofs ----------------------------
(***************************************************************************)
(* The parts around the engine and the deliveries, each for every value of  *)
(* its constants: the webhook receiver handles an event once, a worker's    *)
(* window fires once, the state stores keep the fire history, the terms of  *)
(* a subscription can be replayed, the payroll pays by the book, the        *)
(* verdict store answers with the end of the chain, no stream slot is lost, *)
(* the coverage record of a backstop has no gap and tells the truth, and    *)
(* the worker's file queue forgets no submission.                           *)
(***************************************************************************)
EXTENDS DedupReceiver, FireClaims, WorkerState, SubscriptionService, Payroll, VerdictStore,
        StreamSlots, BackstopSubscription, FileRetryQueue, FiniteSetTheorems, TLAPS

(* A set of at most one element.                                             *)
LEMMA AtMostOne ==
    ASSUME NEW S, \A x, y \in S : x = y
    PROVE  IsFiniteSet(S) /\ Cardinality(S) <= 1
<1>1. CASE S = {}
  BY <1>1, FS_EmptySet
<1>2. CASE S # {}
  <2>1. PICK x : x \in S
    BY <1>2
  <2>2. S = {x}
    BY <2>1
  <2>3. IsFiniteSet({x}) /\ Cardinality({x}) = 1
    BY FS_Singleton
  <2> QED BY <2>2, <2>3
<1> QED BY <1>1, <1>2

-----------------------------------------------------------------------------
(* DedupReceiver                                                             *)

Deliveries == EventIds \X Copies

(* A copy that was let through, until its handler has failed.                *)
Through(d) == receive[d] \in {"passed", "handling"} \/ d \in handled

DedupTyped ==
    /\ receive \in [Deliveries -> {"sent", "passed", "handling", "over"}]
    /\ handled \subseteq Deliveries

(* Whoever got past mark left its id in the store; two copies are let        *)
(* through only if both asked before either marked; and an id is in the      *)
(* store only when a handler runs, ran or threw.                             *)
DedupInv ==
    /\ DedupTyped
    /\ \A d \in Deliveries : receive[d] \in {"handling", "over"} => d[1] \in marked
    /\ \A d \in handled : receive[d] = "over"
    /\ \A d, e \in Deliveries : Through(d) /\ Through(e) /\ d[1] = e[1] => d = e \/ d[1] \in doubled
    /\ \A id \in marked : \/ id \in failed
                          \/ \E d \in Deliveries : d[1] = id /\ (d \in handled \/ receive[d] = "handling")

(* Every call to the receiver.                                               *)
LEMMA DedupStep ==
    ASSUME DedupInv, NEW d \in Deliveries,
           AsksSeen(d) \/ Marks(d) \/ HandlerReturns(d) \/ HandlerThrows(d)
    PROVE  DedupInv'
<1>1. DedupTyped
  BY DEF DedupInv
<1>2. CASE AsksSeen(d)
  <2>1. PICK s : s = IF Passes(d[1]) THEN "passed" ELSE "over"
    OBVIOUS
  <2>2. /\ receive[d] = "sent" /\ receive' = [receive EXCEPT ![d] = s]
        /\ doubled' = doubled \cup {id \in {d[1]} : \E c \in Copies : receive[<<id, c>>] = "passed"}
        /\ UNCHANGED <<marked, handled, failed>>
    BY <1>2, <2>1 DEF AsksSeen
  <2>3. /\ s \in {"passed", "over"} /\ (s = "passed" => d[1] \notin marked) /\ (s = "over" => d[1] \in marked)
    BY <2>1 DEF Passes
  <2>4. /\ receive'[d] = s /\ \A e \in Deliveries : e # d => receive'[e] = receive[e]
        /\ DedupTyped'
    BY <1>1, <2>2, <2>3 DEF DedupTyped
  <2>5. \A e \in Deliveries : receive'[e] \in {"handling", "over"} => e[1] \in marked'
    BY <2>2, <2>3, <2>4 DEF DedupInv
  <2>6. \A e \in handled' : receive'[e] = "over"
    BY <1>1, <2>2, <2>4 DEF DedupInv, DedupTyped
  <2>7. ASSUME NEW e \in Deliveries, NEW f \in Deliveries, Through(e)', Through(f)', e[1] = f[1], e # f
        PROVE  e[1] \in doubled'
    <3>1. ASSUME NEW g \in Deliveries, Through(g), g # d, g[1] = d[1], s = "passed"
          PROVE  g[1] \in doubled'
      <4>1. receive[g] = "passed"
        BY <2>3, <3>1 DEF DedupInv, Through
      <4>2. g = <<d[1], g[2]>> /\ g[2] \in Copies
        BY <3>1 DEF Deliveries
      <4> QED BY <2>2, <3>1, <4>1, <4>2
    <3>2. \A g \in Deliveries : Through(g)' => Through(g) \/ (g = d /\ s = "passed")
      BY <1>1, <2>2, <2>3, <2>4 DEF Through
    <3>3. CASE Through(e) /\ Through(f)
      BY <2>2, <2>7, <3>3 DEF DedupInv
    <3>4. ~Through(d)
      BY <2>2 DEF DedupInv, Through
    <3> QED BY <2>7, <3>1, <3>2, <3>3, <3>4
  <2>8. \A id \in marked' : \/ id \in failed'
                          \/ \E e \in Deliveries : e[1] = id /\ (e \in handled' \/ receive'[e] = "handling")
    BY <2>2, <2>4 DEF DedupInv
  <2> QED BY <2>4, <2>5, <2>6, <2>7, <2>8 DEF DedupInv
<1>3. CASE Marks(d)
  <2>1. /\ receive[d] = "passed" /\ receive' = [receive EXCEPT ![d] = "handling"]
        /\ marked' = marked \cup {d[1]} /\ UNCHANGED <<handled, failed, doubled>>
    BY <1>3 DEF Marks
  <2>2. /\ receive'[d] = "handling" /\ \A e \in Deliveries : e # d => receive'[e] = receive[e]
        /\ DedupTyped'
    BY <1>1, <2>1 DEF DedupTyped
  <2>3. \A e \in Deliveries : Through(e)' => Through(e)
    BY <2>1, <2>2 DEF Through
  <2>4. \A e \in handled' : receive'[e] = "over"
    BY <1>1, <2>1, <2>2 DEF DedupInv, DedupTyped
  <2>5. \A id \in marked' : \/ id \in failed'
                          \/ \E e \in Deliveries : e[1] = id /\ (e \in handled' \/ receive'[e] = "handling")
    <3> SUFFICES ASSUME NEW id \in marked', id \notin failed'
                 PROVE  \E e \in Deliveries : e[1] = id /\ (e \in handled' \/ receive'[e] = "handling")
      OBVIOUS
    <3>1. CASE id = d[1]
      BY <2>2, <3>1
    <3>2. CASE id # d[1]
      BY <2>1, <2>2, <3>2 DEF DedupInv
    <3> QED BY <3>1, <3>2
  <2> QED BY <2>1, <2>2, <2>3, <2>4, <2>5 DEF DedupInv
<1>4. CASE HandlerReturns(d) \/ HandlerThrows(d)
  <2>1. /\ receive[d] = "handling" /\ receive' = [receive EXCEPT ![d] = "over"]
        /\ UNCHANGED <<marked, doubled>> /\ handled \subseteq handled' /\ failed \subseteq failed'
        /\ handled' \subseteq handled \cup {d}
        /\ d \in handled' \/ d[1] \in failed'
    BY <1>4 DEF HandlerReturns, HandlerThrows
  <2>2. /\ receive'[d] = "over" /\ \A e \in Deliveries : e # d => receive'[e] = receive[e]
        /\ DedupTyped'
    BY <1>1, <2>1 DEF DedupTyped
  <2>3. \A e \in Deliveries : Through(e)' => Through(e)
    BY <2>1, <2>2 DEF Through
  <2>4. \A e \in handled' : receive'[e] = "over"
    BY <1>1, <2>1, <2>2 DEF DedupInv, DedupTyped
  <2>5. \A id \in marked' : \/ id \in failed'
                          \/ \E e \in Deliveries : e[1] = id /\ (e \in handled' \/ receive'[e] = "handling")
    BY <2>1, <2>2 DEF DedupInv
  <2>6. \A e \in Deliveries : receive'[e] \in {"handling", "over"} => e[1] \in marked'
    BY <2>1, <2>2 DEF DedupInv
  <2> QED BY <2>1, <2>2, <2>3, <2>4, <2>5, <2>6 DEF DedupInv
<1> QED BY <1>2, <1>3, <1>4

(* dedupReceiver in front of a handler: however the calls for the copies of  *)
(* an event interleave, its handler runs to its end at most once unless two  *)
(* copies asked the store before either marked it, and a copy is dropped     *)
(* only when another was handled, is being handled, or failed.               *)
THEOREM EventsHandledOnce == DedupSpec => []HandledOnce
<1>1. DedupInit => DedupInv
  BY DEF DedupInit, DedupInv, DedupTyped, Through, Deliveries
<1>2. DedupInv /\ [DedupNext]_dedupVars => DedupInv'
  <2> SUFFICES ASSUME DedupInv, [DedupNext]_dedupVars PROVE DedupInv'
    OBVIOUS
  <2>1. CASE DedupNext
    <3>1. DOMAIN receive = Deliveries
      BY DEF DedupInv, DedupTyped
    <3> QED BY <2>1, <3>1, DedupStep DEF DedupNext
  <2>2. CASE UNCHANGED dedupVars
    BY <2>2 DEF dedupVars, DedupInv, DedupTyped, Through
  <2> QED BY <2>1, <2>2
<1>3. DedupInv => HandledOnce
  <2> SUFFICES ASSUME DedupInv, NEW id \in EventIds
               PROVE  /\ id \in doubled \/ Cardinality(handled \cap ({id} \X Copies)) <= 1
                      /\ (\E d \in {id} \X Copies : receive[d] = "over") =>
                            \/ id \in failed
                            \/ \E d \in {id} \X Copies : d \in handled \/ receive[d] = "handling"
    BY DEF HandledOnce
  <2>1. \A d \in Deliveries : d \in {id} \X Copies <=> d[1] = id
    BY DEF Deliveries
  <2>2. \A d \in {id} \X Copies : d \in Deliveries /\ d[1] = id
    BY DEF Deliveries
  <2>3. ASSUME id \notin doubled PROVE Cardinality(handled \cap ({id} \X Copies)) <= 1
    <3>1. \A d, e \in handled \cap ({id} \X Copies) : d = e
      BY <2>2, <2>3 DEF DedupInv, Through
    <3> QED BY <3>1, AtMostOne
  <2>4. ASSUME \E d \in {id} \X Copies : receive[d] = "over", id \notin failed
        PROVE  \E d \in {id} \X Copies : d \in handled \/ receive[d] = "handling"
    BY <2>1, <2>2, <2>4 DEF DedupInv
  <2> QED BY <2>3, <2>4
<1> QED BY <1>1, <1>2, <1>3, PTL DEF DedupSpec

-----------------------------------------------------------------------------
(* Payroll                                                                   *)

(* The terms are as configure checked them.                                  *)
TermsSound ==
    /\ terms.start \in Nat /\ terms.period \in Nat
    /\ terms.configured \in BOOLEAN /\ (terms.configured => terms.owner \in People)
    /\ \A p \in People : Owed(p) \in Int

(* Nothing is paid without terms, so that configure cannot disturb the books. *)
NothingWithoutTerms == ~terms.configured => paidAt = <<>>

Books ==
    /\ second \in Nat /\ nextWindow \in Nat /\ paidAt \in Seq(Nat)
    /\ money \in [People -> Int] /\ paid \in [People -> Int] /\ moved \in [People -> Int]

PayrollInv ==
    /\ Books /\ TermsSound /\ NothingWithoutTerms
    /\ PaidByTheBook /\ NeverEarly /\ MoneyGoesWhereConfigured

(* Owed sees the terms only.                                                 *)
LEMMA OwedKept == ASSUME UNCHANGED terms PROVE \A p : Owed(p)' = Owed(p)
    BY DEF Owed

(* One more window, one more amount.                                         *)
LEMMA OneMore == \A n \in Int, b \in Int : (n + 1) * b = n * b + b
    BY SMT

(* No window, no amount.                                                     *)
LEMMA NoneYet == \A b \in Int : 0 * b = 0
    BY SMT

(* The contract starts with empty books.                                     *)
LEMMA InitBooks == PayrollInit => PayrollInv
<1> SUFFICES ASSUME PayrollInit PROVE PayrollInv
    OBVIOUS
<1> USE PayrollAssumption
<1>1. terms.pay = <<>> /\ terms.start = 0 /\ terms.period = 0 /\ terms.configured = FALSE
    BY DEF PayrollInit, NoTerms
<1>2. \A p \in People : Owed(p) \in Int
    <2> SUFFICES ASSUME NEW p \in People PROVE Owed(p) \in Int
        OBVIOUS
    <2>1. CASE p \in DOMAIN terms.pay
        <3>1. DOMAIN terms.pay = {}
            BY <1>1, SMT
        <3> QED BY <2>1, <3>1
    <2>2. CASE p \notin DOMAIN terms.pay
        BY <2>2 DEF Owed
    <2> QED BY <2>1, <2>2
<1>3. Books /\ TermsSound /\ NothingWithoutTerms
    <2>1. Books
        BY DEF PayrollInit, Books
    <2>2. TermsSound
        <3>1. terms.start \in Nat /\ terms.period \in Nat
            BY <1>1
        <3>2. terms.configured \in BOOLEAN /\ (terms.configured => terms.owner \in People)
            BY <1>1, Zenon
        <3> QED BY <1>2, <3>1, <3>2 DEF TermsSound
    <2>3. NothingWithoutTerms
        BY DEF PayrollInit, NothingWithoutTerms
    <2> QED BY <2>1, <2>2, <2>3
<1>4. PaidByTheBook
    BY <1>2, NoneYet DEF PayrollInit, PaidByTheBook
<1>5. NeverEarly
    BY DEF PayrollInit, NeverEarly
<1>6. MoneyGoesWhereConfigured
    BY DEF PayrollInit, MoneyGoesWhereConfigured
<1> QED BY <1>3, <1>4, <1>5, <1>6 DEF PayrollInv

(* configure writes the terms once, over empty books.                        *)
LEMMA ConfigureBooks ==
    ASSUME PayrollInv, NEW owner \in People, NEW pay \in Payrolls, NEW period \in Periods,
           Configure(owner, pay, period)
    PROVE  PayrollInv'
<1> USE PayrollAssumption
<1>1. paidAt = <<>> /\ nextWindow = 0 /\ nextWindow' = 0 /\ UNCHANGED <<paidAt, paid, money, moved, second>>
    <2>1. ~terms.configured
        BY DEF Configure
    <2>2. paidAt = <<>>
        BY <2>1 DEF PayrollInv, NothingWithoutTerms
    <2>3. nextWindow = 0
        BY <2>2 DEF PayrollInv, PaidByTheBook
    <2> QED BY <2>2, <2>3 DEF Configure
<1>2. /\ terms'.start = second /\ terms'.period = period /\ terms'.owner = owner
      /\ terms'.pay = pay /\ terms'.configured = TRUE
    BY DEF Configure
<1>3. \A p \in People : Owed(p)' \in Int
    BY <1>2 DEF Owed
<1>4. Books'
    BY <1>1 DEF PayrollInv, Books
<1>5. TermsSound'
    BY <1>2, <1>3 DEF PayrollInv, Books, TermsSound
<1>6. NothingWithoutTerms'
    BY <1>2 DEF NothingWithoutTerms
<1>7. PaidByTheBook'
    <2>1. \A p \in People : paid[p] = 0
        BY <1>1, NoneYet DEF PayrollInv, PaidByTheBook, TermsSound
    <2> QED BY <1>1, <1>3, <2>1, NoneYet DEF PaidByTheBook
<1>8. NeverEarly'
    BY <1>1 DEF NeverEarly
<1>9. MoneyGoesWhereConfigured'
    BY <1>1 DEF PayrollInv, MoneyGoesWhereConfigured
<1> QED BY <1>4, <1>5, <1>6, <1>7, <1>8, <1>9 DEF PayrollInv

(* fund and withdraw move money, and leave the windows alone.                *)
LEMMA MoveBooks ==
    ASSUME PayrollInv, NEW who \in People, NEW amount \in Amounts,
           Fund(who, amount) \/ Withdraw(who, amount)
    PROVE  PayrollInv'
<1> USE PayrollAssumption
<1>1. UNCHANGED <<second, terms, nextWindow, paid, paidAt>>
    BY DEF Fund, Withdraw
<1>2. amount \in Int
    OBVIOUS
<1>3. /\ money' \in [People -> Int] /\ moved' \in [People -> Int]
      /\ MoneyGoesWhereConfigured'
    <2>1. CASE Fund(who, amount)
        BY <1>1, <1>2, <2>1 DEF Fund, PayrollInv, Books, MoneyGoesWhereConfigured
    <2>2. CASE Withdraw(who, amount)
        <3>1. terms.owner \in People
            BY <2>2 DEF Withdraw, PayrollInv, TermsSound
        <3>2. money' = [money EXCEPT ![terms.owner] = @ + amount]
            BY <2>2 DEF Withdraw, Payee
        <3>3. moved' = [moved EXCEPT ![terms.owner] = @ - amount]
            BY <2>2 DEF Withdraw
        <3>4. money \in [People -> Int] /\ moved \in [People -> Int] /\ paid \in [People -> Int]
            BY DEF PayrollInv, Books
        <3>5. money' \in [People -> Int] /\ moved' \in [People -> Int]
            BY <1>2, <3>1, <3>2, <3>3, <3>4
        <3>6. ASSUME NEW p \in People PROVE money'[p] = StartMoney - moved'[p] + paid'[p]
            <4>1. money[p] = StartMoney - moved[p] + paid[p]
                BY DEF PayrollInv, MoneyGoesWhereConfigured
            <4>2. CASE p = terms.owner
                BY <1>1, <1>2, <3>1, <3>2, <3>3, <3>4, <4>1, <4>2
            <4>3. CASE p # terms.owner
                BY <1>1, <3>1, <3>2, <3>3, <3>4, <4>1, <4>3
            <4> QED BY <4>2, <4>3
        <3> QED BY <3>5, <3>6 DEF MoneyGoesWhereConfigured
    <2> QED BY <2>1, <2>2
<1>4. Books' /\ TermsSound' /\ NothingWithoutTerms'
    BY <1>1, <1>3, OwedKept DEF PayrollInv, Books, TermsSound, NothingWithoutTerms
<1>5. PaidByTheBook' /\ NeverEarly'
    BY <1>1, OwedKept DEF PayrollInv, PaidByTheBook, NeverEarly
<1> QED BY <1>3, <1>4, <1>5 DEF PayrollInv

(* disburse pays the next window, which has elapsed.                         *)
LEMMA DisburseBooks == ASSUME PayrollInv, Disburse PROVE PayrollInv'
<1>1. /\ UNCHANGED <<second, terms, moved>> /\ nextWindow' = nextWindow + 1
      /\ paidAt' = Append(paidAt, second)
    BY DEF Disburse, Advanced
<1>2. \A p \in People : Owed(p) \in Int /\ Owed(p)' = Owed(p)
    BY <1>1, OwedKept DEF PayrollInv, TermsSound
<1>3. /\ paid' = [p \in People |-> paid[p] + Owed(p)]
      /\ money' = [p \in People |-> money[p] + Owed(p)]
    BY DEF Disburse
<1>4. Books'
    BY <1>1, <1>2, <1>3 DEF PayrollInv, Books
<1>5. TermsSound' /\ NothingWithoutTerms'
    BY <1>1, <1>2 DEF Disburse, PayrollInv, TermsSound, NothingWithoutTerms
<1>6. PaidByTheBook'
    <2>1. nextWindow' = Len(paidAt')
        BY <1>1 DEF PayrollInv, Books, PaidByTheBook
    <2>2. \A p \in People : paid'[p] = nextWindow * Owed(p) + Owed(p)
        BY <1>3 DEF PayrollInv, PaidByTheBook
    <2>3. \A p \in People : nextWindow' * Owed(p)' = nextWindow * Owed(p) + Owed(p)
        BY <1>1, <1>2, OneMore DEF PayrollInv, Books
    <2> QED BY <2>1, <2>2, <2>3 DEF PaidByTheBook
<1>7. NeverEarly'
    <2> SUFFICES ASSUME NEW w \in DOMAIN paidAt'
                 PROVE  paidAt'[w] >= terms'.start + w * terms'.period
        BY DEF NeverEarly
    <2>1. CASE w \in DOMAIN paidAt
        <3>1. paidAt'[w] = paidAt[w]
            BY <1>1, <2>1 DEF PayrollInv, Books
        <3>2. paidAt[w] >= terms.start + w * terms.period
            BY <2>1 DEF PayrollInv, NeverEarly
        <3> QED BY <1>1, <3>1, <3>2
    <2>2. CASE w \notin DOMAIN paidAt
        <3>1. w = nextWindow + 1 /\ paidAt'[w] = second
            <4>1. paidAt \in Seq(Nat) /\ second \in Nat /\ nextWindow = Len(paidAt)
                BY DEF PayrollInv, Books, PaidByTheBook
            <4>2. Len(paidAt') = Len(paidAt) + 1 /\ paidAt'[Len(paidAt) + 1] = second
                BY <1>1, <4>1
            <4>3. paidAt' \in Seq(Nat)
                BY <1>4 DEF Books
            <4>4. w \in 1 .. Len(paidAt') /\ w \notin 1 .. Len(paidAt)
                BY <2>2, <4>1, <4>3
            <4> QED BY <4>1, <4>2, <4>4
        <3>2. second >= terms.start + nextWindow * terms.period + terms.period
            BY DEF Disburse, DueAt
        <3>3. w * terms.period = nextWindow * terms.period + terms.period
            <4>1. nextWindow \in Int /\ terms.period \in Int
                BY DEF PayrollInv, Books, TermsSound
            <4>2. (nextWindow + 1) * terms.period = nextWindow * terms.period + terms.period
                BY <4>1, OneMore, Zenon
            <4> QED BY <3>1, <4>2, Zenon
        <3>4. nextWindow * terms.period \in Int /\ terms.start \in Int /\ terms.period \in Int
            BY DEF PayrollInv, Books, TermsSound
        <3>5. second >= terms.start + (nextWindow * terms.period + terms.period)
            BY <3>2, <3>4
        <3> QED BY <1>1, <3>1, <3>3, <3>5
    <2> QED BY <2>1, <2>2
<1>8. MoneyGoesWhereConfigured'
    BY <1>1, <1>2, <1>3, PayrollAssumption DEF PayrollInv, Books, MoneyGoesWhereConfigured
<1> QED BY <1>4, <1>5, <1>6, <1>7, <1>8 DEF PayrollInv

(* Time passes, or nothing happens.                                          *)
LEMMA TimeBooks ==
    ASSUME PayrollInv, SecondsPass \/ UNCHANGED payrollVars
    PROVE  PayrollInv'
<1>1. UNCHANGED <<terms, nextWindow, money, paid, paidAt, moved>> /\ second' \in Nat
    BY DEF SecondsPass, payrollVars, PayrollInv, Books
<1>2. Books' /\ TermsSound' /\ NothingWithoutTerms'
    BY <1>1, OwedKept DEF PayrollInv, Books, TermsSound, NothingWithoutTerms
<1>3. PaidByTheBook' /\ NeverEarly' /\ MoneyGoesWhereConfigured'
    BY <1>1, OwedKept DEF PayrollInv, PaidByTheBook, NeverEarly, MoneyGoesWhereConfigured
<1> QED BY <1>2, <1>3 DEF PayrollInv

(* The books are right in every reachable state.                             *)
THEOREM BooksKept == PayrollSpec => []PayrollInv
<1>1. PayrollInv /\ [PayrollNext]_payrollVars => PayrollInv'
    <2> SUFFICES ASSUME PayrollInv, [PayrollNext]_payrollVars PROVE PayrollInv'
        OBVIOUS
    <2>1. CASE \E owner \in People, pay \in Payrolls, period \in Periods :
                    Configure(owner, pay, period)
        BY <2>1, ConfigureBooks
    <2>2. CASE \E p \in People, amount \in Amounts : Fund(p, amount) \/ Withdraw(p, amount)
        BY <2>2, MoveBooks
    <2>3. CASE Disburse
        BY <2>3, DisburseBooks
    <2>4. CASE SecondsPass \/ UNCHANGED payrollVars
        BY <2>4, TimeBooks
    <2> QED BY <2>1, <2>2, <2>3, <2>4 DEF PayrollNext
<1> QED BY InitBooks, <1>1, PTL DEF PayrollSpec

(* Every window is paid once, in order and in full, whoever calls disburse   *)
(* and however late.                                                         *)
THEOREM WindowsPaidOnce == PayrollSpec => []PaidByTheBook
<1>1. PayrollInv => PaidByTheBook
    BY DEF PayrollInv
<1> QED BY BooksKept, <1>1, PTL

(* No window is paid before it has elapsed.                                  *)
THEOREM WindowsNeverEarly == PayrollSpec => []NeverEarly
<1>1. PayrollInv => NeverEarly
    BY DEF PayrollInv
<1> QED BY BooksKept, <1>1, PTL

(* The contract pays nobody but its recipients and its owner.                *)
THEOREM MoneyStaysOnCourse == PayrollSpec => []MoneyGoesWhereConfigured
<1>1. PayrollInv => MoneyGoesWhereConfigured
    BY DEF PayrollInv
<1> QED BY BooksKept, <1>1, PTL

(* The payroll contract pays each window once, in full, in time and to the   *)
(* configured recipients only.                                               *)
THEOREM PayrollIsSound == PayrollSpec => []PayrollSound
<1>1. PayrollInv => PayrollSound
    BY DEF PayrollInv, PayrollSound
<1> QED BY BooksKept, <1>1, PTL

-----------------------------------------------------------------------------
(* FireClaims                                                                *)

Sent == [by : Procs, n : Nat, built : Nat, fate : {"pending", "landed"}, seq : Nat]
FireSteps == {"idle", "checking", "submitting", "polling", "missed"}

FireTyped ==
    /\ ledger \in Nat /\ claim \in [owner : Procs \cup {"none"}, expiresAt : Nat]
    /\ step \in [Procs -> FireSteps] /\ mine \in [Procs -> Nat]
    /\ txs \subseteq Sent /\ IsFiniteSet(txs) /\ recorded \in Nat /\ unaudited \in BOOLEAN

(* A process at work under a claim that has not expired holds the claim.     *)
Holds(p) == step[p] \in {"checking", "submitting", "polling"} /\ mine[p] > ledger
HoldersClaim == \A p \in Procs : Holds(p) => claim.owner = p /\ claim.expiresAt = mine[p]

(* The transactions a ledger may still include, and with them all that fired *)
(* or may fire.                                                              *)
Open  == {t \in txs : t.fate = "pending" /\ ledger < t.built + TxLife}
Alive == Landed \cup Open

(* Without an excuse: the open transaction is covered by the claim, so that  *)
(* nobody else has looked at the chain since it was sent; whoever is about   *)
(* to submit in time knows that nothing fired or will.                       *)
OneAlive ==
    /\ \A t, u \in Alive : t = u
    /\ \A p \in Procs : Holds(p) /\ step[p] = "submitting" => Alive = {}
    /\ \A p \in Procs : Holds(p) /\ step[p] = "checking" => Open = {}
    /\ \A t \in Open : claim.expiresAt >= t.built + TxLife

FireInv ==
    FireTyped /\ HoldersClaim /\ InterventionsOnRecord /\ (excuses = {} => OneAlive)

(* One process takes a step.                                                 *)
LEMMA StepMoves ==
    ASSUME FireTyped, NEW p \in Procs, NEW s \in FireSteps, Go(p, s)
    PROVE  /\ step'[p] = s /\ \A q \in Procs : q # p => step'[q] = step[q]
           /\ step' \in [Procs -> FireSteps]
BY DEF FireTyped, Go

(* A process wins the claim: it had expired, and what was sent under it too. *)
LEMMA ClaimKeeps ==
    ASSUME FireInv, NEW p \in Procs, NEW s \in {"checking", "submitting"}, Claim(p), Go(p, s),
           UNCHANGED <<ledger, txs, recorded, unaudited>>, excuses \subseteq excuses',
           step[p] # "polling", excuses' = {} /\ s = "submitting" => Landed = {}
    PROVE  FireInv'
<1>1. FireTyped /\ HoldersClaim /\ InterventionsOnRecord
  BY DEF FireInv
<1>2. ledger \in Nat /\ ClaimTtl \in Nat /\ mine \in [Procs -> Nat]
  BY <1>1, FireClaimsAssumption DEF FireTyped
<1>3. /\ claim' = [owner |-> p, expiresAt |-> ledger + ClaimTtl]
      /\ mine' = [mine EXCEPT ![p] = ledger + ClaimTtl]
      /\ claim.expiresAt \in Nat /\ claim.expiresAt <= ledger
  BY <1>1, <1>2 DEF Claim, MayClaim, NoClaim, FireTyped
<1>4. claim'.owner = p /\ claim'.expiresAt = ledger + ClaimTtl
  BY <1>3
<1>5. /\ step'[p] = s /\ (\A q \in Procs : q # p => step'[q] = step[q])
      /\ step' \in [Procs -> FireSteps]
  BY <1>1, StepMoves DEF FireSteps
<1>6. mine'[p] = ledger + ClaimTtl /\ mine' \in [Procs -> Nat] /\ \A q \in Procs : q # p => mine'[q] = mine[q]
  BY <1>2, <1>3
<1>7. FireTyped'
  <2>1. claim' \in [owner : Procs \cup {"none"}, expiresAt : Nat]
    BY <1>2, <1>3
  <2> QED BY <1>1, <1>5, <1>6, <2>1 DEF FireTyped
<1>8. \A q \in Procs : ~Holds(q)
  <2> SUFFICES ASSUME NEW q \in Procs, Holds(q) PROVE FALSE
    OBVIOUS
  <2>1. mine[q] > ledger /\ claim.expiresAt = mine[q] /\ mine[q] \in Nat
    BY <1>1, <1>2 DEF HoldersClaim, Holds
  <2> QED BY <1>2, <1>3, <2>1
<1>9. \A q \in Procs : Holds(q)' => q = p
  BY <1>5, <1>6, <1>8 DEF Holds
<1>10. HoldersClaim'
  BY <1>4, <1>6, <1>9 DEF HoldersClaim
<1>11. InterventionsOnRecord'
  <2>1. step'[Backstop] = "polling" <=> step[Backstop] = "polling"
    BY <1>5 DEF Procs
  <2>2. {t \in txs' : t.by = Backstop} = {t \in txs : t.by = Backstop} /\ recorded' = recorded
        /\ unaudited' = unaudited
    OBVIOUS
  <2> QED BY <1>1, <2>1, <2>2 DEF InterventionsOnRecord
<1>12. ASSUME excuses' = {} PROVE OneAlive'
  <2>1. OneAlive
    BY <1>12 DEF FireInv
  <2>2. Open = {}
    <3> SUFFICES ASSUME NEW t \in Open PROVE FALSE
      OBVIOUS
    <3>1. claim.expiresAt >= t.built + TxLife /\ ledger < t.built + TxLife /\ t.built \in Nat
      BY <1>1, <2>1 DEF OneAlive, Open, FireTyped, Sent
    <3>2. TxLife \in Nat
      BY FireClaimsAssumption
    <3> QED BY <1>2, <1>3, <3>1, <3>2
  <2>3. Open' = {} /\ Landed' = Landed /\ Alive' = Alive
    BY <2>2 DEF Open, Landed, Alive
  <2>4. s = "submitting" => Alive' = {}
    BY <1>12, <2>2, <2>3 DEF Alive
  <2> QED BY <1>5, <1>9, <2>1, <2>3, <2>4 DEF OneAlive
<1> QED BY <1>7, <1>10, <1>11, <1>12 DEF FireInv

(* A process is done, dies, or sees a miss: chain and claims stay.           *)
LEMMA DoneKeeps ==
    ASSUME FireInv, NEW p \in Procs, NEW s \in {"idle", "missed"}, Go(p, s),
           UNCHANGED <<ledger, claim, mine, txs, excuses>>,
           recorded' \in Nat, recorded' >= recorded, unaudited' \in BOOLEAN, unaudited => unaudited',
           p = Backstop /\ step[p] = "polling" => unaudited' \/ recorded' = recorded + 1
    PROVE  FireInv'
<1>1. FireTyped /\ HoldersClaim /\ InterventionsOnRecord
  BY DEF FireInv
<1>2. /\ step'[p] = s /\ s # "polling" /\ (\A q \in Procs : q # p => step'[q] = step[q])
      /\ step' \in [Procs -> FireSteps]
  BY <1>1, StepMoves DEF FireSteps
<1>3. FireTyped'
  BY <1>1, <1>2 DEF FireTyped
<1>4. \A q \in Procs : Holds(q)' => Holds(q) /\ step'[q] = step[q]
  BY <1>2 DEF Holds
<1>5. HoldersClaim'
  BY <1>1, <1>4 DEF HoldersClaim
<1>6. InterventionsOnRecord'
  <2> DEFINE n == Cardinality({t \in txs : t.by = Backstop})
  <2>1. n \in Nat /\ recorded \in Nat
    <3>1. IsFiniteSet({t \in txs : t.by = Backstop})
      BY <1>1, FS_Subset DEF FireTyped
    <3> QED BY <1>1, <3>1, FS_CardinalityType DEF FireTyped
  <2>2. unaudited \/ recorded + (IF step[Backstop] = "polling" THEN 1 ELSE 0) >= n
    BY <1>1 DEF InterventionsOnRecord
  <2> HIDE DEF n
  <2>3. ASSUME ~unaudited' PROVE recorded' + (IF step'[Backstop] = "polling" THEN 1 ELSE 0) >= n
    <3>1. ~unaudited /\ Backstop \in Procs
      BY <2>3 DEF Procs
    <3>2. recorded + (IF step[Backstop] = "polling" THEN 1 ELSE 0) >= n
      BY <2>2, <3>1
    <3>3. (step[Backstop] = "polling" => recorded + 1 >= n) /\ (step[Backstop] # "polling" => recorded >= n)
      BY <2>1, <3>2
    <3>4. CASE p = Backstop /\ step[p] = "polling"
      <4>1. recorded' = recorded + 1 /\ step'[Backstop] # "polling"
        BY <1>2, <2>3, <3>4
      <4>2. recorded' >= n
        BY <2>1, <3>3, <3>4, <4>1
      <4> QED BY <2>1, <4>1, <4>2
    <3>5. CASE ~(p = Backstop /\ step[p] = "polling")
      <4>1. step[Backstop] = "polling" => step'[Backstop] = "polling"
        BY <1>2, <3>1, <3>5
      <4>2. CASE step'[Backstop] = "polling"
        <5>2. recorded + 1 >= n
          <6>1. CASE step[Backstop] = "polling"
            BY <3>3, <6>1
          <6>2. CASE step[Backstop] # "polling"
            <7>1. recorded >= n
              BY <3>3, <6>2
            <7> QED BY <2>1, <7>1
          <6> QED BY <6>1, <6>2
        <5>3. \A a, b, m \in Nat : a >= b /\ b + 1 >= m => a + 1 >= m
          OBVIOUS
        <5>1. recorded' + 1 >= n
          BY <2>1, <5>2, <5>3, Zenon
        <5> QED BY <4>2, <5>1
      <4>3. CASE step'[Backstop] # "polling"
        <5>1. recorded' >= n
          BY <2>1, <3>3, <4>1, <4>3
        <5>2. recorded' + 0 >= n
          BY <5>1
        <5> QED BY <4>3, <5>2
      <4> QED BY <4>2, <4>3
    <3> QED BY <3>4, <3>5
  <2> QED BY <2>3 DEF InterventionsOnRecord, n
<1>7. ASSUME excuses' = {} PROVE OneAlive'
  <2>1. OneAlive /\ Open' = Open /\ Alive' = Alive
    BY <1>7 DEF FireInv, Open, Alive, Landed
  <2> QED BY <1>4, <2>1 DEF OneAlive
<1> QED BY <1>3, <1>5, <1>6, <1>7 DEF FireInv

(* The manager asks the chain; it gives the window back or goes on.          *)
LEMMA ChecksKeeps ==
    ASSUME FireInv, NEW p \in Managers, ManagerChecks(p)
    PROVE  FireInv'
<1>1. FireTyped /\ HoldersClaim /\ InterventionsOnRecord /\ p \in Procs /\ p # Backstop
  BY FireClaimsAssumption DEF FireInv, Procs
<1>2. /\ step[p] = "checking" /\ UNCHANGED <<ledger, mine, txs, recorded, excuses, unaudited>>
      /\ \/ Executed /\ ReleaseClaim(p) /\ Go(p, "idle")
         \/ ~Executed /\ Go(p, "submitting") /\ claim' = claim
  BY DEF ManagerChecks
<1>3. PICK s \in {"idle", "submitting"} :
        /\ Go(p, s) /\ (s = "idle" => Executed /\ ReleaseClaim(p))
        /\ (s = "submitting" => ~Executed /\ claim' = claim)
  BY <1>2
<1>4. /\ step'[p] = s /\ (\A q \in Procs : q # p => step'[q] = step[q])
      /\ step' \in [Procs -> FireSteps]
  BY <1>1, <1>3, StepMoves DEF FireSteps
<1>5. claim' = claim \/ (s = "idle" /\ claim.owner = p /\ claim' = NoClaim)
  BY <1>3 DEF ReleaseClaim
<1>6. FireTyped'
  <2>1. claim' \in [owner : Procs \cup {"none"}, expiresAt : Nat]
    BY <1>1, <1>5 DEF FireTyped, NoClaim
  <2> QED BY <1>1, <1>2, <1>4, <2>1 DEF FireTyped
<1>7. \A q \in Procs : Holds(q)' => Holds(q) /\ (q = p => s = "submitting")
  BY <1>2, <1>4 DEF Holds
<1>8. HoldersClaim'
  <2> SUFFICES ASSUME NEW q \in Procs, Holds(q)' PROVE claim'.owner = q /\ claim'.expiresAt = mine'[q]
    BY DEF HoldersClaim
  <2>1. claim.owner = q /\ claim.expiresAt = mine[q]
    BY <1>1, <1>7 DEF HoldersClaim
  <2> QED BY <1>2, <1>5, <1>7, <2>1
<1>9. InterventionsOnRecord'
  <2>1. step'[Backstop] = step[Backstop]
    BY <1>1, <1>4 DEF Procs
  <2>2. {t \in txs' : t.by = Backstop} = {t \in txs : t.by = Backstop}
    BY <1>2
  <2> QED BY <1>1, <1>2, <2>1, <2>2 DEF InterventionsOnRecord
<1>10. ASSUME excuses' = {} PROVE OneAlive'
  <2>1. OneAlive /\ Open' = Open /\ Alive' = Alive /\ Landed' = Landed
    BY <1>2, <1>10 DEF FireInv, Open, Alive, Landed
  <2>2. s = "idle" => Open = {}
    <3> SUFFICES ASSUME s = "idle", NEW t \in Open PROVE FALSE
      OBVIOUS
    <3>1. PICK u \in Landed : TRUE
      BY <1>3 DEF Executed
    <3>2. t = u /\ t.fate = "pending" /\ u.fate = "landed"
      BY <2>1 DEF OneAlive, Alive, Open, Landed
    <3> QED BY <3>2
  <2>3. Holds(p)' => Alive' = {}
    <3> SUFFICES ASSUME Holds(p)' PROVE Alive' = {}
      OBVIOUS
    <3>1. s = "submitting" /\ Holds(p)
      BY <1>1, <1>7
    <3>2. Landed = {}
      BY <1>3, <3>1 DEF Executed
    <3>3. Open = {}
      BY <1>1, <1>2, <2>1, <3>1 DEF OneAlive
    <3> QED BY <2>1, <3>2, <3>3 DEF Alive
  <2>4. \A q \in Procs : q # p /\ Holds(q)' => Holds(q) /\ step'[q] = step[q]
    BY <1>4, <1>7
  <2>5. \A t \in Open' : claim'.expiresAt >= t.built + TxLife
    BY <1>3, <2>1, <2>2 DEF OneAlive
  <2>6. \A q \in Procs : Holds(q)' /\ step'[q] = "submitting" => Alive' = {}
    BY <2>1, <2>3, <2>4 DEF OneAlive
  <2>7. \A q \in Procs : Holds(q)' /\ step'[q] = "checking" => Open' = {}
    BY <1>4, <2>1, <2>4 DEF OneAlive
  <2> QED BY <2>1, <2>5, <2>6, <2>7 DEF OneAlive
<1> QED BY <1>6, <1>8, <1>9, <1>10 DEF FireInv

(* An image has no more elements than its domain.                            *)
LEMMA ImageAtMost ==
    ASSUME NEW S, NEW T, IsFiniteSet(S), NEW f \in [S -> T], \A y \in T : \E x \in S : f[x] = y
    PROVE  IsFiniteSet(T) /\ Cardinality(T) <= Cardinality(S)
<1>1. f \in Surjection(S, T)
  BY DEF Surjection
<1> QED BY <1>1, FS_Surjection

(* A transaction reaches the network, under a claim that covers it or with   *)
(* an excuse.                                                                *)
LEMMA SubmitKeeps ==
    ASSUME FireInv, NEW p \in Procs, SubmitSent(p)
    PROVE  FireInv'
<1>1. FireTyped /\ HoldersClaim /\ InterventionsOnRecord /\ Backstop \in Procs
  BY DEF FireInv, Procs
<1>2. /\ ledger \in Nat /\ mine[p] \in Nat /\ TxLife \in Nat /\ TxLife > 0 /\ recorded \in Nat
  BY <1>1, FireClaimsAssumption DEF FireTyped
<1>3. PICK x : x = [by |-> p, n |-> Cardinality(txs), built |-> ledger, fate |-> "pending",
                    seq |-> Cardinality({t \in Landed : t.by = p})]
  OBVIOUS
<1>4. /\ step[p] = "submitting" /\ txs' = txs \cup {x}
      /\ excuses' = excuses \cup (IF ledger + TxLife > mine[p] THEN {"overran"} ELSE {})
      /\ UNCHANGED <<ledger, claim, mine, unaudited>>
  BY <1>3 DEF SubmitSent
<1>5. PICK s \in {"idle", "polling"} :
        /\ Go(p, s) /\ (s = "polling" => recorded' = recorded) /\ (s = "idle" => Records(p))
  BY DEF SubmitSent
<1>6. /\ step'[p] = s /\ (\A q \in Procs : q # p => step'[q] = step[q])
      /\ step' \in [Procs -> FireSteps]
  BY <1>1, <1>5, StepMoves DEF FireSteps
<1>7. x \in Sent /\ x.by = p /\ x.built = ledger /\ x.fate = "pending"
  <2>1. Cardinality(txs) \in Nat
    BY <1>1, FS_CardinalityType DEF FireTyped
  <2>2. Landed \in SUBSET txs /\ {t \in Landed : t.by = p} \in SUBSET txs
    BY DEF Landed
  <2>3. Cardinality({t \in Landed : t.by = p}) \in Nat
    BY <1>1, <2>2, FS_Subset, FS_CardinalityType DEF FireTyped
  <2> QED BY <1>2, <1>3, <2>1, <2>3 DEF Sent
<1>8. recorded' \in Nat /\ (recorded' = recorded \/ recorded' = recorded + 1)
      /\ (p = Backstop /\ s = "idle" => recorded' = recorded + 1)
  BY <1>2, <1>5 DEF Records
<1>9. FireTyped'
  <2>1. IsFiniteSet(txs')
    BY <1>1, <1>4, FS_AddElement DEF FireTyped
  <2> QED BY <1>1, <1>4, <1>6, <1>7, <1>8, <2>1 DEF FireTyped
<1>10. \A q \in Procs : Holds(q)' => Holds(q)
  BY <1>4, <1>6 DEF Holds
<1>11. HoldersClaim'
  BY <1>1, <1>4, <1>10 DEF HoldersClaim
<1>12. InterventionsOnRecord'
  <2> DEFINE S == {t \in txs : t.by = Backstop}
  <2>1. IsFiniteSet(S) /\ Cardinality(S) \in Nat
    <3>1. IsFiniteSet(S)
      BY <1>1, FS_Subset DEF FireTyped
    <3> QED BY <3>1, FS_CardinalityType
  <2>2. unaudited \/ recorded + (IF step[Backstop] = "polling" THEN 1 ELSE 0) >= Cardinality(S)
    BY <1>1 DEF InterventionsOnRecord
  <2> SUFFICES ASSUME ~unaudited
               PROVE  recorded' + (IF step'[Backstop] = "polling" THEN 1 ELSE 0) >= Cardinality(S')
    BY <1>4 DEF InterventionsOnRecord
  <2>3. recorded + (IF step[Backstop] = "polling" THEN 1 ELSE 0) >= Cardinality(S)
    BY <2>2
  <2>4. CASE p = Backstop
    <3>1. S' = S \cup {x}
      BY <1>4, <1>7, <2>4
    <3>2. Cardinality(S') <= Cardinality(S) + 1 /\ Cardinality(S') \in Nat
      <4>1. Cardinality(S \cup {x}) = IF x \in S THEN Cardinality(S) ELSE Cardinality(S) + 1
        <5> HIDE DEF S
        <5> QED BY <2>1, FS_AddElement
      <4>2. Cardinality(S') = Cardinality(S \cup {x})
        BY <3>1
      <4> HIDE DEF S
      <4> QED BY <2>1, <4>1, <4>2
    <3> HIDE DEF S
    <3>3. recorded >= Cardinality(S)
      BY <1>2, <1>4, <2>1, <2>3, <2>4
    <3>4. recorded' + (IF step'[Backstop] = "polling" THEN 1 ELSE 0) = recorded + 1
      <4>1. CASE s = "polling"
        <5>1. recorded' = recorded /\ step'[Backstop] = "polling"
          BY <1>5, <1>6, <2>4, <4>1
        <5> QED BY <1>2, <5>1
      <4>2. CASE s = "idle"
        <5>1. recorded' = recorded + 1 /\ step'[Backstop] = "idle"
          BY <1>6, <1>8, <2>4, <4>2
        <5> QED BY <1>2, <5>1
      <4> QED BY <4>1, <4>2
    <3> QED BY <1>2, <2>1, <3>2, <3>3, <3>4
  <2>5. CASE p # Backstop
    <3>1. S' = S
      BY <1>4, <1>7, <2>5
    <3>2. step'[Backstop] = step[Backstop] /\ recorded' = recorded
      BY <1>1, <1>5, <1>6, <2>5 DEF Records
    <3> QED BY <2>3, <3>1, <3>2
  <2> QED BY <2>4, <2>5
<1>13. ASSUME excuses' = {} PROVE OneAlive'
  <2>1. OneAlive /\ ledger + TxLife <= mine[p]
    <3>1. excuses = {}
      BY <1>4, <1>13
    <3>2. ~(ledger + TxLife > mine[p])
      BY <1>4, <1>13
    <3> QED BY <1>2, <3>1, <3>2 DEF FireInv
  <2>2. Holds(p)
    BY <1>2, <1>4, <2>1 DEF Holds
  <2>3. Alive = {} /\ claim.owner = p /\ claim.expiresAt = mine[p]
    BY <1>1, <1>4, <2>1, <2>2 DEF OneAlive, HoldersClaim
  <2>4. Alive' \subseteq {x} /\ Open' \subseteq {x}
    BY <1>4, <2>3 DEF Alive, Open, Landed
  <2>5. \A q \in Procs : Holds(q)' => q = p
    BY <1>1, <1>10, <2>3 DEF HoldersClaim
  <2>6. \A t \in Open' : claim'.expiresAt >= t.built + TxLife
    BY <1>2, <1>4, <1>7, <2>1, <2>3, <2>4
  <2>7. \A t, u \in Alive' : t = u
    BY <2>4
  <2>8. \A q \in Procs : Holds(q)' => step'[q] \notin {"submitting", "checking"}
    BY <1>6, <2>5
  <2> QED BY <2>6, <2>7, <2>8 DEF OneAlive
<1> QED BY <1>9, <1>11, <1>12, <1>13 DEF FireInv

(* A ledger closes: it includes open transactions, of which there is one at  *)
(* most without an excuse.                                                   *)
LEMMA ClosesKeeps ==
    ASSUME FireInv, LedgerCloses
    PROVE  FireInv'
<1>1. FireTyped /\ HoldersClaim /\ InterventionsOnRecord
  BY DEF FireInv
<1>2. /\ ledger \in Nat /\ ledger' = ledger + 1 /\ TxLife \in Nat
      /\ UNCHANGED <<claim, step, mine, recorded, excuses, unaudited>>
  BY <1>1, FireClaimsAssumption DEF FireTyped, LedgerCloses
<1>3. PICK L \in SUBSET Open : txs' = (txs \ L) \cup {[t EXCEPT !.fate = "landed"] : t \in L}
  BY DEF LedgerCloses, Open
<1> DEFINE re == [t \in txs |-> IF t \in L THEN [t EXCEPT !.fate = "landed"] ELSE t]
<1>4. L \subseteq txs /\ \A t \in L : t.fate = "pending"
  BY DEF Open
<1>5. \A t \in txs : /\ re[t] \in Sent /\ re[t].by = t.by /\ re[t].built = t.built
                     /\ (t \in L => re[t].fate = "landed") /\ (t \notin L => re[t] = t)
  BY <1>1 DEF FireTyped, Sent
<1>6. txs' = {re[t] : t \in txs} /\ re \in [txs -> txs']
  <2>1. txs' = {re[t] : t \in txs}
    BY <1>3, <1>4
  <2> QED BY <2>1
<1> HIDE DEF re
<1>7. FireTyped'
  <2>1. IsFiniteSet(txs')
    <3>1. IsFiniteSet(txs) /\ \A y \in txs' : \E t \in txs : re[t] = y
      BY <1>1, <1>6 DEF FireTyped
    <3>2. re \in [txs -> txs']
      BY <1>6
    <3> QED BY <3>1, <3>2, ImageAtMost, Zenon
  <2>2. txs' \subseteq Sent
    BY <1>5, <1>6
  <2> QED BY <1>1, <1>2, <2>1, <2>2 DEF FireTyped
<1>8. \A q \in Procs : Holds(q)' => Holds(q)
  <2> SUFFICES ASSUME NEW q \in Procs, Holds(q)' PROVE Holds(q)
    OBVIOUS
  <2>1. mine[q] \in Nat
    BY <1>1 DEF FireTyped
  <2>2. mine[q] > ledger + 1 /\ step[q] \in {"checking", "submitting", "polling"}
    BY <1>2 DEF Holds
  <2> QED BY <1>2, <2>1, <2>2 DEF Holds
<1>9. HoldersClaim'
  BY <1>1, <1>2, <1>8 DEF HoldersClaim
<1>10. InterventionsOnRecord'
  <2> DEFINE S == {t \in txs : t.by = Backstop}
             f == [t \in S |-> re[t]]
  <2>1. IsFiniteSet(S) /\ Cardinality(S) \in Nat
    <3>1. IsFiniteSet(S)
      BY <1>1, FS_Subset DEF FireTyped
    <3> QED BY <3>1, FS_CardinalityType
  <2>2. f \in [S -> S'] /\ \A y \in S' : \E t \in S : f[t] = y
    BY <1>5, <1>6
  <2>3. unaudited \/ recorded + (IF step[Backstop] = "polling" THEN 1 ELSE 0) >= Cardinality(S)
    BY <1>1 DEF InterventionsOnRecord
  <2>4. recorded \in Nat
    BY <1>1 DEF FireTyped
  <2>5. IsFiniteSet(S') /\ Cardinality(S') <= Cardinality(S)
    <3> HIDE DEF S, f
    <3> QED BY <2>1, <2>2, ImageAtMost
  <2>6. Cardinality(S') \in Nat
    BY <2>5, FS_CardinalityType
  <2>7. ASSUME ~unaudited
        PROVE  recorded + (IF step[Backstop] = "polling" THEN 1 ELSE 0) >= Cardinality(S')
    <3>1. recorded + (IF step[Backstop] = "polling" THEN 1 ELSE 0) >= Cardinality(S)
      BY <2>3, <2>7
    <3>2. recorded + (IF step[Backstop] = "polling" THEN 1 ELSE 0) \in Nat
      BY <2>4
    <3>3. \A a, b, c \in Nat : a >= b /\ c <= b => a >= c
      OBVIOUS
    <3> HIDE DEF S
    <3> QED BY <2>1, <2>5, <2>6, <3>1, <3>2, <3>3
  <2> QED BY <1>2, <2>7 DEF InterventionsOnRecord
<1>11. ASSUME excuses' = {} PROVE OneAlive'
  <2>1. OneAlive
    BY <1>2, <1>11 DEF FireInv
  <2>2. \A t \in txs : t.built \in Nat
    BY <1>1 DEF FireTyped, Sent
  <2>3. \A y \in Open' : y \in Open
    <3> SUFFICES ASSUME NEW y \in Open' PROVE y \in Open
      OBVIOUS
    <3>1. PICK t \in txs : y = re[t]
      BY <1>6 DEF Open
    <3>2. y.fate = "pending" /\ ledger + 1 < y.built + TxLife
      BY <1>2 DEF Open
    <3>3. y = t
      BY <1>5, <3>1, <3>2
    <3> QED BY <1>2, <2>2, <3>1, <3>2, <3>3 DEF Open
  <2>4. \A y \in Alive' : \E t \in Alive : y = re[t]
    <3> SUFFICES ASSUME NEW y \in Alive' PROVE \E t \in Alive : y = re[t]
      OBVIOUS
    <3>1. PICK t \in txs : y = re[t]
      BY <1>6 DEF Alive, Open, Landed
    <3>2. CASE t \in L
      BY <3>1, <3>2 DEF Alive
    <3>3. CASE t \notin L
      <4>1. y = t
        BY <1>5, <3>1, <3>3
      <4>2. CASE y \in Open'
        BY <2>3, <3>1, <4>1, <4>2 DEF Alive
      <4>3. CASE y \in Landed'
        <5>1. t \in Landed
          BY <3>1, <4>1, <4>3 DEF Landed
        <5> QED BY <3>1, <5>1 DEF Alive
      <4> QED BY <4>2, <4>3 DEF Alive
    <3> QED BY <3>2, <3>3
  <2>5. \A t, u \in Alive' : t = u
    BY <2>1, <2>4 DEF OneAlive
  <2>6. \A q \in Procs : Holds(q)' /\ step'[q] = "submitting" => Alive' = {}
    BY <1>2, <1>8, <2>1, <2>4 DEF OneAlive
  <2>7. \A q \in Procs : Holds(q)' /\ step'[q] = "checking" => Open' = {}
    BY <1>2, <1>8, <2>1, <2>3 DEF OneAlive
  <2>8. \A t \in Open' : claim'.expiresAt >= t.built + TxLife
    BY <1>2, <2>1, <2>3 DEF OneAlive
  <2> QED BY <2>5, <2>6, <2>7, <2>8 DEF OneAlive
<1> QED BY <1>7, <1>9, <1>10, <1>11 DEF FireInv

(* Every step of the processes and of the network.                           *)
LEMMA FireStep ==
    ASSUME FireInv, [FireNext]_fireVars
    PROVE  FireInv'
<1>1. FireTyped /\ recorded \in Nat /\ unaudited \in BOOLEAN /\ Backstop \in Procs
      /\ Managers \subseteq Procs /\ Planners \subseteq Procs
  BY DEF FireInv, FireTyped, Procs
<1>2. CASE UNCHANGED fireVars
  BY <1>2 DEF fireVars, FireInv, FireTyped, HoldersClaim, Holds, InterventionsOnRecord, OneAlive,
              Alive, Open, Landed
<1>3. ASSUME NEW p \in Managers, ManagerClaims(p) PROVE FireInv'
  BY <1>1, <1>3, ClaimKeeps DEF ManagerClaims
<1>4. ASSUME NEW p \in Managers, ManagerChecks(p) PROVE FireInv'
  BY <1>4, ChecksKeeps
<1>5. ASSUME NEW p \in Planners, PlannerClaims(p) PROVE FireInv'
  <2>1. excuses' = {} => Landed = {}
    BY <1>5 DEF PlannerClaims, Landed
  <2>2. /\ Claim(p) /\ Go(p, "submitting") /\ UNCHANGED <<ledger, txs, recorded, unaudited>>
        /\ excuses \subseteq excuses' /\ step[p] # "polling"
    BY <1>5 DEF PlannerClaims
  <2> QED BY <1>1, <2>1, <2>2, ClaimKeeps
<1>6. CASE BackstopAsks
  <2>1. /\ Go(Backstop, "missed") /\ step[Backstop] = "idle"
        /\ UNCHANGED <<ledger, claim, mine, txs, excuses, recorded, unaudited>>
    BY <1>6 DEF BackstopAsks
  <2>2. recorded >= recorded
    BY <1>1
  <2> QED BY <1>1, <2>1, <2>2, DoneKeeps
<1>7. CASE BackstopClaims
  <2>1. /\ step[Backstop] = "missed" /\ UNCHANGED <<ledger, txs, recorded, unaudited>>
        /\ excuses' = excuses \cup (IF MayClaim /\ Landed # {} THEN {"stale verdict"} ELSE {})
    BY <1>7 DEF BackstopClaims
  <2>2. CASE MayClaim
    <3>1. Claim(Backstop) /\ Go(Backstop, "submitting")
      BY <1>7, <2>2 DEF BackstopClaims
    <3>2. excuses' = {} => Landed = {}
      BY <2>1, <2>2
    <3> QED BY <1>1, <2>1, <3>1, <3>2, ClaimKeeps
  <2>3. CASE ~MayClaim
    <3>1. Go(Backstop, "idle") /\ UNCHANGED <<claim, mine>> /\ excuses' = excuses
      BY <1>7, <2>1, <2>3 DEF BackstopClaims
    <3>2. recorded >= recorded
      BY <1>1
    <3> QED BY <1>1, <2>1, <3>1, <3>2, DoneKeeps
  <2> QED BY <2>2, <2>3
<1>8. ASSUME NEW p \in Procs, SubmitRefused(p) \/ PollEnds(p) PROVE FireInv'
  <2>1. /\ Go(p, "idle") /\ Records(p)
        /\ UNCHANGED <<ledger, claim, mine, txs, excuses, unaudited>>
    BY <1>8 DEF SubmitRefused, PollEnds
  <2>2. /\ recorded' \in Nat /\ recorded' >= recorded /\ (p = Backstop => recorded' = recorded + 1)
    BY <1>1, <2>1 DEF Records
  <2> QED BY <1>1, <2>1, <2>2, DoneKeeps
<1>9. ASSUME NEW p \in Procs, Crash(p) PROVE FireInv'
  <2>1. /\ Go(p, "idle") /\ UNCHANGED <<ledger, claim, mine, txs, excuses, recorded>>
        /\ unaudited' = (unaudited \/ (p = Backstop /\ step[p] = "polling"))
    BY <1>9 DEF Crash
  <2>2. recorded >= recorded
    BY <1>1
  <2>3. /\ unaudited' \in BOOLEAN /\ (unaudited => unaudited')
        /\ (p = Backstop /\ step[p] = "polling" => unaudited')
    BY <2>1
  <2> QED BY <1>1, <2>1, <2>2, <2>3, DoneKeeps
<1>10. ASSUME NEW p \in Procs, SubmitSent(p) PROVE FireInv'
  BY <1>10, SubmitKeeps
<1>11. CASE LedgerCloses
  BY <1>11, ClosesKeeps
<1> QED BY <1>2, <1>3, <1>4, <1>5, <1>6, <1>7, <1>8, <1>9, <1>10, <1>11 DEF FireNext

(* The claims of a worker's window, for any number of managers and planners, *)
(* any claim and transaction lifetimes and any crashes: the window fires at  *)
(* most once, unless one of the three excuses applies, two processes never   *)
(* work under unexpired claims, and the backstop's interventions are on      *)
(* record unless it died first.                                              *)
THEOREM WindowFiresOnce == FireSpec => []FiresAccounted
<1>1. FireInit => FireInv
  <2> SUFFICES ASSUME FireInit PROVE FireInv
    OBVIOUS
  <2>1. /\ ledger = 0 /\ claim = NoClaim /\ txs = {} /\ recorded = 0 /\ unaudited = FALSE
        /\ step = [p \in Procs |-> "idle"] /\ mine = [p \in Procs |-> 0]
    BY DEF FireInit
  <2>2. IsFiniteSet({}) /\ Cardinality({}) = 0
    BY FS_EmptySet
  <2>3. FireTyped
    BY <2>1, <2>2 DEF FireTyped, NoClaim, FireSteps
  <2>4. \A p \in Procs : ~Holds(p)
    BY <2>1 DEF Holds
  <2>5. InterventionsOnRecord
    <3>1. {t \in txs : t.by = Backstop} = {} /\ step[Backstop] # "polling"
      BY <2>1 DEF Procs
    <3> QED BY <2>1, <2>2, <3>1 DEF InterventionsOnRecord
  <2>6. OneAlive
    BY <2>1, <2>4 DEF OneAlive, Alive, Open, Landed
  <2> QED BY <2>3, <2>4, <2>5, <2>6 DEF FireInv, HoldersClaim
<1>2. FireInv /\ [FireNext]_fireVars => FireInv'
  BY FireStep
<1>3. FireInv => FiresAccounted
  <2> SUFFICES ASSUME FireInv PROVE FiresAccounted
    OBVIOUS
  <2>1. FiresOnce
    <3> SUFFICES ASSUME excuses = {} PROVE Cardinality(Landed) <= 1
      BY DEF FiresOnce
    <3>1. \A t, u \in Landed : t = u
      BY DEF FireInv, OneAlive, Alive
    <3> QED BY <3>1, AtMostOne
  <2>2. OneHolder
    BY DEF FireInv, HoldersClaim, Holds, OneHolder
  <2> QED BY <2>1, <2>2 DEF FiresAccounted, FireInv
<1> QED BY <1>1, <1>2, <1>3, PTL DEF FireSpec

-----------------------------------------------------------------------------
(* SubscriptionService                                                       *)

ServiceCalls == {"create", "pause", "resume", "cancel", "change-tier"}
Statuses   == {"none", "active", "paused", "cancelled"}
AnyTier    == Tiers \cup {"none"}
AuditEntry == [action : ServiceCalls, from : Statuses, to : Statuses, version : Nat, tier : AnyTier,
               window : Nat]
Terms      == [status : Statuses, tier : AnyTier, version : Nat, cancelFrom : Nat,
               audit : Seq(AuditEntry)]

(* Two entries that follow each other in a trail.                            *)
Follows(e, d) ==
    /\ e.from = d.to /\ e.window >= d.window
    /\ e.version - d.version = IF e.tier # d.tier THEN 1 ELSE 0

(* What AuditReplays says of the stored record, of any record; and no entry  *)
(* is of a window to come.                                                   *)
Replays(r) ==
    /\ r \in Terms
    /\ \A n \in 1..Len(r.audit) : r.audit[n].window <= window
    /\ \A n \in 2..Len(r.audit) : Follows(r.audit[n], r.audit[n - 1])
    /\ r.audit # <<>> =>
          LET last == r.audit[Len(r.audit)] IN
          /\ last.to = r.status /\ last.tier = r.tier /\ last.version = r.version
          /\ r.status = "cancelled" => r.cancelFrom = last.window + 1

(* A call puts the record it has read with one entry more.                   *)
AddsOneEntry(seen, put) ==
    /\ seen.status # "cancelled" /\ put.audit # <<>>
    /\ put.audit = Append(seen.audit, put.audit[Len(put.audit)])
    /\ put.audit[Len(put.audit)].action = "cancel" => put.status = "cancelled"

(* The records that calls are about to put replay as the stored one does:    *)
(* only so does it replay whichever of them comes last.                      *)
ServiceInv ==
    /\ window \in Nat /\ DOMAIN request = Clients
    /\ Replays(record) /\ (record = NoRecord \/ record.audit # <<>>)
    /\ \A c \in Clients : \/ request[c] = NoPut
                          \/ /\ Replays(request[c].put)
                             /\ AddsOneEntry(request[c].seen, request[c].put)
    /\ TrailKept

(* Time makes no record stop replaying.                                      *)
LEMMA ReplaysLater ==
    ASSUME NEW r, Replays(r), window \in Nat, window' \in Nat, window' >= window
    PROVE  Replays(r)'
<1>1. \A n \in 1..Len(r.audit) : r.audit[n].window <= window'
  <2> SUFFICES ASSUME NEW n \in 1..Len(r.audit) PROVE r.audit[n].window <= window'
    OBVIOUS
  <2>1. r.audit \in Seq(AuditEntry) /\ r.audit[n].window <= window
    BY DEF Replays, Terms
  <2>2. r.audit[n] \in AuditEntry
    BY <2>1
  <2>3. r.audit[n].window \in Nat
    BY <2>2 DEF AuditEntry
  <2> QED BY <2>1, <2>3
<1> QED BY <1>1 DEF Replays

(* The record a call is about to put: what it has read with new terms, and   *)
(* an entry that says which.                                                 *)
LEMMA OneEntryMore ==
    ASSUME window \in Nat, NEW old, Replays(old), old.audit # <<>>, old.status # "cancelled",
           NEW action \in ServiceCalls, NEW new \in Terms, new.audit = old.audit,
           new.version - old.version = IF new.tier # old.tier THEN 1 ELSE 0,
           new.status = "cancelled" => new.cancelFrom = window + 1,
           action = "cancel" => new.status = "cancelled",
           NEW put, put = [new EXCEPT !.audit = Trail(@, Entry(action, old, new))]
    PROVE  Replays(put) /\ AddsOneEntry(old, put)
<1>1. PICK e : e = Entry(action, old, new)
  OBVIOUS
<1>2. /\ e \in AuditEntry /\ e.action = action /\ e.from = old.status /\ e.to = new.status
      /\ e.version = new.version /\ e.tier = new.tier /\ e.window = window
  BY <1>1 DEF Entry, AuditEntry, Terms, Replays
<1>3. PICK a : a = old.audit
  OBVIOUS
<1>4. a \in Seq(AuditEntry) /\ a # <<>> /\ Len(a) \in Nat /\ Len(a) >= 1
  BY <1>3 DEF Replays, Terms
<1>5. /\ put \in Terms /\ put.audit = Append(a, e) /\ put.status = new.status
      /\ put.tier = new.tier /\ put.version = new.version /\ put.cancelFrom = new.cancelFrom
  <2>1. put = [new EXCEPT !.audit = Append(a, e)] /\ Append(a, e) \in Seq(AuditEntry)
    BY <1>1, <1>2, <1>3, <1>4 DEF Trail, Terms
  <2> QED BY <2>1 DEF Terms
<1>6. /\ Len(put.audit) = Len(a) + 1 /\ put.audit[Len(a) + 1] = e
      /\ \A n \in 1..Len(a) : put.audit[n] = a[n]
  BY <1>2, <1>4, <1>5
<1>7. a[Len(a)] \in AuditEntry /\ \A n \in 1..Len(a) : a[n] \in AuditEntry
  BY <1>4
<1>8. /\ a[Len(a)].to = old.status /\ a[Len(a)].tier = old.tier
      /\ a[Len(a)].version = old.version /\ a[Len(a)].window <= window
  BY <1>3, <1>4 DEF Replays
<1>9. Follows(e, a[Len(a)])
  BY <1>2, <1>7, <1>8 DEF Follows, AuditEntry
<1>10. \A n \in 2..Len(put.audit) : Follows(put.audit[n], put.audit[n - 1])
  <2> SUFFICES ASSUME NEW n \in 2..Len(put.audit) PROVE Follows(put.audit[n], put.audit[n - 1])
    OBVIOUS
  <2>1. CASE n = Len(a) + 1
    <3>1. n - 1 = Len(a) /\ n - 1 \in 1..Len(a)
      BY <1>4, <2>1
    <3> QED BY <1>6, <1>9, <2>1, <3>1
  <2>2. CASE n # Len(a) + 1
    <3>1. n \in 2..Len(a) /\ n \in 1..Len(a) /\ n - 1 \in 1..Len(a)
      BY <1>4, <1>6, <2>2
    <3>2. Follows(a[n], a[n - 1])
      BY <1>3, <3>1 DEF Replays
    <3> QED BY <1>6, <3>1, <3>2
  <2> QED BY <2>1, <2>2
<1>11. \A n \in 1..Len(put.audit) : put.audit[n].window <= window
  <2> SUFFICES ASSUME NEW n \in 1..Len(put.audit) PROVE put.audit[n].window <= window
    OBVIOUS
  <2>1. CASE n = Len(a) + 1
    BY <1>2, <1>6, <2>1
  <2>2. CASE n # Len(a) + 1
    <3>1. n \in 1..Len(a)
      BY <1>4, <1>6, <2>2
    <3> QED BY <1>3, <1>6, <3>1 DEF Replays
  <2> QED BY <2>1, <2>2
<1>12. put.audit[Len(put.audit)] = e /\ put.audit # <<>>
  BY <1>4, <1>6
<1>13. Replays(put)
  BY <1>2, <1>5, <1>10, <1>11, <1>12 DEF Replays
<1>14. AddsOneEntry(old, put)
  BY <1>2, <1>3, <1>5, <1>12 DEF AddsOneEntry
<1> QED BY <1>13, <1>14

(* A call reads the record and makes a new one of it.                        *)
LEMMA GetsKeeps ==
    ASSUME ServiceInv, NEW c \in Clients, NEW action \in ServiceCalls, NEW new,
           Gets(c, action, new), new \in Terms, new.audit = record.audit,
           new.version - record.version = IF new.tier # record.tier THEN 1 ELSE 0,
           new.status = "cancelled" => new.cancelFrom = window + 1,
           action = "cancel" => new.status = "cancelled"
    PROVE  ServiceInv'
<1>1. PICK put : put = [new EXCEPT !.audit = Trail(@, Entry(action, record, new))]
  OBVIOUS
<1>2. /\ record # NoRecord /\ record.status # "cancelled" /\ UNCHANGED <<record, window, resolved, crossed>>
      /\ request' = [request EXCEPT ![c] = [seen |-> record, put |-> put]]
  BY <1>1 DEF Gets
<1>3. Replays(put) /\ AddsOneEntry(record, put)
  <2>1. window \in Nat /\ Replays(record) /\ record.audit # <<>>
    BY <1>2 DEF ServiceInv
  <2> HIDE DEF ServiceInv, Gets
  <2> QED BY <1>1, <1>2, <2>1, OneEntryMore
<1>4. Replays(put)' /\ Replays(record)'
  BY <1>2, <1>3 DEF ServiceInv, Replays
<1>5. \A d \in Clients : \/ request'[d] = NoPut
                         \/ /\ Replays(request[d].put)'
                            /\ AddsOneEntry(request[d].seen, request[d].put)'
  <2> SUFFICES ASSUME NEW d \in Clients, request'[d] # NoPut
               PROVE  /\ Replays(request[d].put)'
                      /\ AddsOneEntry(request[d].seen, request[d].put)'
    OBVIOUS
  <2>1. CASE d = c
    <3>1. request'[d].put = put /\ request'[d].seen = record
      BY <1>2, <2>1 DEF ServiceInv
    <3> QED BY <1>3, <1>4, <3>1 DEF Replays, AddsOneEntry
  <2>2. CASE d # c
    <3>1. request'[d] = request[d]
      BY <1>2, <2>2 DEF ServiceInv
    <3>2. Replays(request[d].put) /\ AddsOneEntry(request[d].seen, request[d].put)
      BY <3>1 DEF ServiceInv
    <3> QED BY <1>2, <3>1, <3>2 DEF Replays, AddsOneEntry
  <2> QED BY <2>1, <2>2
<1>6. TrailKept' /\ DOMAIN request' = Clients
  BY <1>2 DEF ServiceInv, TrailKept
<1> QED BY <1>2, <1>4, <1>5, <1>6 DEF ServiceInv

(* A call puts its record back.                                              *)
LEMMA PutsKeeps ==
    ASSUME ServiceInv, NEW c \in Clients, Puts(c)
    PROVE  ServiceInv'
<1>1. PICK r : r = request[c]
  OBVIOUS
<1>2. /\ r # NoPut /\ record' = r.put /\ window' = window
      /\ resolved' = resolved \cup {r.put.audit[Len(r.put.audit)]}
      /\ crossed' = (crossed \/ record # r.seen)
      /\ request' = [request EXCEPT ![c] = NoPut]
  BY <1>1 DEF Puts
<1>3. Replays(r.put) /\ AddsOneEntry(r.seen, r.put) /\ r.put.audit # <<>>
  BY <1>1, <1>2 DEF ServiceInv, AddsOneEntry
<1>4. Replays(record)' /\ record'.audit # <<>>
  BY <1>2, <1>3 DEF Replays
<1>5. \A d \in Clients : \/ request'[d] = NoPut
                         \/ /\ Replays(request[d].put)'
                            /\ AddsOneEntry(request[d].seen, request[d].put)'
  <2> SUFFICES ASSUME NEW d \in Clients, request'[d] # NoPut
               PROVE  /\ Replays(request[d].put)'
                      /\ AddsOneEntry(request[d].seen, request[d].put)'
    OBVIOUS
  <2>1. request'[d] = request[d]
    BY <1>2 DEF ServiceInv
  <2>2. Replays(request[d].put) /\ AddsOneEntry(request[d].seen, request[d].put)
    BY <2>1 DEF ServiceInv
  <2> QED BY <1>2, <2>1, <2>2 DEF Replays, AddsOneEntry
<1>6. TrailKept'
  <2> SUFFICES ASSUME ~crossed'
               PROVE  /\ resolved' \subseteq {record'.audit[n] : n \in DOMAIN record'.audit}
                      /\ \A e \in resolved' : e.action = "cancel" => record'.status = "cancelled"
    BY DEF TrailKept
  <2>1. ~crossed /\ r.seen = record
    BY <1>2
  <2>2. PICK e : e = r.put.audit[Len(r.put.audit)]
    OBVIOUS
  <2>3. PICK a : a = record.audit
    OBVIOUS
  <2>4. a \in Seq(AuditEntry) /\ record'.audit = Append(a, e) /\ e \in AuditEntry
    <3>1. a \in Seq(AuditEntry) /\ record'.audit = Append(a, e)
      BY <1>2, <1>3, <2>1, <2>2, <2>3 DEF AddsOneEntry, ServiceInv, Replays, Terms
    <3>2. r.put.audit \in Seq(AuditEntry) /\ r.put.audit # <<>>
      BY <1>3 DEF Replays, Terms
    <3> QED BY <2>2, <3>1, <3>2
  <2>5. resolved \subseteq {a[n] : n \in DOMAIN a} /\ \A d \in resolved : d.action # "cancel"
    BY <1>3, <2>1, <2>3 DEF ServiceInv, TrailKept, AddsOneEntry
  <2>6. resolved' = resolved \cup {e}
    BY <1>2, <2>2
  <2>7. e.action = "cancel" => record'.status = "cancelled"
    BY <1>2, <1>3, <2>2 DEF AddsOneEntry
  <2>8. /\ DOMAIN a = 1..Len(a) /\ DOMAIN record'.audit = 1..(Len(a) + 1) /\ Len(a) \in Nat
        /\ record'.audit[Len(a) + 1] = e /\ \A n \in 1..Len(a) : record'.audit[n] = a[n]
    BY <2>4
  <2>9. resolved' \subseteq {record'.audit[n] : n \in DOMAIN record'.audit}
    BY <2>5, <2>6, <2>8
  <2> QED BY <2>5, <2>6, <2>7, <2>9
<1> QED BY <1>2, <1>4, <1>5, <1>6 DEF ServiceInv

(* A new record.                                                             *)
LEMMA CreateKeeps ==
    ASSUME ServiceInv, NEW t \in Tiers, Create(t)
    PROVE  ServiceInv'
<1>1. PICK e : e = [action |-> "create", from |-> "none", to |-> "active", version |-> 1,
                    tier |-> t, window |-> window]
  OBVIOUS
<1>2. /\ record' = [status |-> "active", tier |-> t, version |-> 1, cancelFrom |-> 0, audit |-> <<e>>]
      /\ resolved' = {e} /\ UNCHANGED <<request, window, crossed>>
  BY <1>1 DEF Create, NoRecord, Entry
<1>3. /\ record'.audit = <<e>> /\ Len(record'.audit) = 1 /\ record'.audit[1] = e
      /\ record'.status = "active" /\ record'.tier = t /\ record'.version = 1
      /\ DOMAIN record'.audit = {1}
  BY <1>2
<1>4. window \in Nat /\ e \in AuditEntry
  <2>1. window \in Nat
    BY DEF ServiceInv
  <2>2. "create" \in ServiceCalls /\ {"none", "active"} \subseteq Statuses /\ t \in AnyTier
    BY DEF Statuses, AnyTier, ServiceCalls
  <2> QED BY <1>1, <2>1, <2>2 DEF AuditEntry
<1>5. record' \in Terms
  BY <1>2, <1>4 DEF Terms, Statuses, AnyTier
<1>6. Replays(record)' /\ record'.audit # <<>>
  <2>1. e.to = "active" /\ e.tier = t /\ e.version = 1 /\ e.window = window
    BY <1>1
  <2> QED BY <1>2, <1>3, <1>4, <1>5, <2>1 DEF Replays
<1>7. TrailKept'
  BY <1>1, <1>2, <1>3 DEF TrailKept
<1>8. \A d \in Clients : \/ request'[d] = NoPut
                         \/ /\ Replays(request[d].put)'
                            /\ AddsOneEntry(request[d].seen, request[d].put)'
  BY <1>2 DEF ServiceInv, Replays, AddsOneEntry
<1> QED BY <1>2, <1>6, <1>7, <1>8 DEF ServiceInv

(* The next window begins.                                                   *)
LEMMA WindowKeeps == ASSUME ServiceInv, NextWindow PROVE ServiceInv'
<1>1. window \in Nat /\ window' \in Nat /\ window' >= window
      /\ UNCHANGED <<record, request, resolved, crossed>>
  BY DEF ServiceInv, NextWindow
<1>2. \A r : Replays(r) => Replays(r)'
  BY <1>1, ReplaysLater
<1>3. Replays(record)'
  BY <1>1, <1>2 DEF ServiceInv, Replays
<1>4. \A d \in Clients : \/ request'[d] = NoPut
                         \/ /\ Replays(request[d].put)'
                            /\ AddsOneEntry(request[d].seen, request[d].put)'
  <2> SUFFICES ASSUME NEW d \in Clients, request[d] # NoPut
               PROVE  /\ Replays(request[d].put)'
                      /\ AddsOneEntry(request[d].seen, request[d].put)'
    BY <1>1
  <2>1. PICK p : p = request[d].put
    OBVIOUS
  <2>2. Replays(p)' /\ request'[d].put = p
    BY <1>1, <1>2, <2>1 DEF ServiceInv
  <2> QED BY <1>1, <2>2 DEF ServiceInv, Replays, AddsOneEntry
<1>5. TrailKept'
  BY <1>1 DEF ServiceInv, TrailKept
<1> QED BY <1>1, <1>3, <1>4, <1>5 DEF ServiceInv

(* Every step of the subscription service keeps the invariant.               *)
LEMMA ServiceStep ==
    ASSUME ServiceInv, [ServiceNext]_serviceVars
    PROVE  ServiceInv'
<1>1. record \in Terms /\ window \in Nat
  BY DEF ServiceInv, Replays
<1>2. ASSUME NEW c \in Clients, Pause(c) PROVE ServiceInv'
  <2>1. PICK new : new = [record EXCEPT !.status = "paused"]
    OBVIOUS
  <2>2. /\ new \in Terms /\ new.audit = record.audit /\ new.status = "paused"
        /\ new.tier = record.tier /\ new.version - record.version = 0
    BY <1>1, <2>1 DEF Terms, Statuses
  <2>3. Gets(c, "pause", new)
    BY <1>2, <2>1 DEF Pause
  <2>4. /\ new.version - record.version = IF new.tier # record.tier THEN 1 ELSE 0
        /\ (new.status = "cancelled" => new.cancelFrom = window + 1)
        /\ ("pause" = "cancel" => new.status = "cancelled") /\ "pause" \in ServiceCalls
    BY <2>2 DEF ServiceCalls
  <2> QED BY <2>2, <2>3, <2>4, GetsKeeps
<1>3. ASSUME NEW c \in Clients, Resume(c) PROVE ServiceInv'
  <2>1. PICK new : new = [record EXCEPT !.status = "active"]
    OBVIOUS
  <2>2. /\ new \in Terms /\ new.audit = record.audit /\ new.status = "active"
        /\ new.tier = record.tier /\ new.version - record.version = 0
    BY <1>1, <2>1 DEF Terms, Statuses
  <2>3. Gets(c, "resume", new)
    BY <1>3, <2>1 DEF Resume
  <2>4. /\ new.version - record.version = IF new.tier # record.tier THEN 1 ELSE 0
        /\ (new.status = "cancelled" => new.cancelFrom = window + 1)
        /\ ("resume" = "cancel" => new.status = "cancelled") /\ "resume" \in ServiceCalls
    BY <2>2 DEF ServiceCalls
  <2> QED BY <2>2, <2>3, <2>4, GetsKeeps
<1>4. ASSUME NEW c \in Clients, CancelSubscription(c) PROVE ServiceInv'
  <2>1. PICK new : new = [record EXCEPT !.status = "cancelled", !.cancelFrom = window + 1]
    OBVIOUS
  <2>2. /\ new \in Terms /\ new.audit = record.audit /\ new.status = "cancelled"
        /\ new.cancelFrom = window + 1
        /\ new.tier = record.tier /\ new.version - record.version = 0
    <3>1. "cancelled" \in Statuses /\ window + 1 \in Nat
      BY <1>1 DEF Statuses
    <3>2. record.version \in Nat
      BY <1>1 DEF Terms
    <3>3. new.version = record.version
      BY <1>1, <2>1 DEF Terms
    <3>4. new \in Terms /\ new.audit = record.audit /\ new.tier = record.tier
      BY <1>1, <2>1, <3>1 DEF Terms
    <3>5. new.status = "cancelled" /\ new.cancelFrom = window + 1
      BY <1>1, <2>1 DEF Terms
    <3> QED BY <3>2, <3>3, <3>4, <3>5
  <2>3. Gets(c, "cancel", new)
    BY <1>4, <2>1 DEF CancelSubscription
  <2>4. /\ new.version - record.version = IF new.tier # record.tier THEN 1 ELSE 0
        /\ (new.status = "cancelled" => new.cancelFrom = window + 1)
        /\ ("cancel" = "cancel" => new.status = "cancelled") /\ "cancel" \in ServiceCalls
    BY <2>2 DEF ServiceCalls
  <2> QED BY <2>2, <2>3, <2>4, GetsKeeps
<1>5. ASSUME NEW c \in Clients, NEW t \in Tiers, ChangeTier(c, t) PROVE ServiceInv'
  <2>1. PICK new : new = [record EXCEPT !.tier = t, !.version = @ + 1]
    OBVIOUS
  <2>2. Gets(c, "change-tier", new) /\ t # record.tier
    BY <1>5, <2>1 DEF ChangeTier
  <2>3. /\ new \in Terms /\ new.audit = record.audit /\ new.status = record.status
        /\ new.tier = t /\ new.version - record.version = 1
    <3>1. t \in AnyTier /\ record.version \in Nat /\ record.version + 1 \in Nat
      BY <1>1 DEF Terms, AnyTier
    <3>2. new.version = record.version + 1
      BY <1>1, <2>1 DEF Terms
    <3>3. new \in Terms /\ new.audit = record.audit /\ new.status = record.status /\ new.tier = t
      BY <1>1, <2>1, <3>1 DEF Terms
    <3> QED BY <3>1, <3>2, <3>3
  <2>4. new.status # "cancelled"
    BY <2>2, <2>3 DEF Gets
  <2>5. /\ new.version - record.version = IF new.tier # record.tier THEN 1 ELSE 0
        /\ (new.status = "cancelled" => new.cancelFrom = window + 1)
        /\ ("change-tier" = "cancel" => new.status = "cancelled") /\ "change-tier" \in ServiceCalls
    BY <2>2, <2>3, <2>4 DEF ServiceCalls
  <2> QED BY <2>2, <2>3, <2>5, GetsKeeps
<1>6. CASE UNCHANGED serviceVars
  <2>1. UNCHANGED <<record, request, window, resolved, crossed>>
    BY <1>6 DEF serviceVars
  <2> QED BY <2>1 DEF ServiceInv, Replays, AddsOneEntry, TrailKept
<1> QED BY <1>2, <1>3, <1>4, <1>5, <1>6, PutsKeeps, CreateKeeps, WindowKeeps DEF ServiceNext

(* Whatever calls run between a call's get and its put, the stored audit     *)
(* trail replays to the terms in force, and unless a record was put in       *)
(* between, every call that resolved stays on it and nothing follows a       *)
(* cancel (SubscriptionService.ts, store.put).                               *)
THEOREM TermsAreReplayable == ServiceSpec => []TermsReplayable
<1>1. ServiceInit => ServiceInv
  <2> SUFFICES ASSUME ServiceInit PROVE ServiceInv
    OBVIOUS
  <2>1. NoRecord \in Terms /\ NoRecord.audit = <<>>
    BY DEF NoRecord, Terms, Statuses, AnyTier
  <2>2. record = NoRecord /\ window = 0 /\ request = [c \in Clients |-> NoPut] /\ resolved = {}
    BY DEF ServiceInit
  <2>3. Replays(record)
    BY <2>1, <2>2 DEF Replays
  <2> QED BY <2>2, <2>3 DEF ServiceInv, TrailKept
<1>2. ServiceInv /\ [ServiceNext]_serviceVars => ServiceInv'
  BY ServiceStep
<1>3. ServiceInv => TermsReplayable
  <2> SUFFICES ASSUME ServiceInv PROVE AuditReplays
    BY DEF TermsReplayable, ServiceInv
  <2>1. Replays(record)
    BY DEF ServiceInv
  <2> QED BY <2>1 DEF Replays, Follows, AuditReplays
<1> QED BY <1>1, <1>2, <1>3, PTL DEF ServiceSpec

-----------------------------------------------------------------------------
(* WorkerState                                                               *)

MaybeFire == Fires \cup {Nothing}
StoreDoc  == [there : BOOLEAN, fires : Seq(Fires), claimed : BOOLEAN, last : MaybeFire]
StoreCall == [op : {"register", "append", "claim", "release", Nothing},
              at : {"idle", "read", "write", "update"}, arg : MaybeFire, seen : StoreDoc,
              known : BOOLEAN]

StateTyped ==
    /\ doc \in StoreDoc /\ history \in Seq(Fires) /\ claimed \in BOOLEAN /\ row \in StoreDoc
    /\ call \in [Writers -> StoreCall] /\ dies \in Nat /\ callsMet \in BOOLEAN
    /\ todo \subseteq Fires
    /\ \A w \in Writers : /\ call[w].at = "idle" => call[w] = NoCall
                          /\ call[w].op = "append" => call[w].arg \in Fires
                          /\ call[w].op = Nothing => call[w] = NoCall
    /\ ~doc.there => doc = Missing

(* An append that has inserted its record, and resolves next.                *)
Inserted(w) == call[w].at = "update" /\ call[w].op = "append"

(* The insert-only history keeps what it was given, whatever the calls do.   *)
RowsKept ==
    /\ \A s \in written : s[1] = "rows" => s[2] \in InOrder(history)
    /\ \A w \in Writers : Inserted(w) /\ call[w].known => call[w].arg \in InOrder(history)

(* As long as no two calls met, the one under way has read the document as   *)
(* it still is, and so puts nothing back that is older.                      *)
OneCall ==
    /\ \A v, w \in Writers : call[v] # NoCall /\ call[w] # NoCall => v = w
    /\ \A w \in Writers : /\ call[w].at = "write" => call[w].seen = doc
                          /\ call[w].at = "write" /\ call[w].op = "register" => ~doc.there
                          /\ Inserted(w) /\ call[w].seen.there => call[w].arg \in InOrder(doc.fires)
    /\ \A s \in written : s[1] # "rows" => s[2] \in InOrder(doc.fires)

(* As long as none was cut short either, the worker is registered in both    *)
(* kinds of store or in neither, but for the middle of registerWorker.       *)
Agreeing ==
    /\ doc.fires = history /\ doc.claimed = claimed
    /\ \/ doc.there = row.there
       \/ \E w \in Writers : call[w].op = "register" /\ call[w].at = "write"
    /\ \A w \in Writers :
          /\ call[w].op = "register" /\ call[w].at = "write" => row.there
          /\ call[w].op \in {"append", "claim", "release"} /\ call[w].at \in {"write", "update"}
                => call[w].known /\ call[w].seen.there
          /\ Inserted(w) => history # <<>> /\ history[Len(history)] = call[w].arg

StateInv ==
    /\ StateTyped /\ RowsKept
    /\ ~callsMet => OneCall
    /\ ~callsMet /\ dies = 0 => Agreeing /\ LastFiredIsLast

(* What appending a record does to a history.                                *)
LEMMA OneFireMore ==
    ASSUME NEW s \in Seq(Fires), NEW x \in Fires
    PROVE  /\ Append(s, x) \in Seq(Fires) /\ Append(s, x) # <<>>
           /\ Append(s, x)[Len(Append(s, x))] = x
           /\ InOrder(Append(s, x)) = InOrder(s) \cup {x}
<1>1. /\ Len(Append(s, x)) = Len(s) + 1 /\ Append(s, x)[Len(s) + 1] = x /\ Len(s) \in Nat
      /\ Append(s, x) \in Seq(Fires) /\ DOMAIN s = 1..Len(s)
      /\ \A n \in 1..Len(s) : Append(s, x)[n] = s[n]
      /\ DOMAIN Append(s, x) = 1..(Len(s) + 1)
  OBVIOUS
<1>2. DOMAIN Append(s, x) = DOMAIN s \cup {Len(s) + 1}
  BY <1>1
<1>3. InOrder(Append(s, x)) = InOrder(s) \cup {x}
  BY <1>1, <1>2 DEF InOrder
<1>4. Append(s, x) # <<>>
  <2>1. Len(<<>>) = 0
    OBVIOUS
  <2> QED BY <1>1, <2>1
<1> QED BY <1>1, <1>3, <1>4

(* The values that stand for nothing.                                        *)
LEMMA NothingTyped ==
    /\ Missing \in StoreDoc /\ Fresh \in StoreDoc /\ NoCall \in StoreCall
    /\ Missing.fires = <<>> /\ Fresh.fires = <<>> /\ ~Missing.claimed /\ ~Fresh.claimed
    /\ Fresh.there /\ ~Missing.there
    /\ NoCall.at = "idle" /\ NoCall.op = Nothing
<1>1. /\ Missing \in StoreDoc /\ Missing.fires = <<>> /\ ~Missing.claimed /\ ~Missing.there
  BY DEF Missing, StoreDoc, MaybeFire, Nothing
<1>2. /\ Fresh \in StoreDoc /\ Fresh.fires = <<>> /\ ~Fresh.claimed /\ Fresh.there
  BY <1>1 DEF Fresh, StoreDoc
<1>3. NoCall \in StoreCall /\ NoCall.at = "idle" /\ NoCall.op = Nothing
  BY <1>1 DEF NoCall, StoreCall, MaybeFire, Nothing
<1> QED BY <1>1, <1>2, <1>3

(* A call starts.                                                            *)
LEMMA StartKeeps ==
    ASSUME StateInv, NEW w \in Writers, NEW op \in {"register", "append", "claim", "release"},
           NEW arg \in MaybeFire, op = "append" => arg \in Fires, StartsCall(w, op, arg),
           UNCHANGED <<doc, history, claimed, row, dies, written>>, todo' \subseteq Fires
    PROVE  StateInv'
<1>1. PICK n : n = [NoCall EXCEPT !.op = op, !.at = "read", !.arg = arg]
  OBVIOUS
<1>2. n \in StoreCall /\ n.op = op /\ n.at = "read" /\ n.arg = arg
  BY <1>1, NothingTyped DEF StoreCall
<1>3. call[w] = NoCall /\ call' = [call EXCEPT ![w] = n]
      /\ callsMet' = (callsMet \/ \E v \in Writers : call[v] # NoCall)
  BY <1>1 DEF StartsCall
<1>4. StateTyped
  BY DEF StateInv
<1>5. call'[w] = n /\ \A v \in Writers : v # w => call'[v] = call[v]
  BY <1>3, <1>4 DEF StateTyped
<1>6. StateTyped'
  <2>1. call' \in [Writers -> StoreCall]
    BY <1>2, <1>3, <1>4 DEF StateTyped
  <2>2. callsMet' \in BOOLEAN
    BY <1>3
  <2>3. \A v \in Writers : /\ call'[v].at = "idle" => call'[v] = NoCall
                           /\ call'[v].op = "append" => call'[v].arg \in Fires
                           /\ call'[v].op = Nothing => call'[v] = NoCall
    BY <1>2, <1>4, <1>5 DEF StateTyped, Nothing
  <2> QED BY <1>4, <2>1, <2>2, <2>3 DEF StateTyped
<1>7. \A v \in Writers : Inserted(v)' => Inserted(v) /\ call'[v] = call[v]
  BY <1>2, <1>5 DEF Inserted
<1>8. RowsKept'
  BY <1>7 DEF StateInv, RowsKept
<1>9. ASSUME ~callsMet' PROVE OneCall'
  <2>1. ~callsMet /\ \A v \in Writers : call[v] = NoCall
    BY <1>3, <1>9
  <2>2. OneCall
    BY <2>1 DEF StateInv
  <2>3. \A v \in Writers : call'[v] # NoCall => v = w
    BY <1>5, <2>1
  <2>4. \A v \in Writers : call'[v].at # "write"
    BY <1>2, <1>5, <2>1, NothingTyped
  <2> QED BY <1>7, <2>2, <2>3, <2>4 DEF OneCall
<1>10. ASSUME ~callsMet', dies' = 0 PROVE Agreeing' /\ LastFiredIsLast'
  <2>1. ~callsMet /\ dies = 0 /\ \A v \in Writers : call[v] = NoCall
    BY <1>3, <1>10
  <2>2. Agreeing /\ LastFiredIsLast
    BY <2>1 DEF StateInv
  <2>3. \A v \in Writers : call[v].op = Nothing /\ call'[v].at \in {"idle", "read"}
    BY <1>2, <1>5, <2>1, NothingTyped
  <2>4. doc.there = row.there
    BY <2>2, <2>3 DEF Agreeing, Nothing
  <2>5. Agreeing'
    BY <2>2, <2>3, <2>4 DEF Agreeing, Inserted
  <2>6. history = <<>> \/ row.last = history[Len(history)]
    BY <2>1, <2>2, <2>3 DEF LastFiredIsLast, Nothing
  <2> QED BY <2>5, <2>6 DEF LastFiredIsLast
<1> QED BY <1>6, <1>8, <1>9, <1>10 DEF StateInv

(* A call has read the state, or is over.                                    *)
LEMMA ReadKeeps ==
    ASSUME StateInv, NEW w \in Writers, ReadState(w)
    PROVE  StateInv'
<1>1. PICK c : c = call[w]
  OBVIOUS
<1>2. PICK n : n = [c EXCEPT !.at = "write", !.seen = doc, !.known = row.there]
  OBVIOUS
<1>3. PICK goesOn : goesOn = IF c.op = "register" THEN ~doc.there ELSE doc.there \/ row.there
  OBVIOUS
<1>4. /\ c.at = "read" /\ row' = (IF c.op = "register" /\ ~row.there THEN Fresh ELSE row)
      /\ call' = [call EXCEPT ![w] = IF goesOn THEN n ELSE NoCall]
      /\ UNCHANGED <<doc, history, claimed, todo, dies, written, callsMet>>
  BY <1>1, <1>2, <1>3 DEF ReadState
<1>5. StateTyped /\ c \in StoreCall
  BY <1>1 DEF StateInv, StateTyped
<1>6. c # NoCall /\ c.op # Nothing /\ (c.op = "append" => c.arg \in Fires)
  BY <1>1, <1>4, <1>5, NothingTyped DEF StateTyped
<1>7. /\ n \in StoreCall /\ n.op = c.op /\ n.at = "write" /\ n.arg = c.arg /\ n.seen = doc
      /\ n.known = row.there
  BY <1>2, <1>5 DEF StateTyped, StoreCall, StoreDoc
<1>8. /\ call'[w] = (IF goesOn THEN n ELSE NoCall)
      /\ \A v \in Writers : v # w => call'[v] = call[v]
  BY <1>4, <1>5 DEF StateTyped
<1>9. StateTyped'
  <2>1. row' \in StoreDoc
    BY <1>4, <1>5, NothingTyped DEF StateTyped
  <2>2. call' \in [Writers -> StoreCall]
    BY <1>4, <1>5, <1>7, NothingTyped DEF StateTyped
  <2>3. \A v \in Writers : /\ call'[v].at = "idle" => call'[v] = NoCall
                           /\ call'[v].op = "append" => call'[v].arg \in Fires
                           /\ call'[v].op = Nothing => call'[v] = NoCall
    BY <1>5, <1>6, <1>7, <1>8, NothingTyped DEF StateTyped, Nothing
  <2> QED BY <1>4, <1>5, <2>1, <2>2, <2>3 DEF StateTyped
<1>10. \A v \in Writers : Inserted(v)' => Inserted(v) /\ call'[v] = call[v]
  BY <1>7, <1>8, NothingTyped DEF Inserted
<1>11. RowsKept'
  BY <1>4, <1>10 DEF StateInv, RowsKept
<1>12. ASSUME ~callsMet PROVE \A v \in Writers : v # w => call[v] = NoCall /\ call'[v] = NoCall
  BY <1>1, <1>6, <1>8, <1>12 DEF StateInv, OneCall
<1>13. ASSUME ~callsMet' PROVE OneCall'
  <2>1. OneCall /\ \A v \in Writers : v # w => call'[v] = NoCall
    BY <1>4, <1>12, <1>13 DEF StateInv
  <2>2. call'[w].at = "write" => call'[w].seen = doc /\ (call'[w].op = "register" => ~doc.there)
    BY <1>3, <1>7, <1>8, NothingTyped
  <2>3. \A v \in Writers : call'[v].at = "write" => v = w
    BY <2>1, NothingTyped
  <2> QED BY <1>4, <1>10, <2>1, <2>2, <2>3 DEF OneCall
<1>14. ASSUME ~callsMet', dies' = 0 PROVE Agreeing' /\ LastFiredIsLast'
  <2>1. /\ Agreeing /\ LastFiredIsLast /\ ~callsMet /\ dies = 0
        /\ \A v \in Writers : v # w => call[v] = NoCall /\ call'[v] = NoCall
    BY <1>4, <1>12, <1>14 DEF StateInv
  <2>2. \A v \in Writers : ~(call[v].op = "register" /\ call[v].at = "write")
    BY <1>1, <1>4, <2>1, NothingTyped
  <2>3. doc.there = row.there
    BY <2>1, <2>2 DEF Agreeing
  <2>4. \A v \in Writers : ~Inserted(v)'
    BY <1>7, <1>8, <2>1, NothingTyped DEF Inserted
  <2>5. ~doc.there => doc = Missing /\ history = <<>>
    BY <1>5, <2>1, NothingTyped DEF StateTyped, Agreeing
  <2>6. CASE c.op = "register" /\ doc.there
    <3>1. row' = row /\ call'[w] = NoCall
      BY <1>3, <1>4, <1>8, <2>3, <2>6
    <3>2. \A v \in Writers : call'[v] = NoCall
      BY <2>1, <3>1
    <3>3. Agreeing'
      BY <1>4, <2>1, <2>3, <2>4, <3>1, <3>2, NothingTyped DEF Agreeing, Nothing
    <3>4. history = <<>> \/ row.last = history[Len(history)]
      <4>1. \A v \in Writers : call[v].op # "append"
        BY <1>1, <2>1, <2>6, NothingTyped DEF Nothing
      <4> QED BY <2>1, <4>1 DEF LastFiredIsLast
    <3> QED BY <1>4, <3>1, <3>3, <3>4 DEF LastFiredIsLast
  <2>7. CASE c.op = "register" /\ ~doc.there
    <3>1. row' = Fresh /\ call'[w] = n /\ row'.there
      BY <1>3, <1>4, <1>8, <2>3, <2>7, NothingTyped
    <3>2. Agreeing'
      <4>1. \E v \in Writers : call'[v].op = "register" /\ call'[v].at = "write"
        BY <1>7, <2>7, <3>1
      <4>2. \A v \in Writers : call'[v].op \notin {"append", "claim", "release"}
        BY <1>7, <2>1, <2>7, <3>1, NothingTyped DEF Nothing
      <4> QED BY <1>4, <2>1, <2>4, <3>1, <4>1, <4>2 DEF Agreeing
    <3> QED BY <1>4, <2>5, <2>7, <3>2 DEF LastFiredIsLast
  <2>8. CASE c.op # "register" /\ doc.there
    <3>1. row' = row /\ call'[w] = n
      BY <1>3, <1>4, <1>8, <2>8
    <3>2. n.known /\ n.seen.there
      BY <1>7, <2>3, <2>8
    <3>3. Agreeing'
      <4>1. \A v \in Writers : call'[v].op # "register"
        BY <1>7, <2>1, <2>8, <3>1, NothingTyped DEF Nothing
      <4>2. \A v \in Writers : call'[v].op \in {"append", "claim", "release"} => v = w
        BY <2>1, NothingTyped DEF Nothing
      <4> QED BY <1>4, <2>1, <2>3, <2>4, <3>1, <3>2, <4>1, <4>2 DEF Agreeing
    <3>4. LastFiredIsLast'
      <4>1. \A v \in Writers : call[v].op = "append" => call'[v].op = "append"
        BY <1>1, <1>7, <1>8, <3>1
      <4> QED BY <1>4, <2>1, <3>1, <4>1 DEF LastFiredIsLast
    <3> QED BY <3>3, <3>4
  <2>9. CASE c.op # "register" /\ ~doc.there
    <3>1. row' = row /\ call'[w] = NoCall
      BY <1>3, <1>4, <1>8, <2>3, <2>9
    <3>2. \A v \in Writers : call'[v] = NoCall
      BY <2>1, <3>1
    <3>3. Agreeing'
      BY <1>4, <2>1, <2>3, <2>4, <3>1, <3>2, NothingTyped DEF Agreeing, Nothing
    <3> QED BY <1>4, <2>5, <2>9, <3>3 DEF LastFiredIsLast
  <2> QED BY <2>6, <2>7, <2>8, <2>9
<1> QED BY <1>9, <1>11, <1>13, <1>14 DEF StateInv

(* What a call makes of the state it has read: the worker is registered, and *)
(* at most one record more is in the history.                                *)
LEMMA UpdatedTyped ==
    ASSUME NEW c \in StoreCall, c.op # Nothing, c.op = "register" \/ c.seen.there,
           c.op = "append" => c.arg \in Fires
    PROVE  /\ Updated(c) \in StoreDoc /\ Updated(c).there
           /\ c.op = "register" => Updated(c) = Fresh
           /\ c.op = "append" => /\ Updated(c).fires = Append(c.seen.fires, c.arg)
                                 /\ Updated(c).claimed = c.seen.claimed
           /\ c.op \in {"claim", "release"} => /\ Updated(c).fires = c.seen.fires
                                               /\ Updated(c).claimed = (c.op = "claim")
<1>1. c.seen \in StoreDoc /\ c.op \in {"register", "append", "claim", "release"}
  BY DEF StoreCall
<1>2. CASE c.op = "register"
  BY <1>2, NothingTyped DEF Updated
<1>3. CASE c.op = "append"
  <2>1. PICK f : f = Append(c.seen.fires, c.arg)
    OBVIOUS
  <2>2. f \in Seq(Fires) /\ c.arg \in MaybeFire
    BY <1>1, <1>3, <2>1, OneFireMore DEF StoreDoc, MaybeFire
  <2>3. Updated(c) = [c.seen EXCEPT !.fires = f, !.last = c.arg]
    BY <1>1, <1>3, <2>1 DEF Updated, StoreDoc
  <2> QED BY <1>1, <1>3, <2>1, <2>2, <2>3 DEF StoreDoc
<1>4. CASE c.op = "claim"
  <2>1. Updated(c) = [c.seen EXCEPT !.claimed = TRUE]
    BY <1>4 DEF Updated
  <2> QED BY <1>1, <1>4, <2>1 DEF StoreDoc
<1>5. CASE c.op = "release"
  <2>1. Updated(c) = [c.seen EXCEPT !.claimed = FALSE]
    BY <1>5 DEF Updated
  <2> QED BY <1>1, <1>5, <2>1 DEF StoreDoc
<1> QED BY <1>1, <1>2, <1>3, <1>4, <1>5

(* A call writes: the document as a whole, or a row.                         *)
LEMMA WriteKeeps ==
    ASSUME StateInv, NEW w \in Writers, WriteState(w)
    PROVE  StateInv'
<1>1. PICK c : c = call[w]
  OBVIOUS
<1>2. PICK n : n = [c EXCEPT !.at = "update"]
  OBVIOUS
<1>3. /\ c.at = "write" /\ doc' = (IF c.op = "register" \/ c.seen.there THEN Updated(c) ELSE doc)
      /\ history' = (IF c.op = "append" /\ c.known THEN Append(history, c.arg) ELSE history)
      /\ claimed' = (IF c.op \in {"claim", "release"} /\ c.known THEN c.op = "claim" ELSE claimed)
      /\ call' = [call EXCEPT ![w] = n]
      /\ UNCHANGED <<row, todo, dies, written, callsMet>>
  BY <1>1, <1>2 DEF WriteState
<1>4. StateTyped /\ c \in StoreCall
  BY <1>1 DEF StateInv, StateTyped
<1>5. c # NoCall /\ c.op # Nothing /\ (c.op = "append" => c.arg \in Fires)
      /\ c.op \in {"register", "append", "claim", "release"}
  BY <1>1, <1>3, <1>4, NothingTyped DEF StateTyped, StoreCall
<1>6. /\ n \in StoreCall /\ n.op = c.op /\ n.at = "update" /\ n.arg = c.arg /\ n.seen = c.seen
      /\ n.known = c.known
  BY <1>2, <1>4 DEF StoreCall
<1>7. call'[w] = n /\ \A v \in Writers : v # w => call'[v] = call[v]
  BY <1>3, <1>4 DEF StateTyped
<1>8. /\ doc' \in StoreDoc /\ (~doc'.there => doc' = Missing)
      /\ history' \in Seq(Fires) /\ claimed' \in BOOLEAN
  <2>1. doc' \in StoreDoc /\ (~doc'.there => doc' = Missing)
    BY <1>3, <1>4, <1>5, UpdatedTyped DEF StateTyped
  <2>2. history' \in Seq(Fires)
    BY <1>3, <1>4, <1>5, OneFireMore DEF StateTyped
  <2>3. claimed' \in BOOLEAN
    BY <1>3, <1>4 DEF StateTyped
  <2> QED BY <2>1, <2>2, <2>3
<1>9. StateTyped'
  <2>1. call' \in [Writers -> StoreCall]
    BY <1>3, <1>4, <1>6 DEF StateTyped
  <2>2. \A v \in Writers : /\ call'[v].at = "idle" => call'[v] = NoCall
                           /\ call'[v].op = "append" => call'[v].arg \in Fires
                           /\ call'[v].op = Nothing => call'[v] = NoCall
    BY <1>4, <1>5, <1>6, <1>7 DEF StateTyped
  <2> QED BY <1>3, <1>4, <1>8, <2>1, <2>2 DEF StateTyped
<1>10. InOrder(history) \subseteq InOrder(history')
       /\ (c.op = "append" /\ c.known => c.arg \in InOrder(history'))
  BY <1>3, <1>4, <1>5, OneFireMore DEF StateTyped
<1>11. \A v \in Writers : v # w /\ Inserted(v)' => Inserted(v) /\ call'[v] = call[v]
  BY <1>7 DEF Inserted
<1>12. RowsKept'
  <2>1. \A v \in Writers : Inserted(v)' /\ call'[v].known => call'[v].arg \in InOrder(history')
    BY <1>6, <1>7, <1>10, <1>11 DEF StateInv, RowsKept, Inserted
  <2> QED BY <1>3, <1>10, <2>1 DEF StateInv, RowsKept
<1>13. ASSUME ~callsMet
       PROVE  /\ OneCall /\ c.seen = doc /\ (c.op = "register" => ~doc.there /\ doc = Missing)
              /\ \A v \in Writers : v # w => call[v] = NoCall /\ call'[v] = NoCall
  <2>1. OneCall
    BY <1>13 DEF StateInv
  <2>2. c.seen = doc /\ (c.op = "register" => ~doc.there)
    BY <1>1, <1>3, <2>1 DEF OneCall
  <2>3. \A v \in Writers : v # w => call[v] = NoCall
    BY <1>1, <1>5, <2>1 DEF OneCall
  <2> QED BY <1>4, <1>7, <2>1, <2>2, <2>3 DEF StateTyped
<1>14. ASSUME ~callsMet' PROVE OneCall'
  <2>1. /\ OneCall /\ c.seen = doc /\ (c.op = "register" => doc = Missing)
        /\ \A v \in Writers : v # w => call'[v] = NoCall
    BY <1>3, <1>13, <1>14
  <2>2. doc.fires \in Seq(Fires)
    BY <1>4 DEF StateTyped, StoreDoc
  <2>3. InOrder(doc.fires) \subseteq InOrder(doc'.fires)
    <3>1. CASE c.op = "register"
      <4>1. InOrder(doc.fires) = {}
        BY <2>1, <3>1, NothingTyped DEF InOrder
      <4> QED BY <4>1
    <3>2. CASE c.op # "register" /\ ~c.seen.there
      BY <1>3, <3>2
    <3>3. CASE c.op = "append" /\ c.seen.there
      <4>1. doc'.fires = Append(doc.fires, c.arg)
        BY <1>3, <1>4, <1>5, <2>1, <3>3, UpdatedTyped
      <4> QED BY <1>5, <2>2, <3>3, <4>1, OneFireMore
    <3>4. CASE c.op \in {"claim", "release"} /\ c.seen.there
      <4>1. doc'.fires = doc.fires
        BY <1>3, <1>4, <1>5, <2>1, <3>4, UpdatedTyped
      <4> QED BY <4>1
    <3> QED BY <1>5, <3>1, <3>2, <3>3, <3>4
  <2>4. c.op = "append" /\ c.seen.there => c.arg \in InOrder(doc'.fires)
    <3> SUFFICES ASSUME c.op = "append", c.seen.there PROVE c.arg \in InOrder(doc'.fires)
      OBVIOUS
    <3>1. doc'.fires = Append(doc.fires, c.arg)
      BY <1>3, <1>4, <1>5, <2>1, UpdatedTyped
    <3> QED BY <1>5, <2>2, <3>1, OneFireMore
  <2>5. \A v \in Writers : call'[v].at # "write" /\ (call'[v] # NoCall => v = w)
    BY <1>6, <1>7, <2>1, NothingTyped
  <2>6. \A v \in Writers : Inserted(v)' /\ call'[v].seen.there => call'[v].arg \in InOrder(doc'.fires)
    BY <1>6, <1>7, <2>1, <2>4, NothingTyped DEF Inserted
  <2>7. \A s \in written' : s[1] # "rows" => s[2] \in InOrder(doc'.fires)
    BY <1>3, <2>1, <2>3 DEF OneCall
  <2> QED BY <2>5, <2>6, <2>7 DEF OneCall
<1>15. ASSUME ~callsMet', dies' = 0 PROVE Agreeing' /\ LastFiredIsLast'
  <2>1. /\ Agreeing /\ LastFiredIsLast /\ ~callsMet /\ dies = 0 /\ c.seen = doc
        /\ (c.op = "register" => ~doc.there /\ doc = Missing)
        /\ \A v \in Writers : v # w => call[v] = NoCall /\ call'[v] = NoCall
    BY <1>3, <1>13, <1>15 DEF StateInv
  <2>2. CASE c.op = "register"
    <3>1. doc' = Fresh /\ history' = history /\ claimed' = claimed /\ row.there
      BY <1>1, <1>3, <1>4, <1>5, <2>1, <2>2, UpdatedTyped DEF Agreeing
    <3>2. history' = <<>> /\ doc'.fires = <<>> /\ doc'.claimed = claimed'
      BY <2>1, <2>2, <3>1, NothingTyped DEF Agreeing, Fresh, Missing
    <3>3. doc'.there = row'.there
      BY <1>3, <1>4, <3>1, NothingTyped DEF StateTyped, StoreDoc
    <3>4. \A v \in Writers : call'[v].at # "write" /\ ~Inserted(v)'
                             /\ call'[v].op \notin {"append", "claim", "release"}
      BY <1>6, <1>7, <2>1, <2>2, NothingTyped DEF Inserted, Nothing
    <3> QED BY <3>2, <3>3, <3>4 DEF Agreeing, LastFiredIsLast
  <2>3. CASE c.op # "register"
    <3>1. c.known /\ c.seen.there
      BY <1>1, <1>3, <1>5, <2>1, <2>3 DEF Agreeing
    <3>2. doc.there = row.there
      BY <1>1, <2>1, <2>3, NothingTyped DEF Agreeing, Nothing
    <3>3. doc'.there = row'.there
      BY <1>3, <1>4, <1>5, <2>1, <3>1, <3>2, UpdatedTyped DEF StateTyped, StoreDoc
    <3>4. \A v \in Writers : call'[v].at # "write" /\ call'[v].op # "register"
      BY <1>6, <1>7, <2>1, <2>3, NothingTyped DEF Nothing
    <3>5. \A v \in Writers : call'[v].op \in {"append", "claim", "release"} =>
                                call'[v].known /\ call'[v].seen.there
      BY <1>6, <1>7, <2>1, <3>1, NothingTyped DEF Nothing
    <3>6. CASE c.op = "append"
      <4>1. /\ doc'.fires = Append(doc.fires, c.arg) /\ doc'.claimed = doc.claimed
            /\ history' = Append(history, c.arg) /\ claimed' = claimed
        BY <1>3, <1>4, <1>5, <2>1, <3>1, <3>6, UpdatedTyped
      <4>2. doc'.fires = history' /\ doc'.claimed = claimed'
        BY <2>1, <4>1 DEF Agreeing
      <4>3. history' # <<>> /\ history'[Len(history')] = c.arg
        BY <1>4, <1>5, <3>6, <4>1, OneFireMore DEF StateTyped
      <4>4. \A v \in Writers : Inserted(v)' => call'[v].arg = c.arg
        BY <1>6, <1>7, <2>1, NothingTyped DEF Inserted
      <4>5. Agreeing'
        BY <3>3, <3>4, <3>5, <4>2, <4>3, <4>4 DEF Agreeing
      <4>6. call'[w].op = "append"
        BY <1>6, <1>7, <3>6
      <4> QED BY <4>5, <4>6 DEF LastFiredIsLast
    <3>7. CASE c.op \in {"claim", "release"}
      <4>1. /\ doc'.fires = doc.fires /\ doc'.claimed = (c.op = "claim")
            /\ history' = history /\ claimed' = (c.op = "claim")
        BY <1>3, <1>4, <1>5, <2>1, <3>1, <3>7, UpdatedTyped
      <4>2. doc'.fires = history' /\ doc'.claimed = claimed'
        BY <2>1, <4>1 DEF Agreeing
      <4>3. \A v \in Writers : ~Inserted(v)' /\ call[v].op # "append"
        BY <1>1, <1>6, <1>7, <2>1, <3>7, NothingTyped DEF Inserted, Nothing
      <4>4. Agreeing'
        BY <3>3, <3>4, <3>5, <4>2, <4>3 DEF Agreeing
      <4> QED BY <1>3, <2>1, <4>1, <4>3, <4>4 DEF LastFiredIsLast
    <3> QED BY <1>5, <2>3, <3>6, <3>7
  <2> QED BY <2>2, <2>3
<1> QED BY <1>9, <1>12, <1>14, <1>15 DEF StateInv

(* A call resolves.                                                          *)
LEMMA UpdateKeeps ==
    ASSUME StateInv, NEW w \in Writers, UpdateRow(w)
    PROVE  StateInv'
<1>1. PICK c : c = call[w]
  OBVIOUS
<1>2. PICK l : l = LastFired(c)
  OBVIOUS
<1>3. PICK fresh : fresh = {s \in {"document", "rows"} \X {c.arg} :
                              /\ c.op = "append"
                              /\ IF s[1] = "rows" THEN c.known ELSE c.seen.there}
  OBVIOUS
<1>4. /\ c.at = "update" /\ row' = [row EXCEPT !.last = l] /\ written' = written \cup fresh
      /\ call' = [call EXCEPT ![w] = NoCall]
      /\ UNCHANGED <<doc, history, claimed, todo, dies, callsMet>>
  BY <1>1, <1>2, <1>3 DEF UpdateRow
<1>5. StateTyped /\ c \in StoreCall
  BY <1>1 DEF StateInv, StateTyped
<1>6. c # NoCall /\ c.op # Nothing /\ (c.op = "append" => c.arg \in Fires)
  BY <1>1, <1>4, <1>5, NothingTyped DEF StateTyped
<1>7. call'[w] = NoCall /\ \A v \in Writers : v # w => call'[v] = call[v]
  BY <1>4, <1>5 DEF StateTyped
<1>8. row' \in StoreDoc /\ row'.there = row.there /\ row'.last = l
  <2>1. l \in MaybeFire
    BY <1>2, <1>5, <1>6 DEF LastFired, StateTyped, StoreDoc, MaybeFire
  <2> QED BY <1>4, <1>5, <2>1 DEF StateTyped, StoreDoc
<1>9. StateTyped'
  <2>1. call' \in [Writers -> StoreCall]
    BY <1>4, <1>5, NothingTyped DEF StateTyped
  <2>2. \A v \in Writers : /\ call'[v].at = "idle" => call'[v] = NoCall
                           /\ call'[v].op = "append" => call'[v].arg \in Fires
                           /\ call'[v].op = Nothing => call'[v] = NoCall
    BY <1>5, <1>7, NothingTyped DEF StateTyped, Nothing
  <2> QED BY <1>4, <1>5, <1>8, <2>1, <2>2 DEF StateTyped
<1>10. \A v \in Writers : Inserted(v)' => Inserted(v) /\ call'[v] = call[v]
  BY <1>7, NothingTyped DEF Inserted
<1>11. \A s \in fresh : /\ s[2] = c.arg /\ Inserted(w)
                        /\ (s[1] = "rows" => c.known) /\ (s[1] # "rows" => c.seen.there)
  BY <1>1, <1>3, <1>4 DEF Inserted
<1>12. RowsKept'
  <2>1. \A s \in fresh : s[1] = "rows" => s[2] \in InOrder(history)
    BY <1>1, <1>11 DEF StateInv, RowsKept
  <2> QED BY <1>4, <1>10, <2>1 DEF StateInv, RowsKept
<1>13. ASSUME ~callsMet
       PROVE  OneCall /\ \A v \in Writers : v # w => call[v] = NoCall
  BY <1>1, <1>6, <1>13 DEF StateInv, OneCall
<1>14. ASSUME ~callsMet' PROVE OneCall'
  <2>1. OneCall /\ \A v \in Writers : call'[v] = NoCall
    BY <1>4, <1>7, <1>13, <1>14
  <2>2. \A s \in fresh : s[1] # "rows" => s[2] \in InOrder(doc.fires)
    BY <1>1, <1>11, <2>1 DEF OneCall
  <2>3. \A s \in written' : s[1] # "rows" => s[2] \in InOrder(doc'.fires)
    BY <1>4, <2>1, <2>2 DEF OneCall
  <2> QED BY <2>1, <2>3, NothingTyped DEF OneCall, Inserted
<1>15. ASSUME ~callsMet', dies' = 0 PROVE Agreeing' /\ LastFiredIsLast'
  <2>1. /\ Agreeing /\ LastFiredIsLast /\ ~callsMet /\ dies = 0
        /\ \A v \in Writers : (v # w => call[v] = NoCall) /\ call'[v] = NoCall
    BY <1>4, <1>7, <1>13, <1>15 DEF StateInv
  <2>2. doc.there = row.there
    BY <1>1, <1>4, <2>1, NothingTyped DEF Agreeing
  <2>3. Agreeing'
    <3>1. \A v \in Writers : call'[v].at = "idle" /\ call'[v].op = Nothing
      BY <2>1, NothingTyped
    <3> QED BY <1>4, <1>8, <2>1, <2>2, <3>1 DEF Agreeing, Inserted, Nothing
  <2>4. CASE c.op = "append"
    <3>1. c.known /\ history[Len(history)] = c.arg
      BY <1>1, <1>4, <2>1, <2>4 DEF Agreeing, Inserted
    <3>2. row'.last = history'[Len(history')]
      BY <1>2, <1>4, <1>8, <2>4, <3>1 DEF LastFired
    <3> QED BY <2>3, <3>2 DEF LastFiredIsLast
  <2>5. CASE c.op # "append"
    <3>1. \A v \in Writers : call[v].op # "append"
      BY <1>1, <2>1, <2>5, NothingTyped DEF Nothing
    <3>2. history = <<>> \/ row.last = history[Len(history)]
      BY <2>1, <3>1 DEF LastFiredIsLast
    <3>3. row'.last = row.last
      BY <1>2, <1>8, <2>5 DEF LastFired
    <3> QED BY <1>4, <2>3, <3>2, <3>3 DEF LastFiredIsLast
  <2> QED BY <2>4, <2>5
<1> QED BY <1>9, <1>12, <1>14, <1>15 DEF StateInv

(* A process dies in the middle of a call.                                   *)
LEMMA DiesKeeps ==
    ASSUME StateInv, NEW w \in Writers, Dies(w)
    PROVE  StateInv'
<1>1. /\ dies' = dies + 1 /\ call[w] # NoCall /\ call' = [call EXCEPT ![w] = NoCall]
      /\ UNCHANGED <<doc, history, claimed, row, todo, written, callsMet>>
  BY DEF Dies
<1>2. StateTyped /\ dies' \in Nat /\ dies' # 0
  BY <1>1 DEF StateInv, StateTyped
<1>3. call'[w] = NoCall /\ \A v \in Writers : v # w => call'[v] = call[v]
  BY <1>1, <1>2 DEF StateTyped
<1>4. StateTyped'
  <2>1. call' \in [Writers -> StoreCall]
    BY <1>1, <1>2, NothingTyped DEF StateTyped
  <2>2. \A v \in Writers : /\ call'[v].at = "idle" => call'[v] = NoCall
                           /\ call'[v].op = "append" => call'[v].arg \in Fires
                           /\ call'[v].op = Nothing => call'[v] = NoCall
    BY <1>2, <1>3, NothingTyped DEF StateTyped, Nothing
  <2> QED BY <1>1, <1>2, <2>1, <2>2 DEF StateTyped
<1>5. \A v \in Writers : Inserted(v)' => Inserted(v) /\ call'[v] = call[v]
  BY <1>3, NothingTyped DEF Inserted
<1>6. RowsKept'
  BY <1>1, <1>5 DEF StateInv, RowsKept
<1>7. ASSUME ~callsMet' PROVE OneCall'
  <2>1. OneCall /\ \A v \in Writers : call'[v] = NoCall
    BY <1>1, <1>3, <1>7 DEF StateInv, OneCall
  <2> QED BY <1>1, <1>5, <2>1, NothingTyped DEF OneCall
<1> QED BY <1>2, <1>4, <1>6, <1>7 DEF StateInv

(* Every step of the state stores keeps the invariant.                       *)
LEMMA StateStep ==
    ASSUME StateInv, [StateNext]_stateVars
    PROVE  StateInv'
<1>1. ASSUME NEW w \in Writers, CallRegister(w) \/ CallAppend(w) \/ CallClaims(w)
      PROVE  StateInv'
  <2>1. \E op \in {"register", "append", "claim", "release"}, arg \in MaybeFire :
           /\ StartsCall(w, op, arg) /\ (op = "append" => arg \in Fires)
           /\ UNCHANGED <<doc, history, claimed, row, dies, written>> /\ todo' \subseteq Fires
    BY <1>1 DEF CallRegister, CallAppend, CallClaims, MaybeFire, StateInv, StateTyped
  <2> QED BY <2>1, StartKeeps
<1>2. CASE UNCHANGED stateVars
  BY <1>2 DEF stateVars, StateInv, StateTyped, RowsKept, OneCall, Agreeing, LastFiredIsLast, Inserted
<1> QED BY <1>1, <1>2, ReadKeeps, WriteKeeps, UpdateKeeps, DiesKeeps DEF StateNext

(* The insert-only history keeps every fire whose append resolved, whatever  *)
(* calls overlap and whoever dies; the rewritten document does too as long   *)
(* as no two calls meet; and while none is cut short either, the two kinds   *)
(* of store agree and the last fired window is the last one                  *)
(* (FileWorkerStateStore, RedisWorkerStateStore, PostgresWorkerStateStore).  *)
THEOREM FireHistoryKept == StateSpec => []StateKept
<1>1. StateInit => StateInv
  <2> SUFFICES ASSUME StateInit PROVE StateInv
    OBVIOUS
  <2>1. \A w \in Writers : call[w] = NoCall
    BY DEF StateInit
  <2>2. StateTyped
    <3>1. /\ doc = Missing /\ history = <<>> /\ claimed = FALSE /\ row = Missing
          /\ todo = Fires /\ dies = 0 /\ callsMet = FALSE
          /\ call = [w \in Writers |-> NoCall]
      BY DEF StateInit
    <3>2. call \in [Writers -> StoreCall] /\ history \in Seq(Fires) /\ dies \in Nat
      BY <3>1, NothingTyped
    <3>3. \A w \in Writers : call[w].op # "append"
      BY <2>1, NothingTyped DEF Nothing
    <3> QED BY <2>1, <3>1, <3>2, <3>3, NothingTyped DEF StateTyped
  <2>3. RowsKept /\ OneCall /\ LastFiredIsLast
    BY <2>1, NothingTyped DEF StateInit, RowsKept, OneCall, LastFiredIsLast, Inserted
  <2>4. Agreeing
    BY <2>1, NothingTyped DEF StateInit, Agreeing, Inserted, Nothing, Missing
  <2> QED BY <2>2, <2>3, <2>4 DEF StateInv
<1>2. StateInv /\ [StateNext]_stateVars => StateInv'
  BY StateStep
<1>3. StateInv => StateKept
  <2> SUFFICES ASSUME StateInv PROVE StateKept
    OBVIOUS
  <2>1. StateTyped /\ RowsKept /\ (~callsMet => OneCall)
        /\ (~callsMet /\ dies = 0 => Agreeing /\ LastFiredIsLast)
    BY DEF StateInv
  <2>2. dies = 0 \/ dies > 0
    BY <2>1 DEF StateTyped
  <2>3. HistoryKept
    BY <2>1 DEF HistoryKept, RowsKept, OneCall
  <2>4. LastFiredIsLast /\ StoresAgree
    BY <2>1, <2>2 DEF LastFiredIsLast, StoresAgree, Agreeing
  <2> QED BY <2>3, <2>4 DEF StateKept
<1> QED BY <1>1, <1>2, <1>3, PTL DEF StateSpec

-----------------------------------------------------------------------------
(* VerdictStore                                                              *)

Verdict == [id : RecordIds, window : StoreWindows, operator : Operators, at : Stamps,
            supersedes : RecordIds \cup {0}]

(* An id names one record; what is superseded is there, in the same window,  *)
(* and was there before: so a window with records has one that none of them  *)
(* supersedes.                                                               *)
RowsSound ==
    /\ rows \subseteq Verdict /\ IsFiniteSet(rows)
    /\ \A r, q \in rows : r.id = q.id => r = q
    /\ \A r \in rows : r.supersedes # 0 =>
          \E q \in rows : q.id = r.supersedes /\ q.window = r.window
    /\ \A w \in StoreWindows : History(w) # {} => Unsuperseded(History(w)) # {}

(* The windows an operator had when its query began are resolved or left;    *)
(* each of the resolved ones has one record of the answer, which nothing     *)
(* that was there when the query began supersedes.                           *)
AskedFor == {r.window : r \in {r \in query.before : r.operator = query.operator}}
QuerySound ==
    query.on =>
        /\ query.before \subseteq rows /\ query.latest \subseteq rows
        /\ {r.window : r \in query.latest} \cup query.left = AskedFor
        /\ \A r \in query.latest : r.window \notin query.left
        /\ \A r, q \in query.latest : r.window = q.window => r = q
        /\ \A r \in query.latest : \A q \in query.before : q.supersedes # r.id

QueryTyped == DOMAIN query = {"on", "operator", "before", "left", "latest"}

StoreInv == RowsSound /\ QuerySound /\ QueryTyped

(* r is no older than q, by the stamps and then by the ids.                  *)
NoOlder(r, q) == q.at < r.at \/ (q.at = r.at /\ q.id <= r.id)

(* Of finitely many records one is no older than any other.                  *)
LEMMA NewestExists ==
    ASSUME NEW U, U \subseteq Verdict, IsFiniteSet(U), U # {}
    PROVE  \E r \in U : \A q \in U : NoOlder(r, q)
<1> DEFINE up(r) == {q \in U : NoOlder(q, r)}
           T == {up(r) : r \in U}
<1>1. \A r \in U : r.at \in Nat /\ r.id \in Nat
  BY VerdictStoreAssumption DEF Verdict
<1>2. T \subseteq FiniteSubsetsOf(U) /\ T # {}
  <2>1. \A r \in U : up(r) \in SUBSET U /\ IsFiniteSet(up(r))
    BY FS_Subset
  <2> QED BY <2>1 DEF FiniteSubsetsOf
<1>3. PICK m \in T : \A y \in T : ~(<<y, m>> \in StrictSubsetOrdering(U))
  <2>1. IsWellFoundedOn(StrictSubsetOrdering(U), FiniteSubsetsOf(U))
    BY FS_StrictSubsetOrderingWellFounded
  <2> HIDE DEF T
  <2> QED BY <1>2, <2>1, WFMin
<1>4. PICK r \in U : m = up(r)
  OBVIOUS
<1>5. ASSUME NEW q \in U, ~NoOlder(r, q) PROVE FALSE
  <2>1. \A x \in U : NoOlder(x, q) => NoOlder(x, r)
    BY <1>1, <1>5 DEF NoOlder
  <2>2. NoOlder(r, r)
    BY <1>1 DEF NoOlder
  <2>3. up(q) \subseteq up(r) /\ r \in up(r) /\ r \notin up(q)
    BY <1>5, <2>1, <2>2
  <2>4. up(q) \in SUBSET U /\ up(r) \in SUBSET U /\ up(q) \in T
    OBVIOUS
  <2>5. <<up(q), up(r)>> \in StrictSubsetOrdering(U)
    <3> HIDE DEF up
    <3> QED BY <2>3, <2>4 DEF StrictSubsetOrdering
  <2> QED BY <1>3, <1>4, <2>4, <2>5
<1> QED BY <1>5

(* latestOf answers a record of the window that no other one supersedes.     *)
LEMMA LatestIsThere ==
    ASSUME RowsSound, NEW w \in StoreWindows, History(w) # {}
    PROVE  /\ LatestOf(History(w)) \in History(w)
           /\ \A q \in History(w) : q.supersedes # LatestOf(History(w)).id
<1> DEFINE U == Unsuperseded(History(w))
<1>1. U \subseteq History(w) /\ U # {} /\ \A r \in U, q \in History(w) : q.supersedes # r.id
  BY DEF RowsSound, Unsuperseded
<1>2. U \subseteq Verdict /\ IsFiniteSet(U)
  <2>1. U \in SUBSET rows
    BY <1>1 DEF History
  <2> HIDE DEF U
  <2> QED BY <2>1, FS_Subset DEF RowsSound
<1>3. \E r \in U : \A q \in U : q.at < r.at \/ (q.at = r.at /\ q.id <= r.id)
  <2> HIDE DEF U
  <2> QED BY <1>1, <1>2, NewestExists DEF NoOlder
<1>4. LatestOf(History(w)) \in U
  BY <1>3 DEF LatestOf
<1> HIDE DEF U
<1> QED BY <1>1, <1>4

(* A new verdict: nothing supersedes it yet.                                 *)
LEMMA RecordKeeps ==
    ASSUME StoreInv, NEW id \in RecordIds, NEW w \in StoreWindows, NEW o \in Operators,
           NEW at \in Stamps, NEW s \in RecordIds \cup {0}, RecordVerdict(id, w, o, at, s)
    PROVE  StoreInv'
<1>1. PICK n : n = [id |-> id, window |-> w, operator |-> o, at |-> at, supersedes |-> s]
  OBVIOUS
<1>2. /\ n \in Verdict /\ n.id = id /\ n.window = w /\ n.supersedes = s
  BY <1>1 DEF Verdict
<1>3. /\ \A r \in rows : r.id # id
      /\ s # 0 => \E r \in rows : r.id = s /\ r.window = w
      /\ rows' = rows \cup {n} /\ query' = query
  BY <1>1 DEF RecordVerdict
<1>4. RowsSound
  BY DEF StoreInv
<1>5. \A r \in rows : r.supersedes # id
  BY <1>3, <1>4, VerdictStoreAssumption DEF RowsSound
<1>6. s # id
  BY <1>3, VerdictStoreAssumption
<1>7. IsFiniteSet(rows')
  BY <1>3, <1>4, FS_AddElement DEF RowsSound
<1>8. \A v \in StoreWindows : History(v)' # {} => Unsuperseded(History(v))' # {}
  <2> SUFFICES ASSUME NEW v \in StoreWindows, History(v)' # {}
               PROVE  Unsuperseded(History(v))' # {}
    OBVIOUS
  <2>1. CASE v = w
    <3>1. n \in History(v)'
      BY <1>2, <1>3, <2>1 DEF History
    <3>2. \A q \in History(v)' : q.supersedes # n.id
      BY <1>2, <1>3, <1>5, <1>6 DEF History
    <3> QED BY <3>1, <3>2 DEF Unsuperseded
  <2>2. CASE v # w
    <3>1. History(v)' = History(v)
      BY <1>2, <1>3, <2>2 DEF History
    <3> QED BY <1>4, <3>1 DEF RowsSound, Unsuperseded
  <2> QED BY <2>1, <2>2
<1>9. RowsSound'
  <2>1. rows' \subseteq Verdict
    BY <1>2, <1>3, <1>4 DEF RowsSound
  <2>2. \A r, q \in rows' : r.id = q.id => r = q
    BY <1>2, <1>3, <1>4 DEF RowsSound
  <2>3. \A r \in rows' : r.supersedes # 0 =>
           \E q \in rows' : q.id = r.supersedes /\ q.window = r.window
    BY <1>2, <1>3, <1>4 DEF RowsSound
  <2> QED BY <1>7, <1>8, <2>1, <2>2, <2>3 DEF RowsSound
<1>10. QuerySound'
  BY <1>3 DEF StoreInv, QuerySound, AskedFor
<1> QED BY <1>3, <1>9, <1>10 DEF StoreInv, QueryTyped

(* A query begins, resolves a window, or returns.                            *)
LEMMA QueryKeeps ==
    ASSUME StoreInv,
           \/ \E o \in Operators : QueryStarts(o)
           \/ \E w \in StoreWindows : WindowResolved(w)
           \/ QueryReturns
    PROVE  StoreInv'
<1>1. rows' = rows
  BY DEF QueryStarts, WindowResolved, QueryReturns
<1>2. RowsSound /\ RowsSound'
  BY <1>1 DEF StoreInv, RowsSound, History, Unsuperseded
<1>3. ASSUME NEW o \in Operators, QueryStarts(o) PROVE QuerySound'
  <2>1. query' = [on |-> TRUE, operator |-> o, before |-> rows, left |-> WindowsOf(o),
                  latest |-> {}]
    BY <1>3 DEF QueryStarts
  <2>2. /\ query'.before = rows /\ query'.latest = {} /\ query'.left = WindowsOf(o)
        /\ query'.operator = o
    BY <2>1
  <2>3. AskedFor' = WindowsOf(o)
    BY <2>2 DEF AskedFor, WindowsOf
  <2> QED BY <1>1, <2>2, <2>3 DEF QuerySound
<1>4. ASSUME NEW w \in StoreWindows, WindowResolved(w) PROVE QuerySound'
  <2>1. PICK L : L = LatestOf(History(w))
    OBVIOUS
  <2>2. /\ query.on /\ w \in query.left
        /\ query' = [query EXCEPT !.left = @ \ {w}, !.latest = @ \cup {L}]
    BY <1>4, <2>1 DEF WindowResolved, Seen
  <2>3. QuerySound /\ w \in AskedFor
    BY <2>2 DEF StoreInv, QuerySound
  <2>4. L \in History(w) /\ \A q \in History(w) : q.supersedes # L.id
    <3>1. PICK r \in query.before : r.window = w
      BY <2>3 DEF AskedFor
    <3>2. r \in History(w)
      BY <2>2, <2>3, <3>1 DEF QuerySound, History
    <3> QED BY <1>2, <2>1, <3>2, LatestIsThere
  <2>5. L \in rows /\ L.window = w
    BY <2>4 DEF History
  <2>6. \A q \in rows : q.supersedes # L.id
    <3> SUFFICES ASSUME NEW q \in rows, q.supersedes = L.id PROVE FALSE
      OBVIOUS
    <3>1. q.supersedes # 0
      BY <1>2, <2>5, VerdictStoreAssumption DEF RowsSound, Verdict
    <3>2. PICK p \in rows : p.id = q.supersedes /\ p.window = q.window
      BY <1>2, <3>1 DEF RowsSound
    <3>3. p = L
      BY <1>2, <2>5, <3>2 DEF RowsSound
    <3>4. q \in History(w)
      BY <2>5, <3>2, <3>3 DEF History
    <3> QED BY <2>4, <3>4
  <2>7. CASE DOMAIN query = {"on", "operator", "before", "left", "latest"}
    <3>1. /\ query'.on = query.on /\ query'.operator = query.operator
          /\ query'.before = query.before /\ query'.left = query.left \ {w}
          /\ query'.latest = query.latest \cup {L}
      BY <2>2, <2>7
    <3>2. AskedFor' = AskedFor
      BY <3>1 DEF AskedFor
    <3>3. {r.window : r \in query'.latest} \cup query'.left = AskedFor'
      <4>1. {r.window : r \in query'.latest} = {r.window : r \in query.latest} \cup {w}
        BY <2>5, <3>1
      <4>2. {r.window : r \in query.latest} \cup query.left = AskedFor
        BY <2>2, <2>3 DEF QuerySound
      <4> QED BY <2>2, <3>1, <3>2, <4>1, <4>2
    <3>4. \A r \in query.latest : r.window # w
      BY <2>2, <2>3 DEF QuerySound
    <3>5. \A r, q \in query'.latest : r.window = q.window => r = q
      BY <2>2, <2>3, <2>5, <3>1, <3>4 DEF QuerySound
    <3>6. \A r \in query'.latest : r.window \notin query'.left
      BY <2>2, <2>3, <2>5, <3>1 DEF QuerySound
    <3>7. \A r \in query'.latest : \A q \in query'.before : q.supersedes # r.id
      BY <2>2, <2>3, <2>6, <3>1 DEF QuerySound
    <3>8. query'.before \subseteq rows' /\ query'.latest \subseteq rows'
      BY <1>1, <2>2, <2>3, <2>5, <3>1 DEF QuerySound
    <3> QED BY <3>3, <3>5, <3>6, <3>7, <3>8 DEF QuerySound
  <2> QED BY <2>7 DEF StoreInv, QueryTyped
<1>5. ASSUME QueryReturns PROVE QuerySound'
  BY <1>5 DEF QueryReturns, NoQuery, QuerySound
<1>6. QueryTyped'
  BY DEF StoreInv, QueryTyped, QueryStarts, WindowResolved, QueryReturns, NoQuery
<1> QED BY <1>2, <1>3, <1>4, <1>5, <1>6 DEF StoreInv

(* Whatever the writers' clocks say, and whatever is recorded between the    *)
(* round trips of a query, a window has one verdict, the end of its chain of *)
(* corrections, and counts for the one operator it names (latestOf,          *)
(* runLatestOnlyAwareQuery).                                                 *)
THEOREM VerdictsAreSound == StoreSpec => []VerdictsSound
<1>1. StoreInit => StoreInv
  <2> SUFFICES ASSUME StoreInit PROVE StoreInv
    OBVIOUS
  <2>1. rows = {} /\ query = NoQuery
    BY DEF StoreInit
  <2>2. RowsSound
    BY <2>1, FS_EmptySet DEF RowsSound, History
  <2> QED BY <2>1, <2>2 DEF StoreInv, QuerySound, QueryTyped, NoQuery
<1>2. StoreInv /\ [StoreNext]_storeVars => StoreInv'
  <2> SUFFICES ASSUME StoreInv, [StoreNext]_storeVars PROVE StoreInv'
    OBVIOUS
  <2>1. CASE UNCHANGED storeVars
    BY <2>1 DEF storeVars, StoreInv, RowsSound, QuerySound, QueryTyped, History, Unsuperseded, AskedFor
  <2> QED BY <2>1, RecordKeeps, QueryKeeps DEF StoreNext
<1>3. StoreInv => VerdictsSound
  <2> SUFFICES ASSUME StoreInv PROVE VerdictsSound
    OBVIOUS
  <2>1. RowsSound /\ QuerySound
    BY DEF StoreInv
  <2>2. ChainEndIsVerdict
    <3> SUFFICES ASSUME NEW w \in StoreWindows, NEW h, h = History(w), h # {}
                 PROVE  /\ Unsuperseded(h) # {} /\ \A q \in h : q.supersedes # LatestOf(h).id
                        /\ \A r \in h : CorrectsAll(r, h) => LatestOf(h) = r
      BY DEF ChainEndIsVerdict
    <3>1. LatestOf(h) \in h /\ \A q \in h : q.supersedes # LatestOf(h).id
      BY <2>1, LatestIsThere
    <3>2. ASSUME NEW r \in h, CorrectsAll(r, h) PROVE LatestOf(h) = r
      <4> DEFINE S == {r} \cup {q \in h : \E p \in h : p.supersedes = q.id}
      <4>1. S \in SUBSET h /\ r \in S
            /\ \A p \in S, q \in h : p.supersedes = q.id => q \in S
        OBVIOUS
      <4>2. S = h
        <5> HIDE DEF S
        <5> QED BY <3>2, <4>1 DEF CorrectsAll
      <4> QED BY <3>1, <4>2
    <3> QED BY <2>1, <3>1, <3>2 DEF RowsSound
  <2>3. CountsForOne
    <3> SUFFICES ASSUME NEW w \in StoreWindows, History(w) # {}
                 PROVE  {o \in Operators : \E r \in MemoryByOperator(o) : r.window = w}
                            = {LatestOf(History(w)).operator}
      BY DEF CountsForOne
    <3>1. PICK L : L = LatestOf(History(w))
      OBVIOUS
    <3>2. L \in History(w)
      BY <2>1, <3>1, LatestIsThere
    <3>3. L \in rows /\ L.window = w /\ L.operator \in Operators
      BY <2>1, <3>2 DEF History, RowsSound, Verdict
    <3>4. L \in MemoryByOperator(L.operator)
      BY <3>1, <3>3 DEF MemoryByOperator, Matches, WindowsOf
    <3>5. ASSUME NEW o \in Operators, NEW r \in MemoryByOperator(o), r.window = w
          PROVE  o = L.operator
      <4>1. PICK v \in WindowsOf(o) : r = LatestOf(History(v)) /\ r.operator = o
        BY DEF MemoryByOperator, Matches
      <4>2. PICK x \in rows : x.window = v
        BY DEF WindowsOf
      <4>3. v \in StoreWindows /\ x \in History(v)
        BY <2>1, <4>2 DEF RowsSound, Verdict, History
      <4>4. r \in History(v)
        BY <2>1, <4>1, <4>3, LatestIsThere
      <4>5. v = w
        BY <3>5, <4>4 DEF History
      <4> QED BY <3>1, <4>1, <4>5
    <3> QED BY <3>1, <3>3, <3>4, <3>5
  <2>4. QueriesSeeCorrections
    BY <2>1 DEF QueriesSeeCorrections, Answered, QuerySound, AskedFor
  <2> QED BY <2>2, <2>3, <2>4 DEF VerdictsSound
<1> QED BY <1>1, <1>2, <1>3, PTL DEF StoreSpec

-----------------------------------------------------------------------------
(* StreamSlots                                                               *)

VisitSteps == {"none", "expiring", "refusing", "open", "releasing", "deleting", "gone", "dead"}

SlotTyped ==
    /\ moment \in Nat \ {0} /\ visit \in [Visits -> VisitSteps] /\ endsAt \in [Visits -> Nat]
    /\ key \in [there : BOOLEAN, n : Int, expires : Nat] /\ (~key.there => key.n = 0)

(* A slot in hand.                                                           *)
HasSlot(v) == visit[v] \in {"expiring", "open", "releasing"}

(* As long as no command met another counter than its own: the counter is    *)
(* no less than the decrements to come, so that the first INCR is of a       *)
(* counter nobody else accounts for; and the key outlives the stream, so     *)
(* that the counter is not dropped under it.                                 *)
CounterSound ==
    /\ IsFiniteSet(Counted) /\ Cardinality(Counted) <= key.n
    /\ \A u, v \in Visits : HasSlot(u) /\ HasSlot(v) => u = v
    /\ \A v \in Visits : visit[v] = "open" => endsAt[v] < key.expires

SlotInv ==
    /\ SlotTyped
    /\ ~strayed => CounterSound /\ (leaked \/ key.n = 0 \/ WillExpire)

(* A request goes on to its next await, and nobody else does.                *)
LEMMA VisitMoves ==
    ASSUME SlotTyped, NEW v \in Visits, NEW s \in VisitSteps, Awaits(v, s)
    PROVE  /\ visit' \in [Visits -> VisitSteps] /\ visit'[v] = s
           /\ \A u \in Visits : u # v => visit'[u] = visit[u]
           /\ s \in {"expiring", "refusing", "open", "releasing"} => Counted' = Counted \cup {v}
           /\ s \notin {"expiring", "refusing", "open", "releasing"} => Counted' = Counted \ {v}
<1>1. /\ visit' \in [Visits -> VisitSteps] /\ visit'[v] = s
      /\ \A u \in Visits : u # v => visit'[u] = visit[u]
  BY DEF SlotTyped, Awaits
<1> QED BY <1>1 DEF Counted

(* A counted request that leaves makes the count one smaller.                *)
LEMMA OneFewer ==
    ASSUME IsFiniteSet(Counted), NEW v \in Counted, NEW S, S = Counted \ {v}
    PROVE  IsFiniteSet(S) /\ Cardinality(S) \in Nat /\ Cardinality(S) + 1 = Cardinality(Counted)
<1>1. IsFiniteSet(S) /\ Cardinality(S) = Cardinality(Counted) - 1
  BY FS_RemoveElement
<1>2. Cardinality(S) \in Nat /\ Cardinality(Counted) \in Nat
  BY <1>1, FS_CardinalityType
<1> QED BY <1>1, <1>2

(* INCR, by a request that is counted from then on.                          *)
LEMMA IncrKeeps ==
    ASSUME PerIp = 1, SlotInv, NEW v \in Visits, Incr(v)
    PROVE  SlotInv'
<1>1. SlotTyped /\ key.n \in Int /\ moment \in Nat /\ key.expires \in Nat
  BY DEF SlotInv, SlotTyped
<1>2. /\ visit[v] = "none" /\ key' = [key EXCEPT !.there = TRUE, !.n = @ + 1]
      /\ UNCHANGED <<moment, lost, leaked, strayed>>
  BY DEF Incr, Count
<1>3. /\ key' \in [there : BOOLEAN, n : Int, expires : Nat] /\ key'.n = key.n + 1
      /\ key'.expires = key.expires /\ key'.there
  <2>1. PICK m \in Int : m = key.n + 1
    BY <1>1
  <2>2. key' = [key EXCEPT !.there = TRUE, !.n = m]
    BY <1>1, <1>2, <2>1 DEF SlotTyped
  <2> QED BY <1>1, <2>1, <2>2 DEF SlotTyped
<1>4. PICK s \in {"expiring", "refusing", "open"} :
        /\ Awaits(v, s) /\ (s = "expiring" <=> key.n + 1 = 1)
        /\ (s = "open" => key.n + 1 <= 1 /\ OpensStream(v)) /\ (s # "open" => endsAt' = endsAt)
  <2>1. ASSUME key.n + 1 # 1, ~OverLimit(key.n + 1) PROVE key.n + 1 <= 1
    BY <1>1, <2>1 DEF OverLimit
  <2> QED BY <2>1 DEF Incr, OpensStream
<1>5. /\ visit' \in [Visits -> VisitSteps] /\ visit'[v] = s
      /\ \A u \in Visits : u # v => visit'[u] = visit[u]
      /\ Counted' = Counted \cup {v}
  BY <1>1, <1>4, VisitMoves DEF VisitSteps
<1>6. endsAt' \in [Visits -> Nat]
  BY <1>1, <1>4, SlotAssumption DEF SlotTyped, OpensStream
<1>7. SlotTyped'
  BY <1>1, <1>2, <1>3, <1>5, <1>6 DEF SlotTyped
<1>8. ASSUME ~strayed PROVE CounterSound' /\ (leaked' \/ key'.n = 0 \/ WillExpire')
  <2>1. CounterSound /\ (leaked \/ key.n = 0 \/ WillExpire)
    BY <1>8 DEF SlotInv
  <2>2. Cardinality(Counted) \in Nat /\ Cardinality(Counted) <= key.n /\ IsFiniteSet(Counted)
    BY <2>1, FS_CardinalityType DEF CounterSound
  <2>3. v \notin Counted
    BY <1>2 DEF Counted
  <2>4. IsFiniteSet(Counted') /\ Cardinality(Counted') = Cardinality(Counted) + 1
    BY <1>5, <2>2, <2>3, FS_AddElement
  <2>5. Cardinality(Counted') <= key'.n
    BY <1>1, <1>3, <2>2, <2>4
  <2>6. s # "open"
    BY <1>1, <1>4, <2>2
  <2>7. s = "expiring" => \A u \in Visits : ~HasSlot(u)
    <3> SUFFICES ASSUME s = "expiring", NEW u \in Visits, HasSlot(u) PROVE FALSE
      OBVIOUS
    <3>1. Cardinality(Counted) = 0
      BY <1>1, <1>4, <2>2
    <3>2. Counted = {}
      BY <2>2, <3>1, FS_EmptySet
    <3> QED BY <3>2 DEF HasSlot, Counted
  <2>8. \A u, x \in Visits : HasSlot(u)' /\ HasSlot(x)' => u = x
    BY <1>5, <2>1, <2>6, <2>7 DEF HasSlot, CounterSound
  <2>9. \A u \in Visits : visit'[u] = "open" => endsAt'[u] < key'.expires
    BY <1>3, <1>4, <1>5, <2>1, <2>6 DEF CounterSound
  <2>10. leaked' \/ WillExpire'
    <3>1. CASE s = "expiring"
      BY <1>5, <3>1 DEF WillExpire
    <3>2. CASE s # "expiring"
      <4>1. key.n # 0
        BY <1>1, <1>4, <3>2
      <4>2. leaked \/ WillExpire
        BY <2>1, <4>1
      <4>3. \A u \in Visits : visit[u] = "expiring" => visit'[u] = "expiring"
        BY <1>2, <1>5
      <4> QED BY <1>2, <1>3, <4>2, <4>3 DEF WillExpire
    <3> QED BY <3>1, <3>2
  <2> QED BY <2>4, <2>5, <2>8, <2>9, <2>10 DEF CounterSound
<1> QED BY <1>2, <1>7, <1>8 DEF SlotInv

(* EXPIRE: the key outlives the stream that opens with it.                   *)
LEMMA ExpireKeeps ==
    ASSUME SlotInv, NEW v \in Visits, ExpireKey(v)
    PROVE  SlotInv'
<1>1. /\ SlotTyped /\ key.n \in Int /\ moment \in Nat /\ KeyTtl \in Nat /\ StreamLife < KeyTtl
      /\ StreamLife \in Nat
  BY SlotAssumption DEF SlotInv, SlotTyped, KeyTtl
<1>2. /\ visit[v] = "expiring" /\ key' = [key EXCEPT !.expires = Expiry(key)]
      /\ Awaits(v, "open") /\ endsAt' = [endsAt EXCEPT ![v] = moment + StreamLife]
      /\ strayed' = (strayed \/ ~key.there) /\ UNCHANGED <<moment, lost, leaked>>
  BY DEF ExpireKey, OpensStream
<1>3. Expiry(key) \in Nat
  BY <1>1 DEF Expiry
<1>4. /\ key' \in [there : BOOLEAN, n : Int, expires : Nat] /\ key'.n = key.n
      /\ key'.expires = Expiry(key) /\ key'.there = key.there
  BY <1>1, <1>2, <1>3 DEF SlotTyped
<1>5. /\ visit' \in [Visits -> VisitSteps] /\ visit'[v] = "open"
      /\ \A u \in Visits : u # v => visit'[u] = visit[u]
      /\ Counted' = Counted
  <2>1. Counted \cup {v} = Counted
    BY <1>2 DEF Counted
  <2> QED BY <1>1, <1>2, <2>1, VisitMoves DEF VisitSteps
<1>6. endsAt' \in [Visits -> Nat] /\ endsAt'[v] = moment + StreamLife
  BY <1>1, <1>2 DEF SlotTyped
<1>7. SlotTyped'
  BY <1>1, <1>2, <1>4, <1>5, <1>6 DEF SlotTyped
<1>8. ASSUME ~strayed' PROVE CounterSound' /\ WillExpire'
  <2>1. CounterSound /\ key.there
    BY <1>2, <1>8 DEF SlotInv
  <2>2. key'.expires = moment + KeyTtl
    BY <1>4, <2>1 DEF Expiry
  <2>3. \A u \in Visits : visit'[u] = "open" => u = v
    BY <1>2, <1>5, <2>1 DEF CounterSound, HasSlot
  <2>4. endsAt'[v] < key'.expires /\ key'.expires # 0
    BY <1>1, <1>6, <2>2
  <2>5. \A u \in Visits : HasSlot(u)' => HasSlot(u)
    BY <1>2, <1>5 DEF HasSlot
  <2> QED BY <1>4, <1>5, <2>1, <2>3, <2>4, <2>5 DEF CounterSound, WillExpire
<1> QED BY <1>7, <1>8 DEF SlotInv

(* DECR, by a request that was counted.                                      *)
LEMMA DecrKeeps ==
    ASSUME SlotInv, NEW v \in Visits, visit[v] \in {"refusing", "releasing"}, Count(-1),
           NEW s \in {"gone", "deleting"}, Awaits(v, s), strayed' = (strayed \/ ~key.there),
           UNCHANGED <<moment, endsAt, lost, leaked>>
    PROVE  SlotInv'
<1>1. SlotTyped /\ key.n \in Int
  BY DEF SlotInv, SlotTyped
<1>2. /\ key' \in [there : BOOLEAN, n : Int, expires : Nat] /\ key'.n = key.n - 1
      /\ key'.expires = key.expires /\ key'.there
  <2>1. PICK m \in Int : m = key.n - 1
    BY <1>1
  <2>2. key.n + (-1) = m
    BY <1>1, <2>1
  <2>3. key' = [key EXCEPT !.there = TRUE, !.n = m]
    BY <1>1, <2>2 DEF SlotTyped, Count
  <2> QED BY <1>1, <2>1, <2>3 DEF SlotTyped
<1>3. /\ visit' \in [Visits -> VisitSteps] /\ visit'[v] = s
      /\ \A u \in Visits : u # v => visit'[u] = visit[u]
      /\ Counted' = Counted \ {v}
  BY <1>1, VisitMoves DEF VisitSteps
<1>4. SlotTyped'
  BY <1>1, <1>2, <1>3 DEF SlotTyped
<1>5. ASSUME ~strayed' PROVE CounterSound' /\ (leaked' \/ key'.n = 0 \/ WillExpire')
  <2>1. CounterSound /\ (leaked \/ key.n = 0 \/ WillExpire)
    BY <1>5 DEF SlotInv
  <2>2. v \in Counted /\ IsFiniteSet(Counted)
    BY <2>1 DEF Counted, CounterSound
  <2>3. /\ IsFiniteSet(Counted') /\ Cardinality(Counted') \in Nat
        /\ Cardinality(Counted') + 1 = Cardinality(Counted)
    BY <1>3, <2>2, OneFewer
  <2>4. Cardinality(Counted) <= key.n
    BY <2>1 DEF CounterSound
  <2>5. Cardinality(Counted') <= key'.n /\ key.n # 0
    BY <1>1, <1>2, <2>3, <2>4
  <2>6. \A u \in Visits : (HasSlot(u)' => HasSlot(u)) /\ (visit'[u] = "open" => visit[u] = "open")
                          /\ (visit[u] = "expiring" => visit'[u] = "expiring")
    BY <1>3 DEF HasSlot
  <2>7. leaked' \/ WillExpire'
    BY <1>2, <2>1, <2>5, <2>6 DEF WillExpire
  <2> QED BY <1>2, <2>1, <2>3, <2>5, <2>6, <2>7 DEF CounterSound
<1> QED BY <1>4, <1>5 DEF SlotInv

(* DEL of a counter at zero.                                                 *)
LEMMA DeleteKeeps ==
    ASSUME SlotInv, NEW v \in Visits, DeleteKey(v)
    PROVE  SlotInv'
<1>1. /\ SlotTyped /\ visit[v] = "deleting" /\ key' = NoKey /\ Awaits(v, "gone")
      /\ strayed' = (strayed \/ (key.there /\ key.n # 0)) /\ UNCHANGED <<moment, endsAt, lost, leaked>>
  BY DEF SlotInv, DeleteKey
<1>2. /\ visit' \in [Visits -> VisitSteps] /\ visit'[v] = "gone"
      /\ \A u \in Visits : u # v => visit'[u] = visit[u]
      /\ Counted' = Counted
  <2>1. Counted \ {v} = Counted
    BY <1>1 DEF Counted
  <2> QED BY <1>1, <2>1, VisitMoves DEF VisitSteps
<1>3. /\ key' \in [there : BOOLEAN, n : Int, expires : Nat] /\ key'.n = 0
  BY <1>1 DEF NoKey
<1>4. SlotTyped'
  BY <1>1, <1>2, <1>3 DEF SlotTyped
<1>5. ASSUME ~strayed' PROVE CounterSound'
  <2>1. CounterSound /\ ~(key.there /\ key.n # 0)
    BY <1>1, <1>5 DEF SlotInv
  <2>2. key.n = 0
    BY <1>1, <2>1 DEF SlotTyped
  <2>3. Cardinality(Counted) = 0 /\ IsFiniteSet(Counted)
    BY <2>1, <2>2, FS_CardinalityType DEF CounterSound
  <2>4. Counted = {}
    BY <2>3, FS_EmptySet
  <2>5. \A u \in Visits : ~HasSlot(u)' /\ visit'[u] # "open"
    BY <1>2, <2>4 DEF HasSlot, Counted
  <2> QED BY <1>2, <1>3, <2>3, <2>5 DEF CounterSound
<1> QED BY <1>3, <1>4, <1>5 DEF SlotInv

(* The visitor leaves, or an instance dies: the counter stays.               *)
LEMMA LeavesKeeps ==
    ASSUME SlotInv, NEW v \in Visits, CloseStream(v) \/ InstanceDies(v)
    PROVE  SlotInv'
<1>1. PICK s \in {"releasing", "dead"} :
        /\ Awaits(v, s) /\ (s = "releasing" => visit[v] = "open")
        /\ (visit[v] = "expiring" => leaked') /\ (leaked => leaked')
  <2>1. CASE CloseStream(v)
    <3>1. Awaits(v, "releasing") /\ visit[v] = "open" /\ leaked' = leaked
      BY <2>1 DEF CloseStream
    <3>2. visit[v] # "expiring"
      BY <3>1
    <3> QED BY <3>1, <3>2
  <2>2. CASE InstanceDies(v)
    <3>1. Awaits(v, "dead") /\ leaked' = (leaked \/ visit[v] = "expiring")
      BY <2>2 DEF InstanceDies
    <3>2. (visit[v] = "expiring" => leaked') /\ (leaked => leaked')
      BY <3>1
    <3>3. "dead" # "releasing"
      OBVIOUS
    <3> QED BY <3>1, <3>2, <3>3
  <2> QED BY <2>1, <2>2
<1>2. SlotTyped /\ UNCHANGED <<moment, key, endsAt, strayed>>
  BY DEF SlotInv, CloseStream, InstanceDies
<1>3. /\ visit' \in [Visits -> VisitSteps] /\ visit'[v] = s
      /\ \A u \in Visits : u # v => visit'[u] = visit[u]
      /\ (s = "releasing" => Counted' = Counted \cup {v}) /\ (s = "dead" => Counted' = Counted \ {v})
  BY <1>1, <1>2, VisitMoves DEF VisitSteps
<1>4. SlotTyped'
  BY <1>2, <1>3 DEF SlotTyped
<1>5. ASSUME ~strayed' PROVE CounterSound' /\ (leaked' \/ key'.n = 0 \/ WillExpire')
  <2>1. CounterSound /\ (leaked \/ key.n = 0 \/ WillExpire)
    BY <1>2, <1>5 DEF SlotInv
  <2>2. Counted' \subseteq Counted
    BY <1>1, <1>3 DEF Counted
  <2>3. /\ IsFiniteSet(Counted') /\ Cardinality(Counted') \in Nat
        /\ Cardinality(Counted') <= Cardinality(Counted) /\ Cardinality(Counted) \in Nat
    BY <2>1, <2>2, FS_Subset, FS_CardinalityType DEF CounterSound
  <2>4. Cardinality(Counted') <= key'.n
    BY <1>2, <2>1, <2>3 DEF CounterSound, SlotTyped
  <2>5. \A u \in Visits : (HasSlot(u)' => HasSlot(u)) /\ (visit'[u] = "open" => visit[u] = "open")
    BY <1>1, <1>3 DEF HasSlot
  <2>6. leaked' \/ key'.n = 0 \/ WillExpire'
    <3>1. CASE visit[v] = "expiring"
      BY <1>1, <1>2, <3>1
    <3>2. CASE visit[v] # "expiring"
      <4>1. \A u \in Visits : visit[u] = "expiring" => visit'[u] = "expiring"
        BY <1>3, <3>2
      <4> QED BY <1>1, <1>2, <2>1, <4>1 DEF WillExpire
    <3> QED BY <3>1, <3>2
  <2> QED BY <1>2, <2>1, <2>3, <2>4, <2>5, <2>6 DEF CounterSound
<1> QED BY <1>4, <1>5 DEF SlotInv

(* Redis drops the key only when no stream is open.                          *)
LEMMA MomentKeeps ==
    ASSUME SlotInv, MomentPasses
    PROVE  SlotInv'
<1>1. /\ SlotTyped /\ moment \in Nat /\ moment' = moment + 1
      /\ (\A v \in Visits : visit[v] = "open" => moment < endsAt[v])
      /\ key' = (IF Expires THEN NoKey ELSE key)
      /\ strayed' = (strayed \/ (Expires /\ \E v \in Visits : visit[v] \in Between))
      /\ UNCHANGED <<visit, endsAt, lost, leaked>>
  BY DEF SlotInv, SlotTyped, MomentPasses
<1>2. NoKey \in [there : BOOLEAN, n : Int, expires : Nat] /\ NoKey.n = 0
  BY DEF NoKey
<1>3. SlotTyped'
  BY <1>1, <1>2 DEF SlotTyped
<1>4. ASSUME ~strayed' PROVE CounterSound' /\ (leaked' \/ key'.n = 0 \/ WillExpire')
  <2>1. CounterSound /\ (leaked \/ key.n = 0 \/ WillExpire)
    BY <1>1, <1>4 DEF SlotInv
  <2>2. Counted' = Counted
    BY <1>1 DEF Counted
  <2>3. CASE ~Expires
    <3>1. key' = key
      BY <1>1, <2>3
    <3> QED BY <1>1, <2>1, <2>2, <3>1 DEF CounterSound, WillExpire, HasSlot
  <2>4. CASE Expires
    <3>1. \A v \in Visits : visit[v] \notin Between
      BY <1>1, <1>4, <2>4
    <3>2. \A v \in Visits : visit[v] # "open"
      <4> SUFFICES ASSUME NEW v \in Visits, visit[v] = "open" PROVE FALSE
        OBVIOUS
      <4>1. endsAt[v] \in Nat /\ key.expires \in Nat /\ endsAt[v] < key.expires /\ moment < endsAt[v]
        BY <1>1, <2>1 DEF CounterSound, SlotTyped
      <4> QED BY <1>1, <2>4, <4>1 DEF Expires
    <3>3. Counted = {} /\ \A v \in Visits : ~HasSlot(v)
      BY <3>1, <3>2 DEF Counted, HasSlot, Between
    <3>4. key'.n = 0
      BY <1>1, <1>2, <2>4
    <3>5. IsFiniteSet(Counted') /\ Cardinality(Counted') = 0
      BY <2>2, <3>3, FS_EmptySet
    <3>6. CounterSound'
      BY <1>1, <3>2, <3>3, <3>4, <3>5 DEF CounterSound, HasSlot
    <3> QED BY <3>4, <3>6
  <2> QED BY <2>3, <2>4
<1> QED BY <1>3, <1>4 DEF SlotInv

(* With one stream per address, as the demo is configured                    *)
(* (DEMO_LIMITS.perIpStreams), an address never has two, and what a dead     *)
(* instance held comes back, unless a command met another counter than its   *)
(* own, or an instance died between INCR and EXPIRE.  With two streams per   *)
(* address the second may outlive the key, which is why the value matters.   *)
THEOREM SlotsAreSound ==
    ASSUME PerIp = 1
    PROVE  SlotSpec => []SlotsSound
<1>1. SlotInit => SlotInv
  <2> SUFFICES ASSUME SlotInit PROVE SlotInv
    OBVIOUS
  <2>1. /\ moment = 1 /\ key = NoKey /\ strayed = FALSE
        /\ visit = [v \in Visits |-> "none"] /\ endsAt = [v \in Visits |-> 0]
    BY DEF SlotInit
  <2>2. key \in [there : BOOLEAN, n : Int, expires : Nat] /\ key.n = 0
    BY <2>1 DEF NoKey
  <2>3. SlotTyped
    BY <2>1, <2>2 DEF SlotTyped, VisitSteps
  <2>4. \A v \in Visits : visit[v] = "none"
    BY <2>1
  <2>5. Counted = {} /\ IsFiniteSet(Counted) /\ Cardinality(Counted) = 0
    <3>1. Counted = {}
      BY <2>4 DEF Counted
    <3> QED BY <3>1, FS_EmptySet
  <2>6. CounterSound
    BY <2>2, <2>4, <2>5 DEF CounterSound, HasSlot
  <2> QED BY <2>2, <2>3, <2>6 DEF SlotInv
<1>2. SlotInv /\ [SlotNext]_slotVars => SlotInv'
  <2> SUFFICES ASSUME SlotInv, [SlotNext]_slotVars PROVE SlotInv'
    OBVIOUS
  <2>1. ASSUME NEW v \in Visits, Refuse(v) PROVE SlotInv'
    <3>1. /\ visit[v] \in {"refusing", "releasing"} /\ Count(-1) /\ Awaits(v, "gone")
          /\ strayed' = (strayed \/ ~key.there) /\ UNCHANGED <<moment, endsAt, lost, leaked>>
      BY <2>1 DEF Refuse
    <3> QED BY <3>1, DecrKeeps
  <2>2. ASSUME NEW v \in Visits, ReleaseStream(v) PROVE SlotInv'
    <3>1. PICK s \in {"gone", "deleting"} :
             /\ visit[v] \in {"refusing", "releasing"} /\ Count(-1) /\ Awaits(v, s)
             /\ strayed' = (strayed \/ ~key.there) /\ UNCHANGED <<moment, endsAt, lost, leaked>>
      BY <2>2 DEF ReleaseStream
    <3> QED BY <3>1, DecrKeeps
  <2>3. CASE UNCHANGED slotVars
    <3>1. UNCHANGED <<moment, key, visit, endsAt, lost, leaked, strayed>>
      BY <2>3 DEF slotVars
    <3> QED BY <3>1 DEF SlotInv, SlotTyped, CounterSound, Counted, HasSlot, WillExpire
  <2> QED BY <2>1, <2>2, <2>3, IncrKeeps, ExpireKeeps, DeleteKeeps, LeavesKeeps, MomentKeeps DEF SlotNext
<1>3. SlotInv => SlotsSound
  <2> SUFFICES ASSUME SlotInv, ~strayed
               PROVE  /\ Cardinality(OpenStreams) <= PerIp
                      /\ leaked \/ key.n <= Cardinality(Counted) \/ WillExpire
    BY DEF SlotsSound, StreamsLimited, LeaksExpire
  <2>1. CounterSound /\ (leaked \/ key.n = 0 \/ WillExpire)
    BY DEF SlotInv
  <2>2. Cardinality(OpenStreams) <= 1
    <3>1. \A u, v \in OpenStreams : u = v
      BY <2>1 DEF OpenStreams, CounterSound, HasSlot
    <3> QED BY <3>1, AtMostOne
  <2>3. Cardinality(Counted) \in Nat
    BY <2>1, FS_CardinalityType DEF CounterSound
  <2>4. key.n = 0 => key.n <= Cardinality(Counted)
    BY <2>3
  <2> QED BY <2>1, <2>2, <2>4
<1> QED BY <1>1, <1>2, <1>3, PTL DEF SlotSpec

-----------------------------------------------------------------------------
(* BackstopSubscription                                                      *)

SubStates == {"active", "expiring", "lapsed", "cancelled"}
Moves     == {"renew", "reactivate", "beginExpiring", "lapse", "cancel"}
MaybeAt   == Ledgers \cup {Unset}
Window    == [start : Ledgers, end : Ledgers, covered : BOOLEAN]
Method    == [op : Moves \cup {"sealTo", "none"}, at : Ledgers, lapses : MaybeAt,
              from : Ledgers, state : SubStates \cup {"none"},
              step : {"none", "append", "reopen", "move", "announce"}]

BackstopTyped ==
    /\ sub \in [state : SubStates, openedAt : Ledgers, announced : MaybeAt]
    /\ windows \subseteq Window /\ method \in [Callers -> Method] /\ microtasks \in Seq(Callers)
    /\ inForce \in [Ledgers -> SubStates] /\ early \subseteq Ledgers /\ raced \in BOOLEAN
    /\ notice \in [told : MaybeAt, lapses : MaybeAt]
    /\ \A c \in Callers :
          LET m == method[c] IN
          IF m.step = "none" THEN m = Resting
          ELSE /\ m.op # "none" /\ m.state # "none" /\ m.from < m.at
               /\ m.step \in {"move", "announce"} => m.op # "sealTo"
               /\ m.op = "beginExpiring" => m.lapses - m.at >= WindowLedgers /\ m.lapses # Unset

Reopening(c) == method[c].step = "reopen"

(* The recorded ledgers are those up to here: up to openedAt, or to the end  *)
(* of the one window whose call has yet to move openedAt there.              *)
RecordedTo(t) ==
    \/ t = sub.openedAt /\ \A c \in Callers : ~Reopening(c)
    \/ \E c \in Callers : Reopening(c) /\ t = method[c].at

Hits(w, l) == w.start <= l /\ l < w.end

Tiled ==
    /\ \A c, d \in Callers : Reopening(c) /\ Reopening(d) => c = d
    /\ \A c \in Callers : /\ Reopening(c) => method[c].from = sub.openedAt
                          /\ method[c].step = "append" => method[c].from <= sub.openedAt
    /\ \A t \in Ledgers : RecordedTo(t) =>
          /\ \A w \in windows : w.start < w.end /\ w.end <= t
          /\ \A l \in Ledgers : l < t => \E w \in windows : Hits(w, l)
    /\ \A v, w \in windows : \A l \in Ledgers : Hits(v, l) /\ Hits(w, l) => v = w

(* As long as no call started between two microtasks of another: one call    *)
(* at a time goes on, and a window still to be appended starts at openedAt   *)
(* only if the state has been the same since the call looked at it.          *)
GoesOn(c)   == method[c].step \in {"reopen", "move", "announce"}
Current(c)  == method[c].step \in {"append", "reopen"} /\ method[c].from = sub.openedAt

OneAtATime ==
    /\ \A c, d \in Callers : GoesOn(c) /\ GoesOn(d) => c = d
    /\ \A c \in Callers : GoesOn(c) => microtasks # <<>>
    /\ \A c, d \in Callers : method[c].step \in {"move", "announce"} => ~Current(d)
    /\ \A c \in Callers : /\ Current(c) => method[c].state = sub.state
                          /\ method[c].step \in {"move", "announce"} => method[c].at = sub.openedAt
                          /\ method[c].step = "announce" => sub.state = Target[method[c].op]
    /\ \A l \in Ledgers : l >= sub.openedAt => inForce[l] = sub.state
    /\ \A w \in windows, l \in Ledgers : Hits(w, l) => w.covered = IsCoveredState(inForce[l])

(* The subscriber knows of the lapse to come, and a call that lapses keeps   *)
(* to what was announced.                                                    *)
Told ==
    /\ notice.lapses # Unset /\ notice.told # Unset /\ sub.announced = notice.lapses
    /\ notice.lapses >= notice.told + WindowLedgers
KeepsNotice(at) ==
    /\ notice.lapses # Unset /\ at >= notice.lapses /\ at >= notice.told + WindowLedgers

Noticed ==
    /\ early = {}
    /\ sub.state = "expiring" => Told \/ \E c \in Callers : method[c].step = "announce"
    /\ \A c \in Callers :
          method[c].op = "lapse" /\ (Current(c) \/ method[c].step = "move")
              => KeepsNotice(method[c].at)

BackstopInv ==
    BackstopTyped /\ Tiled /\ (~raced => OneAtATime /\ Noticed)

(* The states the methods lead to.                                           *)
LEMMA TargetsLegal ==
    /\ \A op \in Moves : Target[op] \in SubStates
    /\ \A op \in Moves : Target[op] = "expiring" => op = "beginExpiring"
    /\ \A s \in SubStates : Target["lapse"] \in LegalTransitions[s] => s = "expiring"
<1>1. /\ Target["renew"] = "active" /\ Target["reactivate"] = "active"
      /\ Target["beginExpiring"] = "expiring" /\ Target["lapse"] = "lapsed"
      /\ Target["cancel"] = "cancelled"
  BY DEF Target
<1>2. /\ LegalTransitions["active"] = {"expiring", "cancelled"}
      /\ LegalTransitions["expiring"] = {"active", "lapsed"}
      /\ LegalTransitions["lapsed"] = {"active"} /\ LegalTransitions["cancelled"] = {"active"}
  BY DEF LegalTransitions
<1> QED BY <1>1, <1>2 DEF Moves, SubStates

(* A ledger is a natural number, and what is typed has the fields it should. *)
LEMMA LedgerFacts ==
    /\ \A l \in Ledgers : l \in Nat
    /\ \A l \in MaybeAt : l \in Int
    /\ \A m \in Method : /\ m.at \in Ledgers /\ m.from \in Ledgers /\ m.lapses \in MaybeAt
                         /\ m.at \in Nat /\ m.from \in Nat /\ m.lapses \in Int
    /\ \A w \in Window : /\ w.start \in Ledgers /\ w.end \in Ledgers /\ w.covered \in BOOLEAN
                         /\ w.start \in Nat /\ w.end \in Nat
    /\ Unset \in MaybeAt /\ 0 \in Ledgers /\ WindowLedgers \in Nat
<1>1. \A l \in Ledgers : l \in Nat
  BY BackstopAssumption DEF Ledgers
<1>2. \A l \in MaybeAt : l \in Int
  BY <1>1 DEF MaybeAt, Unset
<1>3. Unset \in MaybeAt /\ 0 \in Ledgers /\ WindowLedgers \in Nat
  BY BackstopAssumption DEF MaybeAt, Ledgers
<1>4. \A m \in Method : m.at \in Ledgers /\ m.from \in Ledgers /\ m.lapses \in MaybeAt
  BY DEF Method
<1>5. \A w \in Window : w.start \in Ledgers /\ w.end \in Ledgers /\ w.covered \in BOOLEAN
  BY DEF Window
<1> QED BY <1>1, <1>2, <1>3, <1>4, <1>5

(* A call that rests.                                                        *)
LEMMA RestingTyped ==
    Resting \in Method /\ Resting.step = "none" /\ Resting.op = "none"
BY LedgerFacts DEF Resting, Method

(* A microtask runs: the call goes on to its next await, and no other does.  *)
LEMMA MicrotaskRuns ==
    ASSUME BackstopTyped, NEW c \in Callers, NEW next \in {"none", "move", "announce"},
           method[c].step # "none", RunsMicrotask(c, next)
    PROVE  /\ method' \in [Callers -> Method] /\ microtasks' \in Seq(Callers)
           /\ \A d \in Callers : d # c => method'[d] = method[d]
           /\ next = "none" => method'[c] = Resting
           /\ next # "none" => /\ microtasks' # <<>> /\ method'[c].step = next
                               /\ method'[c].op = method[c].op /\ method'[c].at = method[c].at
                               /\ method'[c].lapses = method[c].lapses
                               /\ method'[c].from = method[c].from
                               /\ method'[c].state = method[c].state
<1>1. PICK m : m = method[c]
  OBVIOUS
<1>2. PICK n : n = IF next = "none" THEN Resting ELSE [m EXCEPT !.step = next]
  OBVIOUS
<1>3. /\ microtasks # <<>> /\ method' = [method EXCEPT ![c] = n]
      /\ microtasks' = IF next = "none" THEN Tail(microtasks) ELSE Append(Tail(microtasks), c)
  BY <1>1, <1>2 DEF RunsMicrotask, BackstopTyped
<1>4. m \in Method /\ n \in Method /\ (next = "none" => n = Resting)
      /\ (next # "none" => /\ n.step = next /\ n.op = m.op /\ n.at = m.at /\ n.lapses = m.lapses
                           /\ n.from = m.from /\ n.state = m.state)
  BY <1>1, <1>2, RestingTyped DEF BackstopTyped, Method
<1>5. method' \in [Callers -> Method] /\ method'[c] = n
      /\ \A d \in Callers : d # c => method'[d] = method[d]
  BY <1>3, <1>4 DEF BackstopTyped
<1>6. Tail(microtasks) \in Seq(Callers)
  BY <1>3 DEF BackstopTyped
<1>7. Append(Tail(microtasks), c) \in Seq(Callers) /\ Append(Tail(microtasks), c) # <<>>
  <2>1. PICK t \in Seq(Callers) : t = Tail(microtasks)
    BY <1>6
  <2>2. Append(t, c) \in Seq(Callers) /\ Len(Append(t, c)) = Len(t) + 1 /\ Len(t) \in Nat
    BY <2>1
  <2>3. Len(<<>>) = 0
    OBVIOUS
  <2>4. Append(t, c) # <<>>
    BY <2>2, <2>3
  <2> QED BY <2>1, <2>2, <2>4
<1>8. microtasks' \in Seq(Callers) /\ (next # "none" => microtasks' # <<>>)
  BY <1>3, <1>6, <1>7
<1> QED BY <1>1, <1>4, <1>5, <1>8

(* What is recorded is recorded up to one ledger.                            *)
LEMMA OneRecordedTo ==
    ASSUME BackstopTyped, Tiled
    PROVE  /\ \E t \in Ledgers : RecordedTo(t)
           /\ \A s, t \in Ledgers : RecordedTo(s) /\ RecordedTo(t) => s = t
<1>1. sub.openedAt \in Ledgers /\ \A c \in Callers : method[c].at \in Ledgers
  BY LedgerFacts DEF BackstopTyped
<1>2. \E t \in Ledgers : RecordedTo(t)
  BY <1>1 DEF RecordedTo
<1>3. \A s, t \in Ledgers : RecordedTo(s) /\ RecordedTo(t) => s = t
  BY DEF RecordedTo, Tiled
<1> QED BY <1>2, <1>3

(* A call starts: it is of the current state.                                *)
LEMMA MethodStarts ==
    ASSUME BackstopInv, NEW c \in Callers, NEW op \in Moves \cup {"sealTo"}, NEW at \in Ledgers,
           NEW lapses \in MaybeAt, StartsMethod(c, op, at, lapses),
           op = "beginExpiring" => lapses - at >= WindowLedgers /\ lapses # Unset,
           op = "lapse" => sub.state = "expiring" /\ MayLapse(at)
    PROVE  BackstopInv'
<1>1. PICK n : n = [op |-> op, at |-> at, lapses |-> lapses, from |-> sub.openedAt,
                    state |-> sub.state, step |-> "append"]
  OBVIOUS
<1>2. /\ method[c] = Resting /\ at > sub.openedAt /\ method' = [method EXCEPT ![c] = n]
      /\ raced' = (raced \/ microtasks # <<>>)
      /\ UNCHANGED <<sub, windows, microtasks, inForce, notice, early>>
  BY <1>1 DEF StartsMethod
<1>3. BackstopTyped /\ Tiled
  BY DEF BackstopInv
<1>4. /\ n \in Method /\ n.op = op /\ n.at = at /\ n.lapses = lapses /\ n.from = sub.openedAt
      /\ n.state = sub.state /\ n.step = "append"
  BY <1>1, <1>3 DEF BackstopTyped, Method
<1>5. method'[c] = n /\ \A d \in Callers : d # c => method'[d] = method[d]
  BY <1>2, <1>3 DEF BackstopTyped
<1>6. BackstopTyped'
  <2>1. method' \in [Callers -> Method] /\ raced' \in BOOLEAN
    BY <1>2, <1>3, <1>4 DEF BackstopTyped
  <2>2. op # "none" /\ sub.state # "none" /\ sub.openedAt < at
    BY <1>2, <1>3, LedgerFacts DEF BackstopTyped, Moves, SubStates
  <2>3. \A d \in Callers :
          LET m == method'[d] IN
          IF m.step = "none" THEN m = Resting
          ELSE /\ m.op # "none" /\ m.state # "none" /\ m.from < m.at
               /\ m.step \in {"move", "announce"} => m.op # "sealTo"
               /\ m.op = "beginExpiring" => m.lapses - m.at >= WindowLedgers /\ m.lapses # Unset
    BY <1>3, <1>4, <1>5, <2>2 DEF BackstopTyped
  <2> QED BY <1>2, <1>3, <2>1, <2>3 DEF BackstopTyped
<1>7. \A d \in Callers : Reopening(d)' <=> Reopening(d)
  BY <1>2, <1>4, <1>5, RestingTyped DEF Reopening
<1>8. \A t : RecordedTo(t)' <=> RecordedTo(t)
  BY <1>2, <1>4, <1>5, <1>7, RestingTyped DEF RecordedTo, Reopening
<1>9. Tiled'
  <2>1. sub.openedAt <= sub.openedAt
    BY <1>3, LedgerFacts DEF BackstopTyped
  <2>2. \A d \in Callers : /\ Reopening(d)' => method'[d].from = sub'.openedAt
                           /\ method'[d].step = "append" => method'[d].from <= sub'.openedAt
    BY <1>2, <1>3, <1>4, <1>5, <1>7, <2>1 DEF Tiled, Reopening
  <2> QED BY <1>2, <1>3, <1>7, <1>8, <2>2 DEF Tiled, Hits
<1>10. ASSUME ~raced' PROVE OneAtATime' /\ Noticed'
  <2>1. ~raced /\ microtasks = <<>> /\ OneAtATime /\ Noticed
    BY <1>2, <1>10 DEF BackstopInv
  <2>2. \A d \in Callers : ~GoesOn(d)
    BY <2>1 DEF OneAtATime
  <2>3. \A d \in Callers : ~GoesOn(d)'
    BY <1>4, <1>5, <2>2 DEF GoesOn
  <2>4. \A d \in Callers : Current(d)' => (d = c \/ (Current(d) /\ method'[d] = method[d]))
    BY <1>2, <1>5 DEF Current
  <2>5. \A d \in Callers : Current(d)' => method'[d].state = sub'.state
    BY <1>2, <1>4, <1>5, <2>1, <2>4 DEF OneAtATime
  <2>6. OneAtATime'
    BY <1>2, <2>1, <2>3, <2>5 DEF OneAtATime, GoesOn, Hits, IsCoveredState
  <2>7. op = "lapse" => KeepsNotice(at)
    <3> SUFFICES ASSUME op = "lapse" PROVE KeepsNotice(at)
      OBVIOUS
    <3>1. Told /\ MayLapse(at)
      BY <2>1, <2>2 DEF Noticed, GoesOn
    <3>2. notice.lapses \in Int /\ notice.told \in Int /\ at \in Int /\ WindowLedgers \in Int
      BY <1>3, LedgerFacts DEF BackstopTyped
    <3> QED BY <3>1, <3>2 DEF Told, MayLapse, KeepsNotice
  <2>8. sub'.state = "expiring" => Told'
    BY <1>2, <2>1, <2>2 DEF Noticed, GoesOn, Told
  <2>9. \A d \in Callers :
          method'[d].op = "lapse" /\ (Current(d)' \/ method'[d].step = "move")
              => KeepsNotice(method[d].at)'
    <3> SUFFICES ASSUME NEW d \in Callers, method'[d].op = "lapse", Current(d)'
                 PROVE  KeepsNotice(method[d].at)'
      BY <2>3 DEF GoesOn
    <3>1. CASE d = c
      BY <1>2, <1>4, <1>5, <2>7, <3>1 DEF KeepsNotice
    <3>2. CASE d # c
      BY <1>2, <2>1, <2>4, <3>2 DEF Noticed, KeepsNotice
    <3> QED BY <3>1, <3>2
  <2> QED BY <1>2, <2>1, <2>6, <2>8, <2>9 DEF Noticed
<1> QED BY <1>6, <1>9, <1>10 DEF BackstopInv

(* Only a window that starts at openedAt is not refused, and only while no   *)
(* other one was appended since.                                             *)
LEMMA OnlyNextAccepted ==
    ASSUME BackstopTyped, Tiled, NEW c \in Callers, method[c].step = "append",
           ~Refused(Closed(method[c]))
    PROVE  method[c].from = sub.openedAt /\ \A d \in Callers : ~Reopening(d)
<1>1. PICK m \in Method : m = method[c]
  BY DEF BackstopTyped
<1>2. m.from \in Ledgers /\ m.at \in Ledgers /\ m.from \in Nat /\ m.at \in Nat /\ m.from < m.at
      /\ m.from <= sub.openedAt /\ sub.openedAt \in Nat /\ sub.openedAt \in Ledgers
  BY <1>1, LedgerFacts DEF BackstopTyped, Tiled
<1>3. PICK t \in Ledgers : RecordedTo(t)
  BY OneRecordedTo
<1>4. ~(m.from < t)
  <2> SUFFICES ASSUME m.from < t PROVE FALSE
    OBVIOUS
  <2>1. PICK w \in windows : Hits(w, m.from)
    BY <1>2, <1>3 DEF Tiled
  <2>2. w.start \in Nat /\ w.end \in Nat
    BY LedgerFacts DEF BackstopTyped
  <2>3. Closed(m).start = m.from /\ Closed(m).end = m.at
    BY DEF Closed
  <2>4. Closed(m).start < w.end /\ w.start < Closed(m).end
    BY <1>2, <2>1, <2>2, <2>3 DEF Hits
  <2>5. Overlapping(Closed(m)) # {}
    BY <2>4 DEF Overlapping
  <2> QED BY <1>1, <2>5 DEF Refused
<1>5. t \in Nat
  BY LedgerFacts
<1>6. \A d \in Callers : ~Reopening(d)
  <2> SUFFICES ASSUME NEW d \in Callers, Reopening(d) PROVE FALSE
    OBVIOUS
  <2>1. method[d].from = sub.openedAt /\ method[d].at \in Ledgers
    BY LedgerFacts DEF Tiled, BackstopTyped
  <2>2. method[d].from < method[d].at
    BY DEF BackstopTyped, Reopening
  <2>3. t = method[d].at
    BY <1>3, <2>1, OneRecordedTo DEF RecordedTo
  <2> QED BY <1>2, <1>4, <1>5, <2>1, <2>2, <2>3
<1>7. t = sub.openedAt
  BY <1>3, <1>6 DEF RecordedTo
<1> QED BY <1>1, <1>2, <1>4, <1>5, <1>6, <1>7

(* A call whose window is refused is over; nothing else changes.             *)
LEMMA RefusedKeeps ==
    ASSUME BackstopInv, NEW c \in Callers, method[c].step = "append",
           method' = [method EXCEPT ![c] = Resting],
           UNCHANGED <<sub, windows, microtasks, inForce, notice, early, raced>>
    PROVE  BackstopInv'
<1>1. BackstopTyped /\ Tiled
  BY DEF BackstopInv
<1>2. method'[c] = Resting /\ \A d \in Callers : d # c => method'[d] = method[d]
  BY <1>1 DEF BackstopTyped
<1>3. BackstopTyped'
  <2>1. method' \in [Callers -> Method]
    BY <1>1, RestingTyped DEF BackstopTyped
  <2>2. \A d \in Callers :
          LET m == method'[d] IN
          IF m.step = "none" THEN m = Resting
          ELSE /\ m.op # "none" /\ m.state # "none" /\ m.from < m.at
               /\ m.step \in {"move", "announce"} => m.op # "sealTo"
               /\ m.op = "beginExpiring" => m.lapses - m.at >= WindowLedgers /\ m.lapses # Unset
    BY <1>1, <1>2, RestingTyped DEF BackstopTyped
  <2> QED BY <1>1, <2>1, <2>2 DEF BackstopTyped
<1>4. \A d \in Callers : /\ Reopening(d)' <=> Reopening(d)
                         /\ GoesOn(d)' <=> GoesOn(d)
                         /\ Current(d)' => Current(d) /\ d # c
                         /\ method'[d].step \in {"append", "move", "announce"}
                               => d # c /\ method'[d] = method[d]
                         /\ Reopening(d) \/ GoesOn(d) => method'[d] = method[d]
  BY <1>2, RestingTyped DEF Reopening, GoesOn, Current
<1>5. \A t : RecordedTo(t)' <=> RecordedTo(t)
  BY <1>4 DEF RecordedTo
<1>6. Tiled'
  BY <1>1, <1>4, <1>5 DEF Tiled, Hits
<1>7. ASSUME ~raced' PROVE OneAtATime' /\ Noticed'
  <2>1. OneAtATime /\ Noticed
    BY <1>7 DEF BackstopInv
  <2>2. OneAtATime'
    BY <1>2, <1>4, <2>1 DEF OneAtATime, Hits, IsCoveredState
  <2>3. \A d \in Callers : method[d].step = "announce" => method'[d].step = "announce"
    BY <1>2
  <2>4. sub'.state = "expiring" => Told' \/ \E d \in Callers : method'[d].step = "announce"
    BY <2>1, <2>3 DEF Noticed, Told
  <2>5. \A d \in Callers :
          method'[d].op = "lapse" /\ (Current(d)' \/ method'[d].step = "move")
              => KeepsNotice(method[d].at)'
    BY <1>2, <1>4, <2>1 DEF Noticed, KeepsNotice
  <2> QED BY <2>1, <2>2, <2>4, <2>5 DEF Noticed
<1> QED BY <1>3, <1>6, <1>7 DEF BackstopInv

(* A window that is appended goes on from openedAt to the ledger of the      *)
(* call, and the state it records has been in force all along.               *)
LEMMA AppendKeeps ==
    ASSUME BackstopInv, NEW c \in Callers, AppendWindow(c)
    PROVE  BackstopInv'
<1>1. BackstopTyped /\ Tiled
  BY DEF BackstopInv
<1>2. method[c].step = "append" /\ UNCHANGED <<sub, inForce, notice, early, raced>>
  BY DEF AppendWindow
<1>3. CASE Refused(Closed(method[c]))
  <2>1. method' = [method EXCEPT ![c] = Resting] /\ UNCHANGED <<windows, microtasks>>
    BY <1>3 DEF AppendWindow
  <2> QED BY <1>2, <2>1, RefusedKeeps
<1>4. CASE ~Refused(Closed(method[c]))
  <2>1. PICK m \in Method : m = method[c]
    BY <1>1 DEF BackstopTyped
  <2>2. PICK n : n = [m EXCEPT !.step = "reopen"]
    OBVIOUS
  <2>3. PICK W : W = Closed(m)
    OBVIOUS
  <2>4. /\ windows' = windows \cup {W} /\ method' = [method EXCEPT ![c] = n]
        /\ microtasks' = Append(microtasks, c)
    BY <1>1, <1>4, <2>1, <2>2, <2>3 DEF AppendWindow, BackstopTyped
  <2>5. m.from = sub.openedAt /\ \A d \in Callers : ~Reopening(d)
    BY <1>1, <1>2, <1>4, <2>1, OnlyNextAccepted
  <2>6. /\ m.step = "append" /\ m.op # "none" /\ m.state # "none" /\ m.from < m.at
        /\ m.op = "beginExpiring" => m.lapses - m.at >= WindowLedgers /\ m.lapses # Unset
        /\ m.from \in Ledgers /\ m.at \in Ledgers /\ m.from \in Nat /\ m.at \in Nat
        /\ sub.openedAt \in Ledgers /\ sub.openedAt \in Nat
    BY <1>1, <1>2, <2>1, LedgerFacts DEF BackstopTyped
  <2>7. /\ n \in Method /\ n.op = m.op /\ n.at = m.at /\ n.lapses = m.lapses /\ n.from = m.from
        /\ n.state = m.state /\ n.step = "reopen"
    BY <2>1, <2>2 DEF Method
  <2>8. method'[c] = n /\ \A d \in Callers : d # c => method'[d] = method[d]
    BY <1>1, <2>4 DEF BackstopTyped
  <2>9. W \in Window /\ W.start = sub.openedAt /\ W.end = m.at
        /\ W.covered = IsCoveredState(m.state)
    BY <2>3, <2>5, <2>6 DEF Closed, Window, IsCoveredState
  <2>10. microtasks' \in Seq(Callers) /\ microtasks' # <<>>
    <3>1. microtasks \in Seq(Callers)
      BY <1>1 DEF BackstopTyped
    <3>2. Len(Append(microtasks, c)) = Len(microtasks) + 1 /\ Len(microtasks) \in Nat
          /\ Append(microtasks, c) \in Seq(Callers)
      BY <3>1
    <3>3. Len(<<>>) = 0
      OBVIOUS
    <3> QED BY <2>4, <3>2, <3>3
  <2>11. BackstopTyped'
    <3>1. method' \in [Callers -> Method] /\ windows' \subseteq Window
      BY <1>1, <2>4, <2>7, <2>9 DEF BackstopTyped
    <3>2. \A d \in Callers :
            LET p == method'[d] IN
            IF p.step = "none" THEN p = Resting
            ELSE /\ p.op # "none" /\ p.state # "none" /\ p.from < p.at
                 /\ p.step \in {"move", "announce"} => p.op # "sealTo"
                 /\ p.op = "beginExpiring" => p.lapses - p.at >= WindowLedgers /\ p.lapses # Unset
      BY <1>1, <2>6, <2>7, <2>8 DEF BackstopTyped
    <3> QED BY <1>1, <1>2, <2>10, <3>1, <3>2 DEF BackstopTyped
  <2>12. \A d \in Callers : Reopening(d)' <=> d = c
    BY <2>5, <2>7, <2>8 DEF Reopening
  <2>13. \A t : RecordedTo(t)' <=> t = m.at
    BY <2>7, <2>8, <2>12 DEF RecordedTo
  <2>14. /\ \A w \in windows : w.start < w.end /\ w.end <= sub.openedAt
         /\ \A l \in Ledgers : l < sub.openedAt => \E w \in windows : Hits(w, l)
         /\ \A w \in windows : w.start \in Nat /\ w.end \in Nat
         /\ \A l \in Ledgers : l \in Nat
    BY <1>1, <2>5, <2>6, LedgerFacts DEF Tiled, RecordedTo, BackstopTyped
  <2>15. Tiled'
    <3>1. \A d \in Callers : /\ Reopening(d)' => method'[d].from = sub'.openedAt
                             /\ method'[d].step = "append" => method'[d].from <= sub'.openedAt
      BY <1>1, <1>2, <2>5, <2>7, <2>8, <2>12 DEF Tiled
    <3>2. /\ \A w \in windows' : w.start < w.end /\ w.end <= m.at
          /\ \A l \in Ledgers : l < m.at => \E w \in windows' : Hits(w, l)
      BY <2>4, <2>5, <2>6, <2>9, <2>14 DEF Hits
    <3>3. \A v, w \in windows' : \A l \in Ledgers : Hits(v, l) /\ Hits(w, l) => v = w
      <4> SUFFICES ASSUME NEW v \in windows', NEW w \in windows', NEW l \in Ledgers,
                          Hits(v, l), Hits(w, l)
                   PROVE  v = w
        OBVIOUS
      <4>1. CASE l < sub.openedAt
        <5>1. v # W /\ w # W
          BY <2>6, <2>9, <2>14, <4>1 DEF Hits
        <5> QED BY <1>1, <2>4, <5>1 DEF Tiled
      <4>2. CASE ~(l < sub.openedAt)
        <5>1. v \notin windows /\ w \notin windows
          BY <2>6, <2>14, <4>2 DEF Hits
        <5> QED BY <2>4, <5>1
      <4> QED BY <4>1, <4>2
    <3> QED BY <2>12, <2>13, <3>1, <3>2, <3>3 DEF Tiled, Hits
  <2>16. ASSUME ~raced' PROVE OneAtATime' /\ Noticed'
    <3>1. OneAtATime /\ Noticed
      BY <1>2, <2>16 DEF BackstopInv
    <3>2. Current(c) /\ m.state = sub.state
      BY <2>1, <2>5, <2>6, <3>1 DEF Current, OneAtATime
    <3>3. \A d \in Callers : method[d].step \notin {"reopen", "move", "announce"}
      BY <2>5, <3>1, <3>2 DEF OneAtATime, Reopening
    <3>4. \A d \in Callers : /\ GoesOn(d)' <=> d = c
                             /\ method'[d].step \notin {"move", "announce"}
                             /\ Current(d)' => Current(d)
                             /\ method'[d].op = method[d].op /\ method'[d].at = method[d].at
                             /\ method'[d].state = method[d].state
      BY <1>2, <2>1, <2>7, <2>8, <3>2, <3>3 DEF GoesOn, Current
    <3>5. \A w \in windows', l \in Ledgers : Hits(w, l) => w.covered = IsCoveredState(inForce[l])
      <4> SUFFICES ASSUME NEW w \in windows', NEW l \in Ledgers, Hits(w, l)
                   PROVE  w.covered = IsCoveredState(inForce[l])
        OBVIOUS
      <4>1. CASE w \in windows
        BY <3>1, <4>1 DEF OneAtATime
      <4>2. CASE w = W
        <5>1. l >= sub.openedAt
          BY <2>9, <2>6, <2>14, <4>2 DEF Hits
        <5>2. inForce[l] = m.state
          BY <3>1, <3>2, <5>1 DEF OneAtATime
        <5> QED BY <2>9, <4>2, <5>2
      <4> QED BY <2>4, <4>1, <4>2
    <3>6. OneAtATime'
      <4>1. \A d \in Callers : Current(d)' => method'[d].state = sub'.state
        BY <1>2, <3>1, <3>4 DEF OneAtATime
      <4>2. \A l \in Ledgers : l >= sub'.openedAt => inForce'[l] = sub'.state
        BY <1>2, <3>1 DEF OneAtATime
      <4> QED BY <1>2, <2>10, <3>4, <3>5, <4>1, <4>2 DEF OneAtATime, Hits, IsCoveredState
    <3>7. sub'.state = "expiring" => Told'
      BY <1>2, <3>1, <3>3 DEF Noticed, Told
    <3>8. \A d \in Callers :
            method'[d].op = "lapse" /\ (Current(d)' \/ method'[d].step = "move")
                => KeepsNotice(method[d].at)'
      BY <1>2, <3>1, <3>4 DEF Noticed, KeepsNotice
    <3> QED BY <1>2, <3>1, <3>6, <3>7, <3>8 DEF Noticed
  <2> QED BY <2>11, <2>15, <2>16 DEF BackstopInv
<1> QED BY <1>3, <1>4

(* writeOpenWindow goes on: nothing else was appended since, so the record   *)
(* ends where the open window now starts.                                    *)
LEMMA ReopenKeeps ==
    ASSUME BackstopInv, NEW c \in Callers, Reopen(c)
    PROVE  BackstopInv'
<1>1. BackstopTyped /\ Tiled
  BY DEF BackstopInv
<1>2. PICK m \in Method : m = method[c]
  BY <1>1 DEF BackstopTyped
<1>3. PICK next \in {"none", "move"} : next = IF m.op = "sealTo" THEN "none" ELSE "move"
  OBVIOUS
<1>4. /\ m.step = "reopen" /\ RunsMicrotask(c, next) /\ sub' = [sub EXCEPT !.openedAt = m.at]
      /\ UNCHANGED <<windows, inForce, notice, early, raced>>
  BY <1>2, <1>3 DEF Reopen
<1>5. /\ m.op # "none" /\ m.state # "none" /\ m.from < m.at /\ m.from = sub.openedAt
      /\ m.op = "beginExpiring" => m.lapses - m.at >= WindowLedgers /\ m.lapses # Unset
      /\ m.from \in Nat /\ m.at \in Nat /\ m.at \in Ledgers
  BY <1>1, <1>2, <1>4, LedgerFacts DEF BackstopTyped, Tiled, Reopening
<1>6. sub' \in [state : SubStates, openedAt : Ledgers, announced : MaybeAt]
      /\ sub'.openedAt = m.at /\ sub'.state = sub.state /\ sub'.announced = sub.announced
  BY <1>1, <1>4, <1>5 DEF BackstopTyped
<1>7. /\ method' \in [Callers -> Method] /\ microtasks' \in Seq(Callers)
      /\ \A d \in Callers : d # c => method'[d] = method[d]
      /\ next = "none" => method'[c] = Resting
      /\ next = "move" => /\ microtasks' # <<>> /\ method'[c].step = next
                          /\ method'[c].op = m.op /\ method'[c].at = m.at
                          /\ method'[c].lapses = m.lapses /\ method'[c].from = m.from
                          /\ method'[c].state = m.state
  <2>1. method[c].step # "none" /\ next \in {"none", "move", "announce"}
    BY <1>2, <1>3, <1>4
  <2> QED BY <1>1, <1>2, <1>4, <2>1, MicrotaskRuns
<1>8. BackstopTyped'
  <2>1. \A d \in Callers :
          LET p == method'[d] IN
          IF p.step = "none" THEN p = Resting
          ELSE /\ p.op # "none" /\ p.state # "none" /\ p.from < p.at
               /\ p.step \in {"move", "announce"} => p.op # "sealTo"
               /\ p.op = "beginExpiring" => p.lapses - p.at >= WindowLedgers /\ p.lapses # Unset
    BY <1>1, <1>3, <1>5, <1>7, RestingTyped DEF BackstopTyped
  <2> QED BY <1>1, <1>4, <1>6, <1>7, <2>1 DEF BackstopTyped
<1>9. Reopening(c) /\ RecordedTo(m.at) /\ \A d \in Callers : d # c => ~Reopening(d)
  BY <1>1, <1>2, <1>4 DEF Tiled, Reopening, RecordedTo
<1>10. \A d \in Callers : ~Reopening(d)'
  BY <1>7, <1>9, RestingTyped DEF Reopening
<1>11. \A t : RecordedTo(t)' <=> t = m.at
  BY <1>6, <1>10 DEF RecordedTo
<1>12. \A d \in Callers : method'[d].step = "append" =>
          d # c /\ method'[d].from <= sub.openedAt /\ method'[d].from \in Nat
  BY <1>1, <1>7, RestingTyped, LedgerFacts DEF Tiled, BackstopTyped
<1>13. \A d \in Callers : method'[d].step = "append" => method'[d].from < sub'.openedAt
                                                   /\ method'[d].from <= sub'.openedAt
  BY <1>5, <1>6, <1>12
<1>14. Tiled'
  BY <1>1, <1>4, <1>5, <1>9, <1>10, <1>11, <1>13 DEF Tiled, Hits
<1>15. ASSUME ~raced' PROVE OneAtATime' /\ Noticed'
  <2>1. OneAtATime /\ Noticed
    BY <1>4, <1>15 DEF BackstopInv
  <2>2. \A d \in Callers : d # c => ~GoesOn(d)
    BY <1>2, <1>4, <2>1 DEF OneAtATime, GoesOn
  <2>3. \A d \in Callers : /\ GoesOn(d)' => d = c /\ next = "move"
                           /\ method'[d].step # "announce"
                           /\ method'[d].step = "move" => d = c /\ next = "move"
    BY <1>3, <1>7, <2>2, RestingTyped DEF GoesOn
  <2>4. \A d \in Callers : ~Current(d)'
    <3> SUFFICES ASSUME NEW d \in Callers, Current(d)' PROVE FALSE
      OBVIOUS
    <3>1. method'[d].step = "append" /\ method'[d].from = sub'.openedAt
      BY <1>10 DEF Current, Reopening
    <3> QED BY <1>5, <1>6, <1>12, <1>13, <3>1
  <2>5. \A l \in Ledgers : l >= sub'.openedAt => inForce'[l] = sub'.state
    <3>1. \A l \in Ledgers : l >= m.at => l >= sub.openedAt
      BY <1>5, LedgerFacts
    <3> QED BY <1>4, <1>6, <2>1, <3>1 DEF OneAtATime
  <2>6. \A w \in windows', l \in Ledgers : Hits(w, l)' => w.covered = IsCoveredState(inForce'[l])
    BY <1>4, <2>1 DEF OneAtATime, Hits
  <2>7. OneAtATime'
    BY <1>6, <1>7, <2>3, <2>4, <2>5, <2>6 DEF OneAtATime, Hits, IsCoveredState
  <2>8. sub'.state = "expiring" => Told'
    <3>1. \A d \in Callers : method[d].step # "announce"
      BY <1>2, <1>4, <2>2 DEF GoesOn
    <3> QED BY <1>4, <1>6, <2>1, <3>1 DEF Noticed, Told
  <2>9. \A d \in Callers :
          method'[d].op = "lapse" /\ (Current(d)' \/ method'[d].step = "move")
              => KeepsNotice(method[d].at)'
    <3> SUFFICES ASSUME method'[c].op = "lapse", next = "move"
                 PROVE  KeepsNotice(method[c].at)'
      BY <2>3, <2>4
    <3>1. Current(c) /\ method[c].op = "lapse"
      BY <1>2, <1>4, <1>5, <1>7 DEF Current
    <3> QED BY <1>2, <1>4, <1>7, <2>1, <3>1 DEF Noticed, KeepsNotice
  <2> QED BY <1>4, <2>1, <2>7, <2>8, <2>9 DEF Noticed
<1> QED BY <1>8, <1>14, <1>15 DEF BackstopInv

(* Where calls stand that neither append nor reopen does not touch the       *)
(* record.                                                                   *)
LEMMA TilingStands ==
    ASSUME BackstopTyped, Tiled, NEW c \in Callers, method[c].step \in {"move", "announce"},
           method'[c].step \in {"announce", "none"},
           \A d \in Callers : d # c => method'[d] = method[d],
           windows' = windows, sub'.openedAt = sub.openedAt
    PROVE  Tiled' /\ \A d \in Callers : Current(d)' <=> Current(d)
<1>1. \A d \in Callers : /\ Reopening(d)' <=> Reopening(d)
                         /\ Reopening(d) => method'[d] = method[d]
                         /\ method'[d].step = "append" => method'[d] = method[d]
                         /\ Current(d)' <=> Current(d)
  BY DEF Reopening, Current
<1>2. \A t : RecordedTo(t)' <=> RecordedTo(t)
  BY <1>1 DEF RecordedTo
<1> QED BY <1>1, <1>2 DEF Tiled, Hits

(* transition goes on: no window still to be appended is current, and none   *)
(* of the stored ones reaches the ledgers whose state changes.               *)
LEMMA MoveKeeps ==
    ASSUME BackstopInv, NEW c \in Callers, Move(c)
    PROVE  BackstopInv'
<1>1. BackstopTyped /\ Tiled
  BY DEF BackstopInv
<1>2. PICK m \in Method : m = method[c]
  BY <1>1 DEF BackstopTyped
<1>3. PICK target : target = Target[m.op]
  OBVIOUS
<1>4. /\ m.step = "move" /\ RunsMicrotask(c, "announce")
      /\ sub' = [sub EXCEPT !.state = target]
      /\ inForce' = [l \in Ledgers |-> IF l >= m.at THEN target ELSE inForce[l]]
      /\ early' = early \cup {l \in {m.at} : /\ m.op = "lapse"
                                             /\ \/ notice.lapses = Unset \/ l < notice.lapses
                                                \/ l < notice.told + WindowLedgers}
      /\ UNCHANGED <<windows, notice, raced>>
  BY <1>2, <1>3 DEF Move
<1>5. /\ m.op # "none" /\ m.op # "sealTo" /\ m.state # "none" /\ m.from < m.at
      /\ m.op = "beginExpiring" => m.lapses - m.at >= WindowLedgers /\ m.lapses # Unset
      /\ m.at \in Nat /\ m.at \in Ledgers
  BY <1>1, <1>2, <1>4, LedgerFacts DEF BackstopTyped
<1>6. target \in SubStates
  BY <1>2, <1>3, <1>5, TargetsLegal DEF Method
<1>7. sub' \in [state : SubStates, openedAt : Ledgers, announced : MaybeAt]
      /\ sub'.openedAt = sub.openedAt /\ sub'.state = target /\ sub'.announced = sub.announced
  BY <1>1, <1>4, <1>6 DEF BackstopTyped
<1>8. /\ method' \in [Callers -> Method] /\ microtasks' \in Seq(Callers) /\ microtasks' # <<>>
      /\ \A d \in Callers : d # c => method'[d] = method[d]
      /\ method'[c].step = "announce" /\ method'[c].op = m.op /\ method'[c].at = m.at
      /\ method'[c].lapses = m.lapses /\ method'[c].from = m.from
      /\ method'[c].state = m.state
  <2>1. method[c].step # "none" /\ "announce" \in {"none", "move", "announce"}
    BY <1>2, <1>4
  <2> QED BY <1>1, <1>2, <1>4, <2>1, MicrotaskRuns
<1>9. BackstopTyped'
  <2>1. \A d \in Callers :
          LET p == method'[d] IN
          IF p.step = "none" THEN p = Resting
          ELSE /\ p.op # "none" /\ p.state # "none" /\ p.from < p.at
               /\ p.step \in {"move", "announce"} => p.op # "sealTo"
               /\ p.op = "beginExpiring" => p.lapses - p.at >= WindowLedgers /\ p.lapses # Unset
    BY <1>1, <1>5, <1>8 DEF BackstopTyped
  <2>2. inForce' \in [Ledgers -> SubStates]
    BY <1>1, <1>4, <1>6 DEF BackstopTyped
  <2>3. early' \subseteq Ledgers
    BY <1>1, <1>4, <1>5 DEF BackstopTyped
  <2> QED BY <1>1, <1>4, <1>7, <1>8, <2>1, <2>2, <2>3 DEF BackstopTyped
<1>10. Tiled' /\ \A d \in Callers : Current(d)' <=> Current(d)
  BY <1>1, <1>2, <1>4, <1>7, <1>8, TilingStands
<1>11. ASSUME ~raced' PROVE OneAtATime' /\ Noticed'
  <2>1. OneAtATime /\ Noticed
    BY <1>4, <1>11 DEF BackstopInv
  <2>2. \A d \in Callers : ~Current(d) /\ (d # c => ~GoesOn(d))
    BY <1>2, <1>4, <2>1 DEF OneAtATime, GoesOn
  <2>3. \A d \in Callers : /\ GoesOn(d)' => d = c
                           /\ method'[d].step # "move"
                           /\ method'[d].step = "announce" => d = c
    BY <1>8, <2>2 DEF GoesOn
  <2>4. m.at = sub.openedAt
    BY <1>2, <1>4, <2>1 DEF OneAtATime
  <2>5. RecordedTo(sub.openedAt)
    BY <1>2, <1>4, <2>2 DEF RecordedTo, GoesOn, Reopening
  <2>6. \A w \in windows : w.end <= m.at /\ w.end \in Nat
    BY <1>1, <1>5, <2>4, <2>5, LedgerFacts DEF Tiled, BackstopTyped
  <2>7. \A l \in Ledgers : l \in Nat /\ inForce'[l] = IF l >= m.at THEN target ELSE inForce[l]
    BY <1>4, LedgerFacts
  <2>8. \A w \in windows', l \in Ledgers : Hits(w, l) => w.covered = IsCoveredState(inForce'[l])
    <3> SUFFICES ASSUME NEW w \in windows, NEW l \in Ledgers, Hits(w, l)
                 PROVE  w.covered = IsCoveredState(inForce'[l])
      BY <1>4
    <3>1. ~(l >= m.at)
      BY <1>5, <2>6, <2>7 DEF Hits
    <3>2. inForce'[l] = inForce[l]
      BY <2>7, <3>1
    <3> QED BY <2>1, <3>2 DEF OneAtATime
  <2>9. \A l \in Ledgers : l >= sub'.openedAt => inForce'[l] = sub'.state
    BY <1>7, <2>4, <2>7
  <2>10. OneAtATime'
    BY <1>3, <1>4, <1>7, <1>8, <1>10, <2>2, <2>3, <2>4, <2>8, <2>9
       DEF OneAtATime, Hits, IsCoveredState
  <2>11. early' = {}
    <3>1. CASE m.op = "lapse"
      <4>1. KeepsNotice(m.at)
        BY <1>2, <1>4, <2>1, <3>1 DEF Noticed
      <4>2. notice.lapses \in Int /\ notice.told \in Int /\ WindowLedgers \in Int /\ m.at \in Int
        BY <1>1, <1>5, LedgerFacts DEF BackstopTyped
      <4> QED BY <1>4, <2>1, <4>1, <4>2 DEF KeepsNotice, Noticed
    <3>2. CASE m.op # "lapse"
      BY <1>4, <2>1, <3>2 DEF Noticed
    <3> QED BY <3>1, <3>2
  <2> QED BY <1>8, <1>10, <2>2, <2>3, <2>10, <2>11 DEF Noticed
<1> QED BY <1>9, <1>10, <1>11 DEF BackstopInv

(* The method ends: who is told of a lapse is told the ledger that lapse     *)
(* will look at.                                                             *)
LEMMA AnnounceKeeps ==
    ASSUME BackstopInv, NEW c \in Callers, Announce(c)
    PROVE  BackstopInv'
<1>1. BackstopTyped /\ Tiled
  BY DEF BackstopInv
<1>2. PICK m \in Method : m = method[c]
  BY <1>1 DEF BackstopTyped
<1>3. /\ m.step = "announce" /\ RunsMicrotask(c, "none")
      /\ sub' = IF m.op = "reactivate" THEN sub ELSE [sub EXCEPT !.announced = m.lapses]
      /\ notice' = IF m.op = "beginExpiring" THEN [told |-> m.at, lapses |-> m.lapses]
                   ELSE [told |-> Unset, lapses |-> Unset]
      /\ UNCHANGED <<windows, inForce, early, raced>>
  BY <1>2 DEF Announce
<1>4. /\ m.op # "none" /\ m.op # "sealTo"
      /\ m.op = "beginExpiring" => m.lapses - m.at >= WindowLedgers /\ m.lapses # Unset
      /\ m.at \in Nat /\ m.at \in Ledgers /\ m.lapses \in MaybeAt /\ m.lapses \in Int
      /\ m.at \in MaybeAt
  BY <1>1, <1>2, <1>3, LedgerFacts DEF BackstopTyped, MaybeAt
<1>5. sub' \in [state : SubStates, openedAt : Ledgers, announced : MaybeAt]
      /\ sub'.openedAt = sub.openedAt /\ sub'.state = sub.state
      /\ (m.op = "beginExpiring" => sub'.announced = m.lapses)
  BY <1>1, <1>3, <1>4 DEF BackstopTyped
<1>6. /\ method' \in [Callers -> Method] /\ microtasks' \in Seq(Callers)
      /\ \A d \in Callers : d # c => method'[d] = method[d]
      /\ method'[c] = Resting
  <2>1. method[c].step # "none" /\ "none" \in {"none", "move", "announce"}
    BY <1>2, <1>3
  <2> QED BY <1>1, <1>2, <1>3, <2>1, MicrotaskRuns
<1>7. BackstopTyped'
  <2>1. \A d \in Callers :
          LET p == method'[d] IN
          IF p.step = "none" THEN p = Resting
          ELSE /\ p.op # "none" /\ p.state # "none" /\ p.from < p.at
               /\ p.step \in {"move", "announce"} => p.op # "sealTo"
               /\ p.op = "beginExpiring" => p.lapses - p.at >= WindowLedgers /\ p.lapses # Unset
    BY <1>1, <1>6, RestingTyped DEF BackstopTyped
  <2>2. notice' \in [told : MaybeAt, lapses : MaybeAt]
    BY <1>3, <1>4, LedgerFacts
  <2> QED BY <1>1, <1>3, <1>5, <1>6, <2>1, <2>2 DEF BackstopTyped
<1>8. Tiled' /\ \A d \in Callers : Current(d)' <=> Current(d)
  BY <1>1, <1>2, <1>3, <1>5, <1>6, RestingTyped, TilingStands
<1>9. ASSUME ~raced' PROVE OneAtATime' /\ Noticed'
  <2>1. OneAtATime /\ Noticed
    BY <1>3, <1>9 DEF BackstopInv
  <2>2. \A d \in Callers : ~Current(d) /\ (d # c => ~GoesOn(d))
    BY <1>2, <1>3, <2>1 DEF OneAtATime, GoesOn
  <2>3. \A d \in Callers : ~GoesOn(d)' /\ method'[d].step \notin {"move", "announce"}
    BY <1>6, <2>2, RestingTyped DEF GoesOn
  <2>4. OneAtATime'
    BY <1>3, <1>5, <1>8, <2>1, <2>2, <2>3 DEF OneAtATime, Hits, IsCoveredState
  <2>5. sub'.state = "expiring" => Told'
    <3> SUFFICES ASSUME sub.state = "expiring" PROVE Told'
      BY <1>5
    <3>1. Target[m.op] = "expiring"
      BY <1>2, <1>3, <2>1 DEF OneAtATime
    <3>2. m.op = "beginExpiring"
      BY <1>2, <1>4, <3>1, TargetsLegal DEF Method
    <3>3. notice'.told = m.at /\ notice'.lapses = m.lapses /\ sub'.announced = m.lapses
      BY <1>3, <1>5, <3>2
    <3>4. m.at # Unset /\ m.lapses # Unset /\ m.lapses >= m.at + WindowLedgers
      BY <1>4, <3>2, LedgerFacts DEF Unset
    <3> QED BY <3>3, <3>4 DEF Told
  <2> QED BY <1>3, <1>8, <2>1, <2>2, <2>3, <2>4, <2>5 DEF Noticed
<1> QED BY <1>7, <1>8, <1>9 DEF BackstopInv

(* A subscription just activated.                                            *)
LEMMA BackstopStarts == BackstopInit => BackstopInv
<1> SUFFICES ASSUME BackstopInit PROVE BackstopInv
  OBVIOUS
<1>1. /\ \A c \in Callers : method[c] = Resting /\ method[c].step = "none"
                            /\ method[c].op = "none"
      /\ sub.openedAt = 0 /\ sub.state = "active" /\ windows = {} /\ early = {}
      /\ \A l \in Ledgers : inForce[l] = sub.state
  BY RestingTyped DEF BackstopInit
<1>2. BackstopTyped
  <2>1. method \in [Callers -> Method] /\ microtasks \in Seq(Callers)
    BY RestingTyped DEF BackstopInit
  <2>2. /\ sub \in [state : SubStates, openedAt : Ledgers, announced : MaybeAt]
        /\ notice \in [told : MaybeAt, lapses : MaybeAt]
        /\ inForce \in [Ledgers -> SubStates] /\ raced \in BOOLEAN
    BY LedgerFacts DEF BackstopInit, SubStates
  <2> QED BY <1>1, <2>1, <2>2 DEF BackstopTyped
<1>3. \A t : RecordedTo(t) <=> t = 0
  BY <1>1 DEF RecordedTo, Reopening
<1>4. Tiled
  BY <1>1, <1>3, LedgerFacts DEF Tiled, Reopening
<1>5. OneAtATime /\ Noticed
  BY <1>1 DEF OneAtATime, Noticed, GoesOn, Current
<1> QED BY <1>2, <1>4, <1>5 DEF BackstopInv

(* Every step keeps the invariant.                                           *)
LEMMA BackstopStep == BackstopInv /\ [BackstopNext]_backstopVars => BackstopInv'
<1> SUFFICES ASSUME BackstopInv, [BackstopNext]_backstopVars PROVE BackstopInv'
  OBVIOUS
<1>1. CASE UNCHANGED backstopVars
  BY <1>1 DEF backstopVars, BackstopInv, BackstopTyped, Tiled, RecordedTo, Reopening, Hits,
     OneAtATime, GoesOn, Current, IsCoveredState, Noticed, Told, KeepsNotice
<1>2. CASE BackstopNext
  <2>1. PICK c \in Callers :
           \/ AppendWindow(c) \/ Reopen(c) \/ Move(c) \/ Announce(c)
           \/ \E at \in Ledgers : \/ Renew(c, at) \/ Reactivate(c, at) \/ Cancel(c, at)
                                  \/ Lapse(c, at) \/ SealTo(c, at)
                                  \/ \E lapses \in Ledgers : BeginExpiring(c, at, lapses)
    BY <1>2 DEF BackstopNext
  <2>2. CASE AppendWindow(c) \/ Reopen(c) \/ Move(c) \/ Announce(c)
    BY <2>2, AppendKeeps, ReopenKeeps, MoveKeeps, AnnounceKeeps
  <2>3. CASE \E at \in Ledgers : \/ Renew(c, at) \/ Reactivate(c, at) \/ Cancel(c, at)
                                 \/ Lapse(c, at) \/ SealTo(c, at)
                                 \/ \E lapses \in Ledgers : BeginExpiring(c, at, lapses)
    <3>1. PICK at \in Ledgers : \/ Renew(c, at) \/ Reactivate(c, at) \/ Cancel(c, at)
                                \/ Lapse(c, at) \/ SealTo(c, at)
                                \/ \E lapses \in Ledgers : BeginExpiring(c, at, lapses)
      BY <2>3
    <3>2. Unset \in MaybeAt /\ sub.state \in SubStates
      BY LedgerFacts DEF BackstopInv, BackstopTyped
    <3>3. CASE Renew(c, at) \/ Reactivate(c, at) \/ Cancel(c, at) \/ SealTo(c, at)
      <4>1. PICK op \in {"renew", "reactivate", "cancel", "sealTo"} :
               StartsMethod(c, op, at, Unset)
        BY <3>3 DEF Renew, Reactivate, Cancel, SealTo, Transition
      <4>2. op \in Moves \cup {"sealTo"} /\ op # "beginExpiring" /\ op # "lapse"
        BY <4>1 DEF Moves
      <4> QED BY <3>2, <4>1, <4>2, MethodStarts
    <3>4. CASE Lapse(c, at)
      <4>1. MayLapse(at) /\ Target["lapse"] \in LegalTransitions[sub.state]
            /\ StartsMethod(c, "lapse", at, Unset)
        BY <3>4 DEF Lapse, Transition
      <4>2. sub.state = "expiring"
        BY <3>2, <4>1, TargetsLegal
      <4>3. "lapse" \in Moves \cup {"sealTo"} /\ "lapse" # "beginExpiring"
        BY DEF Moves
      <4> QED BY <3>2, <4>1, <4>2, <4>3, MethodStarts
    <3>5. CASE \E lapses \in Ledgers : BeginExpiring(c, at, lapses)
      <4>1. PICK lapses \in Ledgers : BeginExpiring(c, at, lapses)
        BY <3>5
      <4>2. lapses - at >= WindowLedgers /\ StartsMethod(c, "beginExpiring", at, lapses)
        BY <4>1 DEF BeginExpiring, Transition
      <4>3. lapses \in MaybeAt /\ lapses # Unset
        BY LedgerFacts DEF MaybeAt, Unset
      <4>4. "beginExpiring" \in Moves \cup {"sealTo"} /\ "beginExpiring" # "lapse"
        BY DEF Moves
      <4> QED BY <4>2, <4>3, <4>4, MethodStarts
    <3> QED BY <3>1, <3>3, <3>4, <3>5
  <2> QED BY <2>1, <2>2, <2>3
<1> QED BY <1>1, <1>2

(* The windows recorded up to a ledger tile what is before it.               *)
LEMMA TiledTiles == BackstopTyped /\ Tiled => CoverageTiles
<1> SUFFICES ASSUME BackstopTyped, Tiled PROVE CoverageTiles
  OBVIOUS
<1>1. PICK t \in Ledgers : RecordedTo(t)
  BY OneRecordedTo
<1> SUFFICES ASSUME NEW l \in Ledgers, NEW hits,
                    hits = {w \in windows : w.start <= l /\ l < w.end}
             PROVE  /\ Cardinality(hits) <= 1
                    /\ l < sub.openedAt => hits # {}
                    /\ l >= sub.openedAt /\ hits # {} =>
                          \E c \in Callers : method[c].step = "reopen" /\ l < method[c].at
  BY DEF CoverageTiles
<1>2. \A w : w \in hits <=> w \in windows /\ Hits(w, l)
  BY DEF Hits
<1>3. Cardinality(hits) <= 1
  <2>1. \A v, w \in hits : v = w
    BY <1>2 DEF Tiled
  <2> QED BY <2>1, AtMostOne
<1>4. t \in Nat /\ l \in Nat /\ sub.openedAt \in Nat /\ sub.openedAt <= t
  <2>1. \A c \in Callers : Reopening(c) =>
            method[c].from = sub.openedAt /\ method[c].from < method[c].at /\ method[c].at \in Nat
    BY LedgerFacts DEF BackstopTyped, Tiled, Reopening
  <2>2. t \in Nat /\ l \in Nat /\ sub.openedAt \in Nat
    BY LedgerFacts DEF BackstopTyped
  <2> QED BY <1>1, <2>1, <2>2 DEF RecordedTo
<1>5. ASSUME l < sub.openedAt PROVE hits # {}
  <2>1. l < t
    BY <1>4, <1>5
  <2> QED BY <1>1, <1>2, <2>1 DEF Tiled
<1>6. ASSUME l >= sub.openedAt, hits # {}
      PROVE  \E c \in Callers : method[c].step = "reopen" /\ l < method[c].at
  <2>1. PICK w \in windows : Hits(w, l)
    BY <1>2, <1>6
  <2>2. w.end \in Nat /\ w.end <= t
    BY <1>1, LedgerFacts DEF Tiled, BackstopTyped
  <2>3. l < t
    BY <1>4, <2>1, <2>2 DEF Hits
  <2>4. t # sub.openedAt
    BY <1>4, <1>6, <2>3
  <2> QED BY <1>1, <2>3, <2>4 DEF RecordedTo, Reopening
<1> QED BY <1>3, <1>5, <1>6

(* What the walk of coverageForWindow finds is without a gap exactly if all  *)
(* the ledgers asked for are recorded, and says what was in force at each.   *)
LEMMA AuditIsTrue == BackstopInv => AuditAnswersTruly
<1> SUFFICES ASSUME BackstopInv, ~raced, NEW s \in Ledgers, NEW e \in Ledgers, s < e
             PROVE  CoverageForWindow(s, e) =
                       IF ~(\A l \in s..(e - 1) : \E w \in windows : w.start <= l /\ l < w.end)
                       THEN "unknown"
                       ELSE IF {IsCoveredState(inForce[l]) : l \in s..(e - 1)} = {TRUE}
                       THEN "covered"
                       ELSE IF {IsCoveredState(inForce[l]) : l \in s..(e - 1)} = {FALSE}
                       THEN "uncovered" ELSE "partial"
  BY DEF AuditAnswersTruly
<1>1. BackstopTyped /\ Tiled /\ OneAtATime
  BY DEF BackstopInv
<1>2. PICK t \in Ledgers : RecordedTo(t)
  BY <1>1, OneRecordedTo
<1>3. /\ s \in Nat /\ e \in Nat /\ t \in Nat
      /\ \A l \in s..(e - 1) : l \in Ledgers /\ l \in Nat /\ s <= l /\ l < e
      /\ \A w \in windows : w.start \in Nat /\ w.end \in Nat /\ w.covered \in BOOLEAN
                            /\ w.start < w.end /\ w.end <= t
  <2>1. s \in Nat /\ e \in Nat /\ t \in Nat /\ EndLedger \in Nat /\ e <= EndLedger
    BY LedgerFacts, BackstopAssumption DEF Ledgers
  <2>2. \A l \in s..(e - 1) : l \in Ledgers /\ l \in Nat /\ s <= l /\ l < e
    BY <2>1 DEF Ledgers
  <2>3. \A w \in windows : w.start \in Nat /\ w.end \in Nat /\ w.covered \in BOOLEAN
    BY <1>1, LedgerFacts DEF BackstopTyped
  <2>4. \A w \in windows : w.start < w.end /\ w.end <= t
    BY <1>1, <1>2 DEF Tiled
  <2> QED BY <2>1, <2>2, <2>3, <2>4
<1>4. PICK known \in BOOLEAN :
          known <=> \A l \in s..(e - 1) : \E w \in windows : w.start <= l /\ l < w.end
  OBVIOUS
<1>5. PICK found : found = Overlapping([start |-> s, end |-> e])
  OBVIOUS
<1>6. \A w : w \in found <=> w \in windows /\ s < w.end /\ w.start < e
  BY <1>5 DEF Overlapping
<1>7. known <=> e <= t
  <2>1. ASSUME e <= t PROVE known
    <3>1. \A l \in s..(e - 1) : l < t
      BY <1>3, <2>1
    <3>2. \A l \in s..(e - 1) : \E w \in windows : Hits(w, l)
      BY <1>1, <1>2, <1>3, <3>1 DEF Tiled
    <3> QED BY <1>4, <3>2 DEF Hits
  <2>2. ASSUME known PROVE e <= t
    <3>1. e - 1 \in s..(e - 1)
      BY <1>3
    <3>2. PICK w \in windows : w.start <= e - 1 /\ e - 1 < w.end
      BY <1>4, <2>2, <3>1
    <3> QED BY <1>3, <3>2
  <2> QED BY <2>1, <2>2
<1>8. CASE ~known
  <2>1. \A w \in found : w.end < e
    BY <1>3, <1>6, <1>7, <1>8
  <2>2. LeavesGap(found, s, e)
    BY <2>1 DEF LeavesGap
  <2> QED BY <1>4, <1>5, <1>8, <2>2 DEF CoverageForWindow
<1>9. CASE known
  <2>1. \A l \in s..(e - 1) : \E w \in found : Hits(w, l)
    <3> SUFFICES ASSUME NEW l \in s..(e - 1) PROVE \E w \in found : Hits(w, l)
      OBVIOUS
    <3>1. PICK w \in windows : Hits(w, l)
      BY <1>4, <1>9 DEF Hits
    <3>2. w \in found
      BY <1>3, <1>6, <3>1 DEF Hits
    <3> QED BY <3>1, <3>2
  <2>2. found # {}
    <3>1. s \in s..(e - 1)
      BY <1>3
    <3> QED BY <2>1, <3>1
  <2>3. ~LeavesGap(found, s, e)
    <3>1. ~(\A w \in found : w.end < e)
      <4>1. e - 1 \in s..(e - 1)
        BY <1>3
      <4>2. PICK w \in found : Hits(w, e - 1)
        BY <2>1, <4>1
      <4>3. w.end \in Nat
        BY <1>3, <1>6
      <4>4. ~(w.end < e)
        BY <1>3, <4>2, <4>3 DEF Hits
      <4> QED BY <4>4
    <3>2. ASSUME NEW w \in found, w.start > s, \A v \in found : v.start < w.start => v.end < w.start
          PROVE  FALSE
      <4>1. w.start \in Nat /\ w.start < e
        BY <1>3, <1>6
      <4>2. w.start - 1 \in s..(e - 1)
        BY <1>3, <3>2, <4>1
      <4>3. PICK v \in found : Hits(v, w.start - 1)
        BY <2>1, <4>2
      <4>4. v.start \in Nat /\ v.end \in Nat
        BY <1>3, <1>6
      <4>5. v.start < w.start /\ ~(v.end < w.start)
        BY <4>1, <4>3, <4>4 DEF Hits
      <4> QED BY <3>2, <4>5
    <3> QED BY <3>1, <3>2 DEF LeavesGap
  <2>4. \A w \in found : \E l \in s..(e - 1) : Hits(w, l)
    <3> SUFFICES ASSUME NEW w \in found PROVE \E l \in s..(e - 1) : Hits(w, l)
      OBVIOUS
    <3>1. w \in windows /\ s < w.end /\ w.start < e
      BY <1>6
    <3>2. CASE w.start <= s
      <4>1. s \in s..(e - 1) /\ Hits(w, s)
        BY <1>3, <3>1, <3>2 DEF Hits
      <4> QED BY <4>1
    <3>3. CASE ~(w.start <= s)
      <4>1. w.start \in s..(e - 1) /\ Hits(w, w.start)
        BY <1>3, <3>1, <3>3 DEF Hits
      <4> QED BY <4>1
    <3> QED BY <3>2, <3>3
  <2>5. \A w \in found, l \in s..(e - 1) : Hits(w, l) => w.covered = IsCoveredState(inForce[l])
    BY <1>1, <1>3, <1>6 DEF OneAtATime
  <2>6. (\A w \in found : w.covered) <=> \A l \in s..(e - 1) : IsCoveredState(inForce[l])
    BY <2>1, <2>4, <2>5
  <2>7. (\A w \in found : ~w.covered) <=> \A l \in s..(e - 1) : ~IsCoveredState(inForce[l])
    BY <2>1, <2>4, <2>5
  <2>8. PICK held : held = {IsCoveredState(inForce[l]) : l \in s..(e - 1)}
    OBVIOUS
  <2>9. PICK x : x \in s..(e - 1)
    BY <2>2, <2>4
  <2>10. \A l : IsCoveredState(inForce[l]) \in BOOLEAN
    BY DEF IsCoveredState
  <2>11. held = {TRUE} <=> \A l \in s..(e - 1) : IsCoveredState(inForce[l])
    <3>1. ASSUME \A l \in s..(e - 1) : IsCoveredState(inForce[l]) PROVE held = {TRUE}
      <4>1. \A l \in s..(e - 1) : IsCoveredState(inForce[l]) = TRUE
        BY <2>10, <3>1
      <4> QED BY <2>8, <2>9, <4>1
    <3>2. ASSUME held = {TRUE} PROVE \A l \in s..(e - 1) : IsCoveredState(inForce[l])
      <4>1. \A l \in s..(e - 1) : IsCoveredState(inForce[l]) \in held
        BY <2>8
      <4>2. \A l \in s..(e - 1) : IsCoveredState(inForce[l]) = TRUE
        BY <3>2, <4>1
      <4> QED BY <4>2
    <3> QED BY <3>1, <3>2
  <2>12. held = {FALSE} <=> \A l \in s..(e - 1) : ~IsCoveredState(inForce[l])
    <3>1. ASSUME \A l \in s..(e - 1) : ~IsCoveredState(inForce[l]) PROVE held = {FALSE}
      <4>1. \A l \in s..(e - 1) : IsCoveredState(inForce[l]) = FALSE
        BY <2>10, <3>1
      <4> QED BY <2>8, <2>9, <4>1
    <3>2. ASSUME held = {FALSE} PROVE \A l \in s..(e - 1) : ~IsCoveredState(inForce[l])
      <4>1. \A l \in s..(e - 1) : IsCoveredState(inForce[l]) \in held
        BY <2>8
      <4>2. \A l \in s..(e - 1) : IsCoveredState(inForce[l]) = FALSE
        BY <3>2, <4>1
      <4> QED BY <4>2
    <3> QED BY <3>1, <3>2
  <2>13. CoverageForWindow(s, e) = IF \A w \in found : w.covered THEN "covered"
                                   ELSE IF \A w \in found : ~w.covered THEN "uncovered"
                                   ELSE "partial"
    BY <1>5, <2>2, <2>3 DEF CoverageForWindow
  <2>14. CoverageForWindow(s, e) = IF held = {TRUE} THEN "covered"
                                   ELSE IF held = {FALSE} THEN "uncovered" ELSE "partial"
    BY <2>6, <2>7, <2>11, <2>12, <2>13
  <2> QED BY <1>4, <1>9, <2>8, <2>14
<1> QED BY <1>8, <1>9

(* However the calls of a subscription overlap, for every number of callers, *)
(* every window length and every ledger: the coverage record has no gap and  *)
(* no overlap, and unless a call starts between two microtasks of another,   *)
(* coverageForWindow answers what was in force and no lapse comes before its *)
(* notice.                                                                   *)
THEOREM CoverageIsSound == BackstopSpec => []CoverageSound
<1>1. BackstopInv => CoverageSound
  <2> SUFFICES ASSUME BackstopInv PROVE CoverageSound
    OBVIOUS
  <2>1. CoverageTiles
    BY TiledTiles DEF BackstopInv
  <2>2. NoticeBeforeLapse
    BY DEF BackstopInv, Noticed, NoticeBeforeLapse
  <2> QED BY <2>1, <2>2, AuditIsTrue DEF CoverageSound
<1> QED BY <1>1, BackstopStarts, BackstopStep, PTL DEF BackstopSpec

-----------------------------------------------------------------------------
(* FileRetryQueue                                                            *)

Busy(j)   == job[j] \in {"attempting", "acking", "enqueuing"}
Early(c)  == c.at \in {"load", "read", "act"}
Late(c)   == c.at \in {"write", "rename"}
Shaped(c) == c = [at |-> c.at, op |-> c.op, job |-> c.job, due |-> c.due, array |-> c.array,
                  text |-> c.text]

(* A submission a dequeue took out of the array and has not handed out yet.  *)
Taken(j) == \E s \in Slots : Late(calls[s]) /\ calls[s].op = "dequeue" /\ calls[s].job = j

FileTyped ==
    /\ job \in [Jobs -> {"attempting", "acking", "enqueuing", "queued", "done", "dead"}]
    /\ calls = [s \in Slots |-> calls[s]]
    /\ \A s \in Slots :
          /\ Shaped(calls[s])
          /\ calls[s].at \in {"idle", "load", "read", "act", "write", "rename"}
          /\ calls[s].at # "idle" => calls[s].op \in {"enqueue", "dequeue", "ack"}
          /\ calls[s].at # "idle" /\ calls[s].op # "dequeue" => calls[s].job \in Jobs
    /\ crashes \in Nat /\ overlapped \in BOOLEAN /\ loadedTwice \in BOOLEAN

(* What was given up is among the dead letters, which are full or keep all.  *)
DeadKept ==
    /\ deadLetters \in Seq(Jobs) /\ Len(deadLetters) <= MaxEntries
    /\ \A j \in Jobs : job[j] = "dead" => \/ \E n \in DOMAIN deadLetters : deadLetters[n] = j
                                          \/ Len(deadLetters) = MaxEntries \/ crashes > 0

(* As long as the file was read once there is one array, and a submission in *)
(* the process's hands is not in it.                                         *)
ArrayTyped ==
    /\ cache \in {0, 1}
    /\ cache = 0 => arrays = <<>>
    /\ cache = 1 => 1 \in DOMAIN arrays
    /\ DOMAIN file \subseteq Jobs /\ DOMAIN Queue \subseteq Jobs
    /\ \A j \in Jobs : Busy(j) => j \notin DOMAIN Queue

(* Every call works on that array, and on a submission of its own; an ack    *)
(* finds nothing to remove.                                                  *)
CallFits(c) ==
    /\ c.at = "act" \/ Late(c) => cache = 1 /\ c.array = 1
    /\ c.at = "rename" => DOMAIN c.text \subseteq Jobs
    /\ Early(c) /\ c.op = "enqueue" => job[c.job] = "enqueuing"
    /\ Early(c) /\ c.op = "ack" => job[c.job] = "acking"
    /\ Late(c) /\ c.op = "dequeue" => c.job \in Jobs \ DOMAIN Queue /\ ~Busy(c.job)
    /\ Late(c) => c.op # "ack"

CallsApart ==
    \A r, s \in Slots :
        /\ calls[r].op = "dequeue" /\ calls[s].op = "dequeue" => r = s
        /\ Early(calls[r]) /\ Early(calls[s]) /\ calls[r].op # "dequeue" /\ calls[s].op # "dequeue"
           /\ calls[r].job = calls[s].job => r = s

Waits(j) == j \in DOMAIN Queue \/ Taken(j) \/ j \in dropped \/ (overlapped /\ crashes > 0)

OneArray ==
    /\ ArrayTyped
    /\ \A s \in Slots : CallFits(calls[s])
    /\ CallsApart
    /\ \A j \in Jobs : job[j] = "queued" => Waits(j)

(* As long as calls take turns, the file lags behind the array by the one    *)
(* call under way, and what succeeded is in neither.                         *)
Behind(j) == j \in DOMAIN file \/ \E s \in Slots : Late(calls[s]) /\ calls[s].job = j

InTurn ==
    /\ ~loadedTwice
    /\ \A r, s \in Slots : calls[r].at # "idle" /\ calls[s].at # "idle" => r = s
    /\ \A s \in Slots : /\ calls[s].at = "read" => cache = 0
                        /\ calls[s].at = "rename" => calls[s].text = arrays[1]
    /\ \A j \in DOMAIN Queue : Behind(j)
    /\ \A j \in Jobs : Busy(j) => j \notin DOMAIN file
    /\ \A j \in Jobs : job[j] = "done" => j \notin DOMAIN file \cup DOMAIN Queue /\ ~Taken(j)
    /\ again = {}

FileInv ==
    /\ FileTyped /\ DeadKept
    /\ ~loadedTwice => OneArray
    /\ ~overlapped => InTurn

(* One call changes and the others do not.                                   *)
LEMMA CallChanges ==
    ASSUME FileTyped, NEW s \in Slots, NEW d, Shaped(d), calls' = [calls EXCEPT ![s] = d],
           d.at \in {"idle", "load", "read", "act", "write", "rename"},
           d.at # "idle" => d.op \in {"enqueue", "dequeue", "ack"},
           d.at # "idle" /\ d.op # "dequeue" => d.job \in Jobs
    PROVE  /\ calls' = [r \in Slots |-> calls'[r]]
           /\ calls'[s] = d
           /\ \A r \in Slots : r # s => calls'[r] = calls[r]
           /\ \A r \in Slots :
                 /\ Shaped(calls'[r])
                 /\ calls'[r].at \in {"idle", "load", "read", "act", "write", "rename"}
                 /\ calls'[r].at # "idle" => calls'[r].op \in {"enqueue", "dequeue", "ack"}
                 /\ calls'[r].at # "idle" /\ calls'[r].op # "dequeue" => calls'[r].job \in Jobs
<1>1. calls' = [r \in Slots |-> IF r = s THEN d ELSE calls[r]]
  BY DEF FileTyped
<1>2. calls'[s] = d
  BY <1>1
<1>3. \A r \in Slots : r # s => calls'[r] = calls[r]
  BY <1>1
<1>4. calls' = [r \in Slots |-> calls'[r]]
  BY <1>1
<1> QED BY <1>2, <1>3, <1>4 DEF FileTyped

(* The dead letters and what they are for, when neither is touched.          *)
LEMMA DeadStands ==
    ASSUME DeadKept, UNCHANGED <<deadLetters, crashes>>,
           \A j \in Jobs : job'[j] = "dead" => job[j] = "dead"
    PROVE  DeadKept'
BY DEF DeadKept

(* load finds the cache, or goes on to read.                                 *)
LEMMA LoadKeeps ==
    ASSUME FileInv, NEW s \in Slots, Load(s)
    PROVE  FileInv'
<1>1. FileTyped /\ DeadKept /\ Shaped(calls[s])
  BY DEF FileInv, FileTyped
<1>2. PICK d : d = [calls[s] EXCEPT !.at = IF cache = 0 THEN "read" ELSE "act", !.array = cache]
  OBVIOUS
<1>3. /\ Shaped(d) /\ d.at = (IF cache = 0 THEN "read" ELSE "act") /\ d.array = cache
      /\ d.op = calls[s].op /\ d.job = calls[s].job
  BY <1>1, <1>2 DEF Shaped
<1>4. calls' = [calls EXCEPT ![s] = d]
  BY <1>1, <1>2 DEF Load, FileTyped
<1>5. calls[s].at = "load"
  BY DEF Load
<1>6. /\ calls' = [r \in Slots |-> calls'[r]]
      /\ calls'[s] = d
      /\ \A r \in Slots : r # s => calls'[r] = calls[r]
  BY <1>1, <1>3, <1>4, <1>5, CallChanges DEF FileTyped
<1>7. FileTyped'
  BY <1>1, <1>3, <1>4, <1>5, CallChanges DEF FileTyped, Load
<1>8. DeadKept'
  BY <1>1, DeadStands DEF Load
<1>9. UNCHANGED <<job, file, cache, arrays, crashes, overlapped, loadedTwice, dropped, again>>
  BY DEF Load
<1>10. UNCHANGED Queue /\ (\A j : Taken(j)' <=> Taken(j)) /\ (\A j : Behind(j)' <=> Behind(j))
  BY <1>3, <1>5, <1>6, <1>9 DEF Queue, Taken, Behind, Late
<1>11. ASSUME OneArray PROVE OneArray'
  <2>1. ArrayTyped'
    BY <1>9, <1>10, <1>11 DEF OneArray, ArrayTyped, Busy
  <2>2. ASSUME NEW r \in Slots PROVE CallFits(calls[r])'
    <3>1. CallFits(calls[r]) /\ CallFits(calls[s])
      BY <1>11 DEF OneArray
    <3>2. CASE r = s
      BY <1>3, <1>5, <1>6, <1>9, <1>10, <1>11, <3>1, <3>2
      DEF CallFits, Busy, Early, Late, OneArray, ArrayTyped
    <3>3. CASE r # s
      BY <1>6, <1>9, <1>10, <3>1, <3>3 DEF CallFits, Busy, Early, Late
    <3> QED BY <3>2, <3>3
  <2>3. CallsApart'
    BY <1>3, <1>5, <1>6, <1>11 DEF OneArray, CallsApart, Early
  <2>4. \A j \in Jobs : job'[j] = "queued" => Waits(j)'
    BY <1>9, <1>10, <1>11 DEF OneArray, Waits
  <2> QED BY <2>1, <2>2, <2>3, <2>4 DEF OneArray
<1>12. ASSUME InTurn PROVE InTurn'
  BY <1>3, <1>5, <1>6, <1>9, <1>10, <1>12 DEF InTurn, Busy
<1> QED BY <1>7, <1>8, <1>9, <1>11, <1>12 DEF FileInv

(* readFile makes the array; without overlap there was none.                 *)
LEMMA ReadFileKeeps ==
    ASSUME FileInv, NEW s \in Slots, Read(s)
    PROVE  FileInv'
<1>1. FileTyped /\ DeadKept /\ Shaped(calls[s])
  BY DEF FileInv, FileTyped
<1>2. PICK d : d = [calls[s] EXCEPT !.at = "act", !.array = Len(arrays) + 1]
  OBVIOUS
<1>3. /\ Shaped(d) /\ d.at = "act" /\ d.array = Len(arrays) + 1
      /\ d.op = calls[s].op /\ d.job = calls[s].job
  BY <1>1, <1>2 DEF Shaped
<1>4. calls' = [calls EXCEPT ![s] = d]
  BY <1>1, <1>2 DEF Read, FileTyped
<1>5. calls[s].at = "read"
  BY DEF Read
<1>6. /\ calls' = [r \in Slots |-> calls'[r]]
      /\ calls'[s] = d
      /\ \A r \in Slots : r # s => calls'[r] = calls[r]
  BY <1>1, <1>3, <1>4, <1>5, CallChanges DEF FileTyped
<1>7. FileTyped'
  <2>1. loadedTwice' \in BOOLEAN
    BY DEF Read
  <2> QED BY <1>1, <1>3, <1>4, <1>5, <2>1, CallChanges DEF FileTyped, Read
<1>8. DeadKept'
  BY <1>1, DeadStands DEF Read
<1>9. /\ UNCHANGED <<job, file, crashes, overlapped, dropped, again>>
      /\ arrays' = Append(arrays, file) /\ cache' = Len(arrays) + 1
  BY DEF Read
<1>10. loadedTwice' <=> (loadedTwice \/ cache # 0)
  BY DEF Read
<1>11. (\A j : Taken(j)' <=> Taken(j)) /\ (\A j : Behind(j)' <=> Behind(j))
  BY <1>3, <1>5, <1>6, <1>9 DEF Taken, Behind, Late
<1>12. ASSUME OneArray, cache = 0
       PROVE  cache' = 1 /\ d.array = 1 /\ arrays' = <<file>> /\ Queue = file /\ Queue' = file
  <2>1. arrays = <<>>
    BY <1>12 DEF OneArray, ArrayTyped
  <2> QED BY <1>3, <1>9, <1>12, <2>1 DEF Queue
<1>13. ASSUME OneArray, cache = 0 PROVE OneArray'
  <2>0. cache' = 1 /\ d.array = 1 /\ 1 \in DOMAIN arrays' /\ Queue' = Queue
    <3>1. 1 \in DOMAIN <<file>>
      OBVIOUS
    <3> QED BY <1>12, <1>13, <3>1
  <2>1. ArrayTyped'
    BY <1>9, <1>13, <2>0 DEF OneArray, ArrayTyped, Busy
  <2>2. ASSUME NEW r \in Slots PROVE CallFits(calls[r])'
    <3>1. CallFits(calls[r]) /\ CallFits(calls[s])
      BY <1>13 DEF OneArray
    <3>2. CASE r = s
      BY <1>3, <1>5, <1>6, <1>9, <2>0, <3>1, <3>2 DEF CallFits, Busy, Early, Late
    <3>3. CASE r # s
      BY <1>6, <1>9, <1>13, <2>0, <3>1, <3>3 DEF CallFits, Busy, Early, Late
    <3> QED BY <3>2, <3>3
  <2>3. CallsApart'
    BY <1>3, <1>5, <1>6, <1>13 DEF OneArray, CallsApart, Early
  <2>4. \A j \in Jobs : job'[j] = "queued" => Waits(j)'
    BY <1>9, <1>11, <1>13, <2>0 DEF OneArray, Waits
  <2> QED BY <2>1, <2>2, <2>3, <2>4 DEF OneArray
<1>14. ASSUME InTurn, OneArray PROVE InTurn'
  <2>1. cache = 0 /\ ~loadedTwice
    BY <1>5, <1>14 DEF InTurn
  <2>2. ~loadedTwice'
    BY <1>10, <2>1
  <2>3. Queue' = Queue
    BY <1>12, <1>14, <2>1
  <2>4. \A r \in Slots : calls'[r].at # "idle" => r = s
    BY <1>5, <1>6, <1>14 DEF InTurn
  <2>5. \A r \in Slots : calls'[r].at # "read" /\ calls'[r].at # "rename"
    BY <1>3, <1>6, <2>4
  <2> QED BY <1>9, <1>11, <1>14, <2>2, <2>3, <2>4, <2>5 DEF InTurn, Busy
<1>15. ~loadedTwice' => OneArray'
  BY <1>10, <1>13 DEF FileInv
<1>16. ~overlapped' => InTurn'
  <2>1. ~overlapped => InTurn /\ OneArray
    BY DEF FileInv, InTurn
  <2> QED BY <1>9, <1>14, <2>1
<1> QED BY <1>7, <1>8, <1>15, <1>16 DEF FileInv

(* writeFile takes the text of the array as it is.                           *)
LEMMA WriteTempKeeps ==
    ASSUME FileInv, NEW s \in Slots, WriteTemp(s)
    PROVE  FileInv'
<1>1. FileTyped /\ DeadKept /\ Shaped(calls[s])
  BY DEF FileInv, FileTyped
<1>2. PICK d : d = [calls[s] EXCEPT !.at = "rename", !.text = arrays[calls[s].array]]
  OBVIOUS
<1>3. /\ Shaped(d) /\ d.at = "rename" /\ d.text = arrays[calls[s].array]
      /\ d.op = calls[s].op /\ d.job = calls[s].job /\ d.array = calls[s].array
  BY <1>1, <1>2 DEF Shaped
<1>4. calls' = [calls EXCEPT ![s] = d]
  BY <1>1, <1>2 DEF WriteTemp, FileTyped
<1>5. calls[s].at = "write"
  BY DEF WriteTemp
<1>6. /\ calls' = [r \in Slots |-> calls'[r]]
      /\ calls'[s] = d
      /\ \A r \in Slots : r # s => calls'[r] = calls[r]
  BY <1>1, <1>3, <1>4, <1>5, CallChanges DEF FileTyped
<1>7. FileTyped'
  BY <1>1, <1>3, <1>4, <1>5, CallChanges DEF FileTyped, WriteTemp
<1>8. DeadKept'
  BY <1>1, DeadStands DEF WriteTemp
<1>9. UNCHANGED <<job, file, cache, arrays, crashes, overlapped, loadedTwice, dropped, again>>
  BY DEF WriteTemp
<1>10. UNCHANGED Queue /\ (\A j : Taken(j)' <=> Taken(j)) /\ (\A j : Behind(j)' <=> Behind(j))
  BY <1>3, <1>5, <1>6, <1>9 DEF Queue, Taken, Behind, Late
<1>11. ASSUME OneArray PROVE OneArray' /\ d.text = arrays[1]
  <2>0. CallFits(calls[s])
    BY <1>11 DEF OneArray
  <2>1. ArrayTyped'
    BY <1>9, <1>10, <1>11 DEF OneArray, ArrayTyped, Busy
  <2>2. d.text = arrays[1] /\ d.text = Queue /\ DOMAIN d.text \subseteq Jobs
    BY <1>3, <1>5, <1>11, <2>0 DEF OneArray, ArrayTyped, CallFits, Late, Queue
  <2>3. ASSUME NEW r \in Slots PROVE CallFits(calls[r])'
    <3>1. CallFits(calls[r])
      BY <1>11 DEF OneArray
    <3>2. CASE r = s
      BY <1>3, <1>5, <1>6, <1>9, <1>10, <2>0, <2>2, <3>2 DEF CallFits, Busy, Early, Late
    <3>3. CASE r # s
      BY <1>6, <1>9, <1>10, <3>1, <3>3 DEF CallFits, Busy, Early, Late
    <3> QED BY <3>2, <3>3
  <2>4. CallsApart'
    BY <1>3, <1>5, <1>6, <1>11 DEF OneArray, CallsApart, Early
  <2>5. \A j \in Jobs : job'[j] = "queued" => Waits(j)'
    BY <1>9, <1>10, <1>11 DEF OneArray, Waits
  <2> QED BY <2>1, <2>2, <2>3, <2>4, <2>5 DEF OneArray
<1>12. ASSUME InTurn, OneArray PROVE InTurn'
  <2>1. \A r \in Slots : calls'[r].at # "idle" => r = s
    BY <1>5, <1>6, <1>12 DEF InTurn
  <2>2. \A r \in Slots : calls'[r].at = "rename" => calls'[r].text = arrays'[1]
    BY <1>6, <1>9, <1>11, <1>12, <2>1
  <2>3. \A r \in Slots : calls'[r].at # "read"
    BY <1>3, <1>6, <2>1
  <2> QED BY <1>9, <1>10, <1>12, <2>1, <2>2, <2>3 DEF InTurn, Busy
<1>13. ~overlapped => InTurn /\ OneArray
  BY DEF FileInv, InTurn
<1> QED BY <1>7, <1>8, <1>9, <1>11, <1>12, <1>13 DEF FileInv

(* enqueue puts the submission in the array, where it waits.                 *)
LEMMA EnqueueActsKeeps ==
    ASSUME FileInv, NEW s \in Slots, EnqueueActs(s)
    PROVE  FileInv'
<1>1. FileTyped /\ DeadKept /\ Shaped(calls[s])
  BY DEF FileInv, FileTyped
<1>2. PICK d : d = [calls[s] EXCEPT !.at = "write", !.job = calls[s].job]
  OBVIOUS
<1>3. /\ Shaped(d) /\ d.at = "write" /\ d.array = calls[s].array
      /\ d.op = calls[s].op /\ d.job = calls[s].job
  BY <1>1, <1>2 DEF Shaped
<1>4. calls' = [calls EXCEPT ![s] = d]
  BY <1>1, <1>2 DEF EnqueueActs, Persists, FileTyped
<1>5. calls[s].at = "act" /\ calls[s].op = "enqueue" /\ calls[s].job \in Jobs
  BY <1>1 DEF EnqueueActs, FileTyped
<1>6. /\ calls' = [r \in Slots |-> calls'[r]]
      /\ calls'[s] = d
      /\ \A r \in Slots : r # s => calls'[r] = calls[r]
  BY <1>1, <1>3, <1>4, <1>5, CallChanges DEF FileTyped
<1>7. PICK i \in Jobs : i = calls[s].job
  BY <1>5
<1>8. /\ job' = [job EXCEPT ![i] = "queued"]
      /\ UNCHANGED <<file, deadLetters, crashes, overlapped, loadedTwice, dropped, again>>
      /\ arrays' = [arrays EXCEPT ![calls[s].array] = Upserted(arrays[calls[s].array], calls[s])]
      /\ cache' = calls[s].array
  BY <1>7 DEF EnqueueActs, Persists
<1>9. job'[i] = "queued" /\ \A j \in Jobs : j # i => job'[j] = job[j]
  BY <1>1, <1>8 DEF FileTyped
<1>10. FileTyped'
  BY <1>1, <1>3, <1>4, <1>5, <1>8, CallChanges DEF FileTyped
<1>11. DeadKept'
  BY <1>1, <1>8, <1>9, DeadStands
<1>12. ASSUME OneArray
       PROVE  /\ cache = 1 /\ cache' = 1 /\ calls[s].array = 1 /\ 1 \in DOMAIN arrays'
              /\ DOMAIN Queue' = DOMAIN Queue \cup {i} /\ Queue' = arrays'[1] /\ job[i] = "enqueuing"
  <2>1. CallFits(calls[s])
    BY <1>12 DEF OneArray
  <2>2. cache = 1 /\ calls[s].array = 1 /\ 1 \in DOMAIN arrays /\ job[i] = "enqueuing"
    BY <1>5, <1>7, <1>12, <2>1 DEF CallFits, OneArray, ArrayTyped, Early
  <2>3. 1 \in DOMAIN arrays' /\ arrays'[1] = Upserted(arrays[1], calls[s])
    BY <1>8, <2>2
  <2>4. DOMAIN arrays'[1] = DOMAIN arrays[1] \cup {i}
    BY <1>7, <2>3 DEF Upserted
  <2> QED BY <1>8, <2>2, <2>3, <2>4 DEF Queue
<1>13. ASSUME OneArray PROVE OneArray'
  <2>1. ArrayTyped'
    BY <1>8, <1>9, <1>12, <1>13 DEF OneArray, ArrayTyped, Busy
  <2>2. ASSUME NEW r \in Slots PROVE CallFits(calls[r])'
    <3>1. CallFits(calls[r])
      BY <1>13 DEF OneArray
    <3>2. CASE r = s
      BY <1>3, <1>5, <1>6, <1>12, <1>13, <3>2 DEF CallFits, Early, Late
    <3>3. CASE r # s
      <4>1. calls'[r] = calls[r]
        BY <1>6, <3>3
      <4>2. ASSUME Early(calls[r]), calls[r].op # "dequeue"
            PROVE  calls[r].job \in Jobs /\ calls[r].job # i
        BY <1>1, <1>5, <1>7, <1>13, <3>3, <4>2 DEF FileTyped, OneArray, CallsApart, Early
      <4>3. ASSUME Late(calls[r]), calls[r].op = "dequeue"
            PROVE  calls[r].job \in Jobs \ DOMAIN Queue' /\ calls[r].job # i /\ ~Busy(calls[r].job)
        BY <1>12, <1>13, <3>1, <4>3 DEF CallFits, Busy
      <4> QED BY <1>9, <1>12, <1>13, <3>1, <4>1, <4>2, <4>3 DEF CallFits, Busy, Early, Late
    <3> QED BY <3>2, <3>3
  <2>3. CallsApart'
    BY <1>3, <1>5, <1>6, <1>13 DEF OneArray, CallsApart, Early
  <2>4. \A j \in Jobs : Taken(j) => Taken(j)'
    BY <1>3, <1>5, <1>6 DEF Taken
  <2>5. \A j \in Jobs : job'[j] = "queued" => Waits(j)'
    BY <1>8, <1>9, <1>12, <1>13, <2>4 DEF OneArray, Waits
  <2> QED BY <2>1, <2>2, <2>3, <2>5 DEF OneArray
<1>14. ASSUME InTurn, OneArray PROVE InTurn'
  <2>1. \A r \in Slots : calls'[r].at # "idle" => r = s
    BY <1>5, <1>6, <1>14 DEF InTurn
  <2>2. \A r \in Slots : calls'[r].at # "read" /\ calls'[r].at # "rename"
    BY <1>3, <1>6, <2>1
  <2>3. \A j : ~Taken(j)'
    BY <1>3, <1>5, <1>6, <2>1 DEF Taken, Late
  <2>4. \A j : ~\E r \in Slots : Late(calls[r]) /\ calls[r].job = j
    BY <1>5, <1>14 DEF InTurn, Late
  <2>5. \A j \in DOMAIN Queue' : Behind(j)'
    <3>1. Behind(i)'
      BY <1>3, <1>6, <1>7 DEF Behind, Late
    <3>2. ASSUME NEW j \in DOMAIN Queue' , j # i PROVE Behind(j)'
      BY <1>8, <1>12, <1>14, <2>4, <3>2 DEF InTurn, Behind
    <3> QED BY <3>1, <3>2
  <2> QED BY <1>8, <1>9, <1>12, <1>14, <2>1, <2>2, <2>3, <2>5 DEF InTurn, Busy
<1>15. ~overlapped => InTurn /\ OneArray
  BY DEF FileInv, InTurn
<1> QED BY <1>8, <1>10, <1>11, <1>13, <1>14, <1>15 DEF FileInv

(* A dequeue that finds nothing due, or an ack that has nothing to remove,   *)
(* ends at once.                                                             *)
LEMMA CallEnds ==
    ASSUME FileInv, NEW s \in Slots, calls' = [calls EXCEPT ![s] = Idle],
           calls[s].at = "act", calls[s].op = "dequeue" \/ calls[s].op = "ack",
           UNCHANGED <<file, cache, arrays, deadLetters, crashes, overlapped, loadedTwice,
                       dropped, again>>,
           calls[s].op = "dequeue" => UNCHANGED job,
           calls[s].op = "ack" => job' = [job EXCEPT ![calls[s].job] = "done"]
    PROVE  FileInv'
<1>1. FileTyped /\ DeadKept /\ Shaped(calls[s])
  BY DEF FileInv, FileTyped
<1>2. PICK d : d = Idle
  OBVIOUS
<1>3. Shaped(d) /\ d.at = "idle" /\ d.op = "none"
  BY <1>2 DEF Shaped, Idle
<1>4. calls' = [calls EXCEPT ![s] = d]
  BY <1>2
<1>5. calls[s].op = "ack" => calls[s].job \in Jobs
  BY <1>1 DEF FileTyped
<1>6. /\ calls' = [r \in Slots |-> calls'[r]]
      /\ calls'[s] = d
      /\ \A r \in Slots : r # s => calls'[r] = calls[r]
  BY <1>1, <1>3, <1>4, CallChanges
<1>7. /\ DOMAIN job' = Jobs
      /\ \A j \in Jobs : \/ job'[j] = job[j]
                         \/ job'[j] = "done" /\ calls[s].op = "ack" /\ calls[s].job = j
  BY <1>1 DEF FileTyped
<1>8. calls[s].op = "ack" => job'[calls[s].job] = "done"
  BY <1>1, <1>5 DEF FileTyped
<1>9. FileTyped'
  <2>1. job' \in [Jobs -> {"attempting", "acking", "enqueuing", "queued", "done", "dead"}]
    BY <1>1 DEF FileTyped
  <2> QED BY <1>1, <1>3, <1>4, <2>1, CallChanges DEF FileTyped
<1>10. DeadKept'
  BY <1>1, <1>7, DeadStands
<1>11. UNCHANGED Queue /\ (\A j : Taken(j)' <=> Taken(j)) /\ (\A j : Behind(j)' <=> Behind(j))
  BY <1>3, <1>6 DEF Queue, Taken, Behind, Late
<1>12. \A j \in Jobs : Busy(j)' => Busy(j) /\ job'[j] = job[j]
  BY <1>7 DEF Busy
<1>13. ASSUME OneArray PROVE OneArray'
  <2>1. ArrayTyped'
    BY <1>11, <1>12, <1>13 DEF OneArray, ArrayTyped
  <2>2. ASSUME NEW r \in Slots PROVE CallFits(calls[r])'
    <3>1. CallFits(calls[r]) /\ CallFits(calls[s])
      BY <1>13 DEF OneArray
    <3>2. CASE r = s
      BY <1>3, <1>6, <3>2 DEF CallFits, Early, Late
    <3>3. CASE r # s
      <4>1. calls'[r] = calls[r]
        BY <1>6, <3>3
      <4>2. ASSUME Early(calls[r]), calls[r].op # "dequeue"
            PROVE  calls[r].job \in Jobs /\ job'[calls[r].job] = job[calls[r].job]
        <5>1. calls[r].job \in Jobs
          BY <1>1, <4>2 DEF FileTyped, Early
        <5>2. calls[s].op = "ack" => calls[r].job # calls[s].job
          BY <1>13, <3>3, <4>2 DEF OneArray, CallsApart, Early
        <5> QED BY <1>7, <5>1, <5>2
      <4>3. ASSUME Late(calls[r]), calls[r].op = "dequeue"
            PROVE  calls[r].job \in Jobs \ DOMAIN Queue' /\ ~Busy(calls[r].job)'
        BY <1>11, <1>12, <3>1, <4>1, <4>3 DEF CallFits, Busy
      <4> QED BY <3>1, <4>1, <4>2, <4>3 DEF CallFits, Early, Late
    <3> QED BY <3>2, <3>3
  <2>3. CallsApart'
    BY <1>3, <1>6, <1>13 DEF OneArray, CallsApart, Early
  <2>4. \A j \in Jobs : job'[j] = "queued" => Waits(j)'
    BY <1>7, <1>11, <1>13 DEF OneArray, Waits
  <2> QED BY <2>1, <2>2, <2>3, <2>4 DEF OneArray
<1>14. ASSUME InTurn, OneArray PROVE InTurn'
  <2>1. \A r \in Slots : calls'[r].at = "idle"
    BY <1>3, <1>6, <1>14 DEF InTurn
  <2>2. \A j : ~Taken(j)'
    BY <2>1 DEF Taken, Late
  <2>3. ASSUME NEW j \in Jobs, job'[j] = "done"
        PROVE  j \notin DOMAIN file' \cup DOMAIN Queue'
    <3>1. CASE job[j] = "done"
      BY <1>11, <1>14, <3>1 DEF InTurn
    <3>2. CASE job[j] # "done"
      <4>1. calls[s].op = "ack" /\ calls[s].job = j
        BY <1>7, <2>3, <3>2
      <4>2. Busy(j)
        BY <1>14, <4>1 DEF OneArray, CallFits, Early, Busy
      <4> QED BY <1>11, <1>14, <4>2 DEF InTurn, OneArray, ArrayTyped
    <3> QED BY <3>1, <3>2
  <2>4. \A j \in Jobs : Busy(j)' => j \notin DOMAIN file'
    BY <1>12, <1>14 DEF InTurn
  <2> QED BY <1>11, <1>14, <2>1, <2>2, <2>3, <2>4 DEF InTurn
<1>15. ~overlapped => InTurn /\ OneArray
  BY DEF FileInv, InTurn
<1> QED BY <1>9, <1>10, <1>13, <1>14, <1>15 DEF FileInv

(* dequeue takes a record out of the array and holds it until the rename.    *)
LEMMA DequeueActsKeeps ==
    ASSUME FileInv, NEW s \in Slots, DequeueActs(s)
    PROVE  FileInv'
<1>1. FileTyped /\ DeadKept /\ Shaped(calls[s])
  BY DEF FileInv, FileTyped
<1>2. calls[s].at = "act" /\ calls[s].op = "dequeue"
  BY DEF DequeueActs
<1>3. UNCHANGED <<job, file, deadLetters, crashes, overlapped, loadedTwice, dropped, again>>
  BY DEF DequeueActs
<1>4. CASE calls' = [calls EXCEPT ![s] = Idle] /\ UNCHANGED <<arrays, cache>>
  BY <1>2, <1>3, <1>4, CallEnds
<1>5. ASSUME NEW i \in EarliestDue(arrays[calls[s].array]),
             Persists(s, i, [k \in DOMAIN arrays[calls[s].array] \ {i}
                                |-> arrays[calls[s].array][k]])
      PROVE  FileInv'
  <2>1. PICK d : d = [calls[s] EXCEPT !.at = "write", !.job = i]
    OBVIOUS
  <2>2. /\ Shaped(d) /\ d.at = "write" /\ d.array = calls[s].array
        /\ d.op = calls[s].op /\ d.job = i
    BY <1>1, <2>1 DEF Shaped
  <2>3. calls' = [calls EXCEPT ![s] = d]
    BY <1>1, <1>5, <2>1 DEF Persists, FileTyped
  <2>4. /\ calls' = [r \in Slots |-> calls'[r]]
        /\ calls'[s] = d
        /\ \A r \in Slots : r # s => calls'[r] = calls[r]
    BY <1>1, <1>2, <2>2, <2>3, CallChanges
  <2>5. FileTyped'
    BY <1>1, <1>2, <1>3, <2>2, <2>3, CallChanges DEF FileTyped
  <2>6. DeadKept'
    BY <1>1, <1>3, DeadStands
  <2>7. ASSUME OneArray
        PROVE  /\ cache = 1 /\ cache' = 1 /\ calls[s].array = 1 /\ 1 \in DOMAIN arrays'
               /\ DOMAIN Queue' = DOMAIN Queue \ {i} /\ i \in DOMAIN Queue /\ i \in Jobs
    <3>1. CallFits(calls[s])
      BY <2>7 DEF OneArray
    <3>2. cache = 1 /\ calls[s].array = 1 /\ 1 \in DOMAIN arrays
      BY <1>2, <2>7, <3>1 DEF CallFits, OneArray, ArrayTyped
    <3>3. /\ 1 \in DOMAIN arrays' /\ cache' = 1
          /\ arrays'[1] = [k \in DOMAIN arrays[1] \ {i} |-> arrays[1][k]]
      BY <1>5, <3>2 DEF Persists
    <3>4. DOMAIN arrays'[1] = DOMAIN arrays[1] \ {i}
      BY <3>3
    <3>5. i \in DOMAIN Queue /\ i \in Jobs
      BY <1>5, <2>7, <3>2 DEF EarliestDue, Queue, OneArray, ArrayTyped
    <3> QED BY <3>2, <3>3, <3>4, <3>5 DEF Queue
  <2>8. ASSUME OneArray PROVE OneArray'
    <3>0. ~Busy(i)
      BY <2>7, <2>8 DEF OneArray, ArrayTyped
    <3>1. ArrayTyped'
      BY <1>3, <2>7, <2>8 DEF OneArray, ArrayTyped, Busy
    <3>2. ASSUME NEW r \in Slots PROVE CallFits(calls[r])'
      <4>1. CallFits(calls[r])
        BY <2>8 DEF OneArray
      <4>2. CASE r = s
        BY <1>2, <1>3, <2>2, <2>4, <2>7, <2>8, <3>0, <4>2 DEF CallFits, Early, Late, Busy
      <4>3. CASE r # s
        BY <1>3, <2>4, <2>7, <2>8, <4>1, <4>3 DEF CallFits, Early, Late, Busy
      <4> QED BY <4>2, <4>3
    <3>3. CallsApart'
      BY <1>2, <2>2, <2>4, <2>8 DEF OneArray, CallsApart, Early
    <3>4. \A j \in Jobs : Taken(j) => Taken(j)'
      BY <1>2, <2>2, <2>4 DEF Taken, Late
    <3>5. Taken(i)'
      BY <1>2, <2>2, <2>4 DEF Taken, Late
    <3>6. \A j \in Jobs : job'[j] = "queued" => Waits(j)'
      BY <1>3, <2>7, <2>8, <3>4, <3>5 DEF OneArray, Waits
    <3> QED BY <3>1, <3>2, <3>3, <3>6 DEF OneArray
  <2>9. ASSUME InTurn, OneArray PROVE InTurn'
    <3>1. \A r \in Slots : calls'[r].at # "idle" => r = s
      BY <1>2, <2>4, <2>9 DEF InTurn
    <3>2. \A r \in Slots : calls'[r].at # "read" /\ calls'[r].at # "rename"
      BY <2>2, <2>4, <3>1
    <3>3. \A j : Taken(j)' => j = i
      BY <2>2, <2>4, <3>1 DEF Taken, Late
    <3>4. job[i] # "done"
      BY <2>7, <2>9 DEF InTurn
    <3>5. \A j : ~\E r \in Slots : Late(calls[r]) /\ calls[r].job = j
      BY <1>2, <2>9 DEF InTurn, Late
    <3>6. \A j \in DOMAIN Queue' : Behind(j)'
      BY <1>3, <2>7, <2>9, <3>5 DEF InTurn, Behind
    <3> QED BY <1>3, <2>7, <2>9, <3>1, <3>2, <3>3, <3>4, <3>6 DEF InTurn, Busy
  <2>10. ~overlapped => InTurn /\ OneArray
    BY DEF FileInv, InTurn
  <2> QED BY <1>3, <2>5, <2>6, <2>8, <2>9, <2>10 DEF FileInv
<1> QED BY <1>4, <1>5 DEF DequeueActs

(* An ack has nothing to remove unless the file was read twice.              *)
LEMMA AckActsKeeps ==
    ASSUME FileInv, NEW s \in Slots, AckActs(s)
    PROVE  FileInv'
<1>1. FileTyped /\ DeadKept /\ Shaped(calls[s])
  BY DEF FileInv, FileTyped
<1>2. calls[s].at = "act" /\ calls[s].op = "ack" /\ calls[s].job \in Jobs
  BY <1>1 DEF AckActs, FileTyped
<1>3. /\ job' = [job EXCEPT ![calls[s].job] = "done"]
      /\ UNCHANGED <<file, deadLetters, crashes, overlapped, loadedTwice, dropped, again>>
  BY DEF AckActs
<1>4. CASE calls[s].job \notin DOMAIN arrays[calls[s].array]
  BY <1>2, <1>3, <1>4, CallEnds DEF AckActs
<1>5. CASE calls[s].job \in DOMAIN arrays[calls[s].array]
  <2>1. ~OneArray
    <3>1. ASSUME OneArray PROVE FALSE
      <4>1. CallFits(calls[s])
        BY <3>1 DEF OneArray
      <4>2. calls[s].array = cache /\ cache = 1 /\ Busy(calls[s].job)
        BY <1>2, <4>1 DEF CallFits, Early, Busy
      <4>3. calls[s].job \in DOMAIN Queue
        BY <1>5, <4>2 DEF Queue
      <4> QED BY <1>2, <3>1, <4>2, <4>3 DEF OneArray, ArrayTyped
    <3> QED BY <3>1
  <2>2. loadedTwice /\ overlapped
    BY <2>1 DEF FileInv, InTurn
  <2>3. PICK d : d = [calls[s] EXCEPT !.at = "write", !.array = Len(arrays) + 1]
    OBVIOUS
  <2>4. Shaped(d) /\ d.at = "write" /\ d.op = calls[s].op /\ d.job = calls[s].job
    BY <1>1, <2>3 DEF Shaped
  <2>5. calls' = [calls EXCEPT ![s] = d]
    BY <1>1, <1>5, <2>3 DEF AckActs, FileTyped
  <2>6. FileTyped'
    BY <1>1, <1>2, <1>3, <2>4, <2>5, CallChanges DEF FileTyped
  <2>7. DeadKept'
    <3>1. \A j \in Jobs : job'[j] = "dead" => job[j] = "dead"
      BY <1>1, <1>3 DEF FileTyped
    <3> QED BY <1>1, <1>3, <3>1, DeadStands
  <2> QED BY <1>3, <2>2, <2>6, <2>7 DEF FileInv
<1> QED BY <1>4, <1>5

(* After the rename the file holds the text; a dequeued submission is being  *)
(* attempted.                                                                *)
LEMMA RenameKeeps ==
    ASSUME FileInv, NEW s \in Slots, Rename(s)
    PROVE  FileInv'
<1>1. FileTyped /\ DeadKept /\ Shaped(calls[s])
  BY DEF FileInv, FileTyped
<1>2. PICK d : d = Idle
  OBVIOUS
<1>3. Shaped(d) /\ d.at = "idle" /\ d.op = "none"
  BY <1>2 DEF Shaped, Idle
<1>4. calls' = [calls EXCEPT ![s] = d]
  BY <1>2 DEF Rename
<1>5. calls[s].at = "rename" /\ calls[s].op \in {"enqueue", "dequeue", "ack"}
  BY <1>1 DEF Rename, FileTyped
<1>6. /\ calls' = [r \in Slots |-> calls'[r]]
      /\ calls'[s] = d
      /\ \A r \in Slots : r # s => calls'[r] = calls[r]
  BY <1>1, <1>3, <1>4, CallChanges
<1>7. /\ UNCHANGED <<cache, arrays, deadLetters, crashes, overlapped, loadedTwice, dropped>>
      /\ file' = calls[s].text
      /\ job' = [job EXCEPT ![calls[s].job] = IF calls[s].op = "dequeue" THEN "attempting" ELSE @]
      /\ again' = again \cup (IF calls[s].op = "dequeue" /\ job[calls[s].job] = "done"
                              THEN {calls[s].job} ELSE {})
  BY DEF Rename, Renamed
<1>8. /\ job' \in [Jobs -> {"attempting", "acking", "enqueuing", "queued", "done", "dead"}]
      /\ \A j \in Jobs : \/ job'[j] = job[j]
                         \/ /\ job'[j] = "attempting" /\ calls[s].op = "dequeue"
                            /\ calls[s].job = j
  BY <1>1, <1>7 DEF FileTyped
<1>9. FileTyped'
  BY <1>1, <1>3, <1>4, <1>7, <1>8, CallChanges DEF FileTyped
<1>10. DeadKept'
  BY <1>1, <1>7, <1>8, DeadStands
<1>11. ASSUME OneArray
       PROVE  /\ cache = 1 /\ calls[s].array = 1 /\ Queue' = Queue /\ DOMAIN file' \subseteq Jobs
              /\ calls[s].op # "ack"
              /\ calls[s].op = "dequeue" => /\ calls[s].job \in Jobs \ DOMAIN Queue
                                            /\ ~Busy(calls[s].job)
  <2>1. CallFits(calls[s])
    BY <1>11 DEF OneArray
  <2> QED BY <1>5, <1>7, <2>1 DEF CallFits, Late, Queue
<1>12. ASSUME OneArray PROVE OneArray'
  <2>1. ArrayTyped'
    <3>1. ASSUME NEW j \in Jobs, Busy(j)' PROVE j \notin DOMAIN Queue'
      <4>1. Busy(j) \/ (calls[s].op = "dequeue" /\ calls[s].job = j)
        BY <1>8, <3>1 DEF Busy
      <4> QED BY <1>11, <1>12, <4>1 DEF OneArray, ArrayTyped
    <3> QED BY <1>7, <1>11, <1>12, <3>1 DEF OneArray, ArrayTyped
  <2>2. ASSUME NEW r \in Slots PROVE CallFits(calls[r])'
    <3>1. CallFits(calls[r])
      BY <1>12 DEF OneArray
    <3>2. CASE r = s
      BY <1>3, <1>6, <3>2 DEF CallFits, Early, Late
    <3>3. CASE r # s
      <4>1. calls'[r] = calls[r]
        BY <1>6, <3>3
      <4>2. ASSUME Early(calls[r]), calls[r].op # "dequeue"
            PROVE  calls[r].job \in Jobs /\ job'[calls[r].job] = job[calls[r].job]
        <5>1. calls[r].job \in Jobs /\ Busy(calls[r].job)
          BY <1>1, <3>1, <4>2 DEF FileTyped, Early, CallFits, Busy
        <5>2. calls[s].op = "dequeue" => calls[r].job # calls[s].job
          BY <1>11, <1>12, <5>1
        <5> QED BY <1>8, <5>1, <5>2
      <4>3. ASSUME Late(calls[r]), calls[r].op = "dequeue" PROVE calls[s].op # "dequeue"
        BY <1>12, <3>3, <4>3 DEF OneArray, CallsApart
      <4>4. ASSUME Late(calls[r]), calls[r].op = "dequeue"
            PROVE  /\ calls[r].job \in Jobs \ DOMAIN Queue'
                   /\ job'[calls[r].job] = job[calls[r].job] /\ ~Busy(calls[r].job)
        BY <1>8, <1>11, <1>12, <3>1, <4>3, <4>4 DEF CallFits
      <4> QED BY <1>7, <3>1, <4>1, <4>2, <4>4 DEF CallFits, Early, Late, Busy
    <3> QED BY <3>2, <3>3
  <2>3. CallsApart'
    BY <1>3, <1>6, <1>12 DEF OneArray, CallsApart, Early
  <2>4. \A j \in Jobs : Taken(j) => Taken(j)' \/ job'[j] = "attempting"
    <3>1. ASSUME NEW j \in Jobs, NEW r \in Slots, Late(calls[r]), calls[r].op = "dequeue",
                 calls[r].job = j
          PROVE  Taken(j)' \/ job'[j] = "attempting"
      <4>1. CASE r = s
        BY <1>1, <1>7, <3>1, <4>1 DEF FileTyped
      <4>2. CASE r # s
        BY <1>6, <3>1, <4>2 DEF Taken
      <4> QED BY <4>1, <4>2
    <3> QED BY <3>1 DEF Taken
  <2>5. ASSUME NEW j \in Jobs, job'[j] = "queued" PROVE Waits(j)'
    <3>1. job[j] = "queued"
      BY <1>8, <2>5
    <3>2. Waits(j)
      BY <1>12, <3>1 DEF OneArray
    <3> QED BY <1>7, <1>11, <1>12, <2>4, <2>5, <3>2 DEF Waits
  <2> QED BY <2>1, <2>2, <2>3, <2>5 DEF OneArray
<1>13. ASSUME InTurn, OneArray PROVE InTurn'
  <2>1. \A r \in Slots : calls'[r].at = "idle"
    BY <1>3, <1>5, <1>6, <1>13 DEF InTurn
  <2>2. \A j : ~Taken(j)'
    BY <2>1 DEF Taken, Late
  <2>3. file' = Queue /\ Queue' = Queue
    BY <1>5, <1>7, <1>11, <1>13 DEF InTurn, Queue
  <2>4. ArrayTyped'
    BY <1>12, <1>13 DEF OneArray
  <2>5. \A j \in Jobs : Busy(j)' => j \notin DOMAIN file'
    BY <2>3, <2>4 DEF ArrayTyped
  <2>6. \A j \in Jobs : job'[j] = "done" => j \notin DOMAIN file' \cup DOMAIN Queue'
    BY <1>8, <1>13, <2>3 DEF InTurn
  <2>7. calls[s].op = "dequeue" => job[calls[s].job] # "done"
    <3>1. ASSUME calls[s].op = "dequeue" PROVE Taken(calls[s].job) /\ calls[s].job \in Jobs
      BY <1>5, <1>11, <1>13, <3>1 DEF Taken, Late
    <3> QED BY <1>13, <3>1 DEF InTurn
  <2>8. again' = {}
    BY <1>7, <1>13, <2>7 DEF InTurn
  <2>9. \A j \in DOMAIN Queue' : Behind(j)'
    BY <2>3 DEF Behind
  <2> QED BY <1>7, <1>13, <2>1, <2>2, <2>5, <2>6, <2>8, <2>9 DEF InTurn
<1>14. ~overlapped => InTurn /\ OneArray
  BY DEF FileInv, InTurn
<1> QED BY <1>7, <1>9, <1>10, <1>12, <1>13, <1>14 DEF FileInv

(* A call starts: a poll when no other is under way, or the enqueue or the   *)
(* ack of a submission whose attempt has just ended.                         *)
LEMMA StartsKeeps ==
    ASSUME FileInv, NEW op \in {"enqueue", "dequeue", "ack"}, NEW i, NEW due, Starts(op, i, due),
           UNCHANGED <<file, cache, arrays, deadLetters, crashes, loadedTwice, dropped, again>>,
           op = "dequeue" => UNCHANGED job /\ \A r \in Slots : calls[r].op # "dequeue",
           op # "dequeue" =>
               /\ i \in Jobs /\ job[i] = "attempting"
               /\ job' = [job EXCEPT ![i] = IF op = "ack" THEN "acking" ELSE "enqueuing"]
    PROVE  FileInv'
<1>1. FileTyped /\ DeadKept
  BY DEF FileInv
<1>2. PICK s \in Slots :
         /\ calls[s] = Idle
         /\ calls' = [calls EXCEPT ![s] = [Idle EXCEPT !.at = "load", !.op = op, !.job = i,
                                                       !.due = due]]
  BY DEF Starts
<1>3. PICK d : d = [Idle EXCEPT !.at = "load", !.op = op, !.job = i, !.due = due]
  OBVIOUS
<1>4. Shaped(d) /\ d.at = "load" /\ d.op = op /\ d.job = i
  BY <1>3 DEF Shaped, Idle
<1>5. calls' = [calls EXCEPT ![s] = d] /\ calls[s].at = "idle"
  BY <1>2, <1>3 DEF Idle
<1>6. /\ calls' = [r \in Slots |-> calls'[r]]
      /\ calls'[s] = d
      /\ \A r \in Slots : r # s => calls'[r] = calls[r]
  BY <1>1, <1>4, <1>5, CallChanges
<1>7. overlapped' <=> (overlapped \/ \E r \in Slots : calls[r] # Idle)
  BY DEF Starts
<1>8. overlapped' \in BOOLEAN
  BY DEF Starts
<1>9. /\ job' \in [Jobs -> {"attempting", "acking", "enqueuing", "queued", "done", "dead"}]
      /\ \A j \in Jobs : \/ job'[j] = job[j]
                         \/ /\ op # "dequeue" /\ j = i /\ job[j] = "attempting"
                            /\ job'[j] = IF op = "ack" THEN "acking" ELSE "enqueuing"
  BY <1>1 DEF FileTyped
<1>10. op # "dequeue" => job'[i] = IF op = "ack" THEN "acking" ELSE "enqueuing"
  BY <1>1 DEF FileTyped
<1>11. FileTyped'
  BY <1>1, <1>4, <1>5, <1>8, <1>9, CallChanges DEF FileTyped
<1>12. DeadKept'
  <2>1. \A j \in Jobs : job'[j] = "dead" => job[j] = "dead"
    BY <1>9
  <2> QED BY <1>1, <2>1, DeadStands
<1>13. UNCHANGED Queue /\ (\A j : Taken(j)' <=> Taken(j)) /\ (\A j : Behind(j)' <=> Behind(j))
  BY <1>4, <1>5, <1>6 DEF Queue, Taken, Behind, Late
<1>14. \A j \in Jobs : /\ Busy(j)' <=> Busy(j)
                       /\ job'[j] \in {"queued", "done"} => job'[j] = job[j]
  BY <1>9 DEF Busy
<1>15. ASSUME OneArray PROVE OneArray'
  <2>1. ArrayTyped'
    BY <1>13, <1>14, <1>15 DEF OneArray, ArrayTyped
  <2>2. ASSUME NEW r \in Slots PROVE CallFits(calls[r])'
    <3>1. CallFits(calls[r])
      BY <1>15 DEF OneArray
    <3>2. CASE r = s
      BY <1>4, <1>6, <1>10, <3>2 DEF CallFits, Early, Late
    <3>3. CASE r # s
      <4>1. calls'[r] = calls[r]
        BY <1>6, <3>3
      <4>2. ASSUME Early(calls[r]), calls[r].op # "dequeue"
            PROVE  calls[r].job \in Jobs /\ job'[calls[r].job] = job[calls[r].job]
        <5>1. calls[r].job \in Jobs /\ job[calls[r].job] # "attempting"
          BY <1>1, <3>1, <4>2 DEF FileTyped, Early, CallFits
        <5> QED BY <1>9, <5>1
      <4>3. ASSUME Late(calls[r]), calls[r].op = "dequeue"
            PROVE  /\ calls[r].job \in Jobs \ DOMAIN Queue' /\ ~Busy(calls[r].job)
                   /\ job'[calls[r].job] = job[calls[r].job]
        BY <1>9, <1>13, <3>1, <4>3 DEF CallFits, Busy
      <4> QED BY <3>1, <4>1, <4>2, <4>3 DEF CallFits, Early, Late, Busy
    <3> QED BY <3>2, <3>3
  <2>3. CallsApart'
    <3>1. ASSUME NEW r \in Slots, r # s, Early(calls[r]), calls[r].op # "dequeue", op # "dequeue"
          PROVE  calls[r].job # i
      <4>1. CallFits(calls[r]) /\ calls[r].op \in {"enqueue", "ack"}
        BY <1>1, <1>15, <3>1 DEF OneArray, FileTyped, Early
      <4> QED BY <3>1, <4>1 DEF CallFits
    <3> QED BY <1>4, <1>6, <1>15, <3>1 DEF OneArray, CallsApart
  <2>4. ASSUME NEW j \in Jobs, job'[j] = "queued" PROVE Waits(j)'
    <3>1. Waits(j)
      BY <1>14, <1>15, <2>4 DEF OneArray
    <3>2. overlapped => overlapped'
      BY <1>7
    <3> QED BY <1>13, <3>1, <3>2 DEF Waits
  <2> QED BY <2>1, <2>2, <2>3, <2>4 DEF OneArray
<1>16. ASSUME InTurn, \A r \in Slots : calls[r] = Idle PROVE InTurn'
  <2>1. \A r \in Slots : calls[r].at = "idle"
    BY <1>16 DEF Idle
  <2>2. \A r \in Slots : calls'[r].at # "idle" => r = s
    BY <1>6, <2>1
  <2>3. \A r \in Slots : calls'[r].at # "read" /\ calls'[r].at # "rename"
    BY <1>4, <1>6, <2>2
  <2> QED BY <1>13, <1>14, <1>16, <2>2, <2>3 DEF InTurn
<1>17. ~overlapped' => InTurn'
  <2>1. ~overlapped' => ~overlapped /\ \A r \in Slots : calls[r] = Idle
    BY <1>7
  <2> QED BY <1>16, <2>1 DEF FileInv
<1> QED BY <1>11, <1>12, <1>15, <1>17 DEF FileInv

(* A submission given up goes to the dead letters, and an older one out.     *)
LEMMA FailsForGoodKeeps ==
    ASSUME FileInv, NEW i \in Jobs, FailsForGood(i)
    PROVE  FileInv'
<1>1. FileTyped /\ DeadKept
  BY DEF FileInv
<1>2. /\ job[i] = "attempting" /\ job' = [job EXCEPT ![i] = "dead"]
      /\ deadLetters' = EvictOldest(Append(deadLetters, i))
      /\ UNCHANGED <<file, cache, arrays, calls, crashes, overlapped, loadedTwice, dropped, again>>
  BY DEF FailsForGood
<1>3. job'[i] = "dead" /\ \A j \in Jobs : j # i => job'[j] = job[j]
  BY <1>1, <1>2 DEF FileTyped
<1>4. FileTyped'
  BY <1>1, <1>2 DEF FileTyped
<1>5. DeadKept'
  <2>1. deadLetters \in Seq(Jobs) /\ Len(deadLetters) <= MaxEntries /\ MaxEntries \in Nat
    BY <1>1, FileQueueAssumption DEF DeadKept
  <2>2. PICK e : e = Append(deadLetters, i)
    OBVIOUS
  <2>3. /\ e \in Seq(Jobs) /\ Len(e) = Len(deadLetters) + 1 /\ e[Len(deadLetters) + 1] = i
        /\ \A n \in 1..Len(deadLetters) : e[n] = deadLetters[n]
    BY <2>1, <2>2
  <2>4. CASE Len(e) > MaxEntries
    <3>1. deadLetters' = Tail(e)
      BY <1>2, <2>2, <2>4 DEF EvictOldest
    <3>2. e # <<>>
      BY <2>3
    <3>3. Tail(e) \in Seq(Jobs) /\ Len(Tail(e)) = Len(e) - 1
      BY <2>3, <3>2
    <3>4. Len(deadLetters') = MaxEntries
      BY <2>1, <2>3, <2>4, <3>1, <3>3
    <3>5. deadLetters' \in Seq(Jobs)
      BY <3>1, <3>3
    <3>6. Len(deadLetters') <= MaxEntries
      BY <2>1, <3>4
    <3> QED BY <3>4, <3>5, <3>6 DEF DeadKept
  <2>5. CASE ~(Len(e) > MaxEntries)
    <3>1. deadLetters' = e
      BY <1>2, <2>2, <2>5 DEF EvictOldest
    <3>2. Len(deadLetters) < MaxEntries
      BY <2>1, <2>3, <2>5
    <3>3. DOMAIN deadLetters = 1..Len(deadLetters) /\ DOMAIN e = 1..Len(e)
      BY <2>1, <2>3
    <3>4. ASSUME NEW j \in Jobs, job'[j] = "dead", ~(crashes > 0)
          PROVE  \E n \in DOMAIN e : e[n] = j
      <4>1. CASE j = i
        BY <2>1, <2>3, <3>3, <4>1
      <4>2. CASE j # i
        <5>1. PICK n \in DOMAIN deadLetters : deadLetters[n] = j
          BY <1>1, <1>3, <2>1, <3>2, <3>4, <4>2 DEF DeadKept
        <5> QED BY <2>1, <2>3, <3>3, <5>1
      <4> QED BY <4>1, <4>2
    <3>5. Len(e) <= MaxEntries
      BY <2>1, <2>3, <2>5
    <3> QED BY <1>2, <2>3, <3>1, <3>4, <3>5 DEF DeadKept
  <2> QED BY <2>4, <2>5
<1>6. UNCHANGED Queue /\ (\A j : Taken(j)' <=> Taken(j)) /\ (\A j : Behind(j)' <=> Behind(j))
  BY <1>2 DEF Queue, Taken, Behind
<1>7. \A j \in Jobs : Busy(j)' => Busy(j)
  BY <1>3 DEF Busy
<1>8. ASSUME OneArray PROVE OneArray'
  <2>1. ArrayTyped'
    BY <1>2, <1>6, <1>7, <1>8 DEF OneArray, ArrayTyped
  <2>2. ASSUME NEW r \in Slots PROVE CallFits(calls[r])'
    <3>1. CallFits(calls[r])
      BY <1>8 DEF OneArray
    <3>2. ASSUME Early(calls[r]), calls[r].op # "dequeue"
          PROVE  calls[r].job \in Jobs /\ job'[calls[r].job] = job[calls[r].job]
      <4>1. calls[r].job \in Jobs /\ job[calls[r].job] # "attempting"
        BY <1>1, <3>1, <3>2 DEF FileTyped, Early, CallFits
      <4> QED BY <1>2, <1>3, <4>1
    <3>3. ASSUME Late(calls[r]), calls[r].op = "dequeue"
          PROVE  /\ calls[r].job \in Jobs \ DOMAIN Queue' /\ ~Busy(calls[r].job)
                 /\ job'[calls[r].job] = job[calls[r].job]
      BY <1>2, <1>3, <1>6, <3>1, <3>3 DEF CallFits, Busy
    <3> QED BY <1>2, <3>1, <3>2, <3>3 DEF CallFits, Early, Late, Busy
  <2>3. CallsApart'
    BY <1>2, <1>8 DEF OneArray, CallsApart
  <2>4. \A j \in Jobs : job'[j] = "queued" => Waits(j)'
    BY <1>2, <1>3, <1>6, <1>8 DEF OneArray, Waits
  <2> QED BY <2>1, <2>2, <2>3, <2>4 DEF OneArray
<1>9. ASSUME InTurn PROVE InTurn'
  BY <1>2, <1>3, <1>6, <1>7, <1>9 DEF InTurn
<1> QED BY <1>2, <1>4, <1>5, <1>8, <1>9 DEF FileInv

(* The next process starts from the file.                                    *)
LEMMA RestartKeeps ==
    ASSUME FileInv, Restart
    PROVE  FileInv'
<1>1. FileTyped /\ DeadKept
  BY DEF FileInv
<1>2. /\ crashes' = crashes + 1 /\ calls' = [s \in Slots |-> Idle] /\ cache' = 0 /\ arrays' = <<>>
      /\ deadLetters' = <<>>
      /\ dropped' = dropped \cup {j \in Jobs : InHand(j) /\ j \notin DOMAIN file}
      /\ job' = [j \in Jobs |-> IF job[j] = "acking" THEN "done"
                                ELSE IF InHand(j) THEN "queued" ELSE job[j]]
      /\ UNCHANGED <<file, overlapped, loadedTwice, again>>
  BY DEF Restart
<1>3. \A s \in Slots : calls'[s] = Idle
  BY <1>2
<1>4. Shaped(Idle) /\ Idle.at = "idle" /\ Idle.op = "none"
  BY DEF Shaped, Idle
<1>5. ASSUME NEW j \in Jobs
      PROVE  /\ ~Busy(j)'
             /\ job'[j] \in {"queued", "done", "dead"}
             /\ job'[j] = "queued" => InHand(j) \/ job[j] = "queued"
             /\ job'[j] = "done" => job[j] \in {"acking", "done"}
  <2>1. job[j] \in {"attempting", "acking", "enqueuing", "queued", "done", "dead"}
    BY <1>1 DEF FileTyped
  <2>2. job'[j] = IF job[j] = "acking" THEN "done" ELSE IF InHand(j) THEN "queued" ELSE job[j]
    BY <1>2
  <2>3. job[j] \in {"attempting", "enqueuing"} => InHand(j)
    BY DEF InHand
  <2>4. InHand(j) => job[j] \in {"attempting", "enqueuing", "queued"}
    BY DEF InHand
  <2> QED BY <2>1, <2>2, <2>3, <2>4 DEF Busy
<1>6. FileTyped'
  <2>1. job' \in [Jobs -> {"attempting", "acking", "enqueuing", "queued", "done", "dead"}]
    <3>1. DOMAIN job' = Jobs /\ job' = [j \in Jobs |-> job'[j]]
      BY <1>2
    <3> QED BY <1>5, <3>1
  <2>2. calls' = [s \in Slots |-> calls'[s]]
    BY <1>2
  <2> QED BY <1>1, <1>2, <1>3, <1>4, <2>1, <2>2 DEF FileTyped
<1>7. DeadKept'
  <2>1. crashes' > 0 /\ deadLetters' \in Seq(Jobs) /\ Len(deadLetters') <= MaxEntries
    BY <1>1, <1>2, FileQueueAssumption DEF FileTyped
  <2> QED BY <2>1 DEF DeadKept
<1>8. Queue' = file /\ (\A j : ~Taken(j)')
  BY <1>2, <1>3, <1>4 DEF Queue, Taken, Late
<1>9. ASSUME OneArray PROVE OneArray'
  <2>1. ArrayTyped'
    BY <1>2, <1>5, <1>8, <1>9 DEF OneArray, ArrayTyped
  <2>2. \A s \in Slots : CallFits(calls[s])'
    BY <1>3, <1>4 DEF CallFits, Early, Late
  <2>3. CallsApart'
    BY <1>3, <1>4 DEF CallsApart, Early
  <2>4. ASSUME NEW j \in Jobs, job'[j] = "queued" PROVE Waits(j)'
    <3>1. CASE InHand(j)
      BY <1>2, <1>8, <3>1 DEF Waits
    <3>2. CASE ~InHand(j)
      <4>1. job[j] = "queued" /\ Waits(j)
        BY <1>5, <1>9, <2>4, <3>2 DEF OneArray
      <4>2. ~\E s \in Slots : calls[s].job = j
        BY <3>2, <4>1 DEF InHand
      <4>3. j \in DOMAIN Queue \/ j \in dropped \/ overlapped
        BY <4>1, <4>2 DEF Waits, Taken
      <4>4. CASE overlapped
        <5>1. crashes' > 0
          BY <1>1, <1>2 DEF FileTyped
        <5>2. overlapped'
          BY <1>2, <4>4
        <5> QED BY <5>1, <5>2 DEF Waits
      <4>5. CASE ~overlapped /\ j \in DOMAIN Queue
        BY <1>8, <4>2, <4>5 DEF FileInv, InTurn, Behind, Waits
      <4>6. CASE j \in dropped
        BY <1>2, <4>6 DEF Waits
      <4> QED BY <4>3, <4>4, <4>5, <4>6
    <3> QED BY <3>1, <3>2
  <2> QED BY <2>1, <2>2, <2>3, <2>4 DEF OneArray
<1>10. ASSUME InTurn, OneArray PROVE InTurn'
  <2>1. \A j \in Jobs : job'[j] = "done" => j \notin DOMAIN file
    BY <1>5, <1>10 DEF InTurn, Busy
  <2>2. \A j \in DOMAIN Queue' : Behind(j)'
    BY <1>2, <1>8 DEF Behind
  <2>3. \A s \in Slots : calls'[s].at = "idle"
    BY <1>3, <1>4
  <2>4. \A j \in Jobs : job'[j] = "done" => j \notin DOMAIN file' \cup DOMAIN Queue'
    BY <1>2, <1>8, <2>1
  <2> QED BY <1>2, <1>5, <1>8, <1>10, <2>2, <2>3, <2>4 DEF InTurn
<1>11. ~overlapped => InTurn /\ OneArray
  BY DEF FileInv, InTurn
<1> QED BY <1>2, <1>6, <1>7, <1>9, <1>10, <1>11 DEF FileInv

(* A call starts, or a submission is given up.                               *)
LEMMA ProcessKeeps ==
    ASSUME FileInv
    PROVE  /\ \A i \in Jobs : Succeeds(i) \/ FailsAndRetries(i) => FileInv'
           /\ Polls => FileInv'
<1>1. ASSUME NEW i \in Jobs, Succeeds(i) PROVE FileInv'
  <2>1. /\ Starts("ack", i, 0) /\ job[i] = "attempting" /\ job' = [job EXCEPT ![i] = "acking"]
        /\ UNCHANGED <<file, cache, arrays, deadLetters, crashes, loadedTwice, dropped, again>>
    BY <1>1 DEF Succeeds
  <2> QED BY <2>1, StartsKeeps
<1>2. ASSUME NEW i \in Jobs, FailsAndRetries(i) PROVE FileInv'
  <2>1. PICK due : Starts("enqueue", i, due)
    BY <1>2 DEF FailsAndRetries
  <2>2. /\ job[i] = "attempting" /\ job' = [job EXCEPT ![i] = "enqueuing"]
        /\ UNCHANGED <<file, cache, arrays, deadLetters, crashes, loadedTwice, dropped, again>>
    BY <1>2 DEF FailsAndRetries
  <2> QED BY <2>1, <2>2, StartsKeeps
<1>3. ASSUME Polls PROVE FileInv'
  <2>1. /\ Starts("dequeue", "none", 0)
        /\ UNCHANGED <<job, file, cache, arrays, deadLetters, crashes, loadedTwice, dropped, again>>
    BY <1>3 DEF Polls
  <2>2. \A r \in Slots : calls[r].op # "dequeue"
    BY <1>3 DEF Polls, Idle
  <2> QED BY <2>1, <2>2, StartsKeeps
<1> QED BY <1>1, <1>2, <1>3

(* The clock is in no part of the invariant.                                 *)
LEMMA FileStands ==
    ASSUME FileInv,
           UNCHANGED <<job, file, cache, arrays, calls, deadLetters, crashes, overlapped,
                       loadedTwice, dropped, again>>
    PROVE  FileInv'
<1>1. FileTyped' /\ DeadKept'
  BY DEF FileInv, FileTyped, DeadKept
<1>2. UNCHANGED Queue /\ (\A j : Taken(j)' <=> Taken(j)) /\ (\A j : Behind(j)' <=> Behind(j))
  BY DEF Queue, Taken, Behind
<1>3. ASSUME OneArray PROVE OneArray'
  <2>1. ArrayTyped' /\ CallsApart'
    BY <1>2, <1>3 DEF OneArray, ArrayTyped, CallsApart, Busy
  <2>2. \A s \in Slots : CallFits(calls[s])'
    BY <1>2, <1>3 DEF OneArray, CallFits, Busy
  <2>3. \A j \in Jobs : job'[j] = "queued" => Waits(j)'
    BY <1>2, <1>3 DEF OneArray, Waits
  <2> QED BY <2>1, <2>2, <2>3 DEF OneArray
<1>4. ASSUME InTurn PROVE InTurn'
  BY <1>2, <1>4 DEF InTurn, Busy
<1> QED BY <1>1, <1>3, <1>4 DEF FileInv

(* The submissions are under way and the queue is empty.                     *)
LEMMA FileStarts == FileInit => FileInv
<1> SUFFICES ASSUME FileInit PROVE FileInv
  OBVIOUS
<1>1. Shaped(Idle) /\ Idle.at = "idle" /\ Idle.op = "none"
  BY DEF Shaped, Idle
<1>2. \A s \in Slots : calls[s] = Idle
  BY DEF FileInit
<1>3. /\ job = [j \in Jobs |-> "attempting"] /\ file = NoRecords /\ cache = 0 /\ arrays = <<>>
      /\ calls = [s \in Slots |-> Idle] /\ deadLetters = <<>> /\ crashes = 0
      /\ overlapped = FALSE /\ loadedTwice = FALSE /\ again = {}
  BY DEF FileInit
<1>4. Queue = NoRecords /\ DOMAIN NoRecords = {} /\ (\A j : ~Taken(j))
  BY <1>1, <1>2, <1>3 DEF Queue, NoRecords, Taken, Late
<1>5. FileTyped
  BY <1>1, <1>2, <1>3 DEF FileTyped
<1>6. DeadKept
  <2>1. deadLetters \in Seq(Jobs) /\ Len(deadLetters) <= MaxEntries
    BY <1>3, FileQueueAssumption
  <2> QED BY <1>3, <2>1 DEF DeadKept
<1>7. OneArray
  <2>1. ArrayTyped
    BY <1>3, <1>4 DEF ArrayTyped
  <2>2. \A s \in Slots : CallFits(calls[s])
    BY <1>1, <1>2 DEF CallFits, Early, Late
  <2>3. CallsApart
    BY <1>1, <1>2 DEF CallsApart, Early
  <2> QED BY <1>3, <2>1, <2>2, <2>3 DEF OneArray
<1>8. InTurn
  BY <1>1, <1>2, <1>3, <1>4 DEF InTurn
<1> QED BY <1>5, <1>6, <1>7, <1>8 DEF FileInv

(* Every step of the queue and of the process keeps the invariant.           *)
LEMMA FileStep == FileInv /\ [FileNext]_fileVars => FileInv'
<1> SUFFICES ASSUME FileInv, [FileNext]_fileVars PROVE FileInv'
  OBVIOUS
<1>1. ASSUME NEW s \in Slots,
             \/ Load(s) \/ Read(s) \/ EnqueueActs(s) \/ DequeueActs(s) \/ AckActs(s)
             \/ WriteTemp(s) \/ Rename(s)
      PROVE  FileInv'
  BY <1>1, LoadKeeps, ReadFileKeeps, EnqueueActsKeeps, DequeueActsKeeps, AckActsKeeps,
     WriteTempKeeps, RenameKeeps
<1>2. ASSUME NEW i \in Jobs, Succeeds(i) \/ FailsAndRetries(i) \/ FailsForGood(i) PROVE FileInv'
  BY <1>2, ProcessKeeps, FailsForGoodKeeps
<1>3. CASE Polls
  BY <1>3, ProcessKeeps
<1>4. CASE TimePasses \/ UNCHANGED fileVars
  BY <1>4, FileStands DEF TimePasses, fileVars
<1>5. CASE Restart
  BY <1>5, RestartKeeps
<1> QED BY <1>1, <1>2, <1>3, <1>4, <1>5 DEF FileNext

(* For every number of submissions, of calls under way together and of       *)
(* restarts, every policy and every size of the dead-letter store: a         *)
(* submission that waits for its retry is in the array or in a call's hands  *)
(* unless the file was read into two arrays or a process died with it in     *)
(* hand or after calls overlapped; one given up is among the dead letters    *)
(* or made room for others; and when calls take turns, nothing that          *)
(* succeeded is attempted again, at whatever step the process dies.          *)
THEOREM RetriesAreKept == FileSpec => []RetriesKept
<1>1. FileInv => RetriesKept
  <2> SUFFICES ASSUME FileInv PROVE RetriesKept
    OBVIOUS
  <2>1. ASSUME NEW j \in Jobs, job[j] = "queued"
        PROVE  \/ j \in DOMAIN Queue \/ InHand(j)
               \/ loadedTwice \/ j \in dropped \/ (overlapped /\ crashes > 0)
    <3>1. CASE ~loadedTwice
      <4>1. Waits(j)
        BY <2>1, <3>1 DEF FileInv, OneArray
      <4>2. Taken(j) => InHand(j)
        BY <2>1 DEF Taken, InHand
      <4> QED BY <4>1, <4>2 DEF Waits
    <3> QED BY <3>1
  <2>2. ASSUME NEW j \in Jobs, job[j] = "dead"
        PROVE  \/ \E n \in DOMAIN deadLetters : deadLetters[n] = j
               \/ Len(deadLetters) = MaxEntries \/ crashes > 0
    BY <2>2 DEF FileInv, DeadKept
  <2>3. NothingForgotten
    BY <2>1, <2>2 DEF NothingForgotten
  <2>4. SucceedsOnce
    BY DEF FileInv, InTurn, SucceedsOnce
  <2> QED BY <2>3, <2>4 DEF RetriesKept
<1> QED BY <1>1, FileStarts, FileStep, PTL DEF FileSpec
=============================================================================
