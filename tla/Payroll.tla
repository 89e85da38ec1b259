-------------------------------- MODULE Payroll --------------------------------
(***************************************************************************)
(* The reference payroll contract (contracts/payroll/src/lib.rs).  Every    *)
(* call is one atomic ledger transaction: one that returns an error, or     *)
(* whose token transfer fails, changes nothing and is no step here.  The    *)
(* lines of one recipient are added up: `pay` maps each recipient to what   *)
(* one window owes it.                                                      *)
(***************************************************************************)
EXTENDS Integers, Sequences, FiniteSets, FiniteSetsExt

CONSTANTS
    People,         \* the addresses that hold the token
    Payrolls,       \* the `pay` arguments configure is called with
    Periods,        \* and its periods, in seconds
    Amounts,        \* what fund and withdraw are called with
    MaxRecipients,  \* MAX_RECIPIENTS
    StartMoney,     \* what each address owns at first
    LastSecond      \* bound: the last timestamp

ASSUME PayrollAssumption ==
    /\ \A pay \in Payrolls : DOMAIN pay \subseteq People /\ \A p \in DOMAIN pay : pay[p] \in Int
    /\ Periods \subseteq Nat /\ Amounts \subseteq Int
    /\ StartMoney \in Nat /\ LastSecond \in Nat /\ MaxRecipients \in Nat

VARIABLES
    second,      \* the ledger timestamp
    terms,       \* DataKey::Config
    nextWindow,  \* DataKey::NextWindow
    money,       \* the token balance of every address
    treasury,    \* the token balance of the contract
    paid,        \* history: what disburse paid each address
    paidAt,      \* history: when each window was paid
    moved        \* history: what each address put in by fund, less withdrawals

payrollVars == <<second, terms, nextWindow, money, treasury, paid, paidAt, moved>>

NoTerms == [configured |-> FALSE, owner |-> "nobody", pay |-> <<>>, period |-> 0, start |-> 0]

(* What one window owes p.                                                   *)
Owed(p) == IF p \in DOMAIN terms.pay THEN terms.pay[p] ELSE 0

Total == MapThenSumSet(LAMBDA p : terms.pay[p], DOMAIN terms.pay)

PayrollInit ==
    /\ second = 0 /\ terms = NoTerms /\ nextWindow = 0
    /\ money = [p \in People |-> StartMoney] /\ treasury = 0
    /\ paid = [p \in People |-> 0] /\ paidAt = <<>> /\ moved = [p \in People |-> 0]

Configure(owner, pay, period) ==
    /\ ~terms.configured
    /\ DOMAIN pay # {} /\ Cardinality(DOMAIN pay) <= MaxRecipients
    /\ period # 0
    /\ \A p \in DOMAIN pay : pay[p] > 0
    /\ terms' = [configured |-> TRUE, owner |-> owner, pay |-> pay, period |-> period,
                 start |-> second]
    /\ nextWindow' = 0
    /\ UNCHANGED <<second, money, treasury, paid, paidAt, moved>>

Fund(from, amount) ==
    /\ amount > 0 /\ terms.configured
    /\ money[from] >= amount
    /\ money' = [money EXCEPT ![from] = @ - amount] /\ treasury' = treasury + amount
    /\ moved' = [moved EXCEPT ![from] = @ + amount]
    /\ UNCHANGED <<second, terms, nextWindow, paid, paidAt>>

MutDueAt == terms.start + nextWindow * terms.period
DueAt == terms.start + nextWindow * terms.period + terms.period

Advanced == nextWindow + 1

(* By anybody: no argument and no authorization.                             *)
Disburse ==
    /\ terms.configured
    /\ second >= DueAt
    /\ treasury >= Total
    /\ nextWindow' = Advanced
    /\ money' = [p \in People |-> money[p] + Owed(p)]
    /\ treasury' = treasury - Total
    /\ paid' = [p \in People |-> paid[p] + Owed(p)]
    /\ paidAt' = Append(paidAt, second)
    /\ UNCHANGED <<second, terms, moved>>

(* Where a withdrawal goes, whoever submits it with the owner's consent.     *)
Payee(caller) == terms.owner

Withdraw(caller, amount) ==
    /\ terms.configured
    /\ amount > 0
    /\ treasury >= amount
    /\ treasury' = treasury - amount
    /\ money' = [money EXCEPT ![Payee(caller)] = @ + amount]
    /\ moved' = [moved EXCEPT ![terms.owner] = @ - amount]
    /\ UNCHANGED <<second, terms, nextWindow, paid, paidAt>>

SecondsPass ==
    /\ second < LastSecond
    /\ second' = second + 1
    /\ UNCHANGED <<terms, nextWindow, money, treasury, paid, paidAt, moved>>

PayrollNext ==
    \/ \E owner \in People, pay \in Payrolls, period \in Periods : Configure(owner, pay, period)
    \/ \E p \in People, amount \in Amounts : Fund(p, amount) \/ Withdraw(p, amount)
    \/ Disburse \/ SecondsPass

PayrollSpec == PayrollInit /\ [][PayrollNext]_payrollVars

-----------------------------------------------------------------------------
(* Every window is paid once and in full, whenever and by whomever the       *)
(* contract is called: after n windows each recipient got n times its amount *)
(* (disburse: "Windows are paid strictly in order, one per call").           *)
PaidByTheBook ==
    /\ nextWindow = Len(paidAt)
    /\ \A p \in People : paid[p] = nextWindow * Owed(p)

(* No window is paid before it has elapsed, however late the ones before it  *)
(* were (NotDue).                                                            *)
NeverEarly == \A w \in DOMAIN paidAt : paidAt[w] >= terms.start + w * terms.period

(* Nobody ends up with money other than by the recipient list, and what was  *)
(* put in comes back to the owner only: "no call path lets any caller        *)
(* redirect money".                                                          *)
MoneyGoesWhereConfigured ==
    \A p \in People : money[p] = StartMoney - moved[p] + paid[p]

(* The payroll pays every window in full, once, in time and to the           *)
(* configured recipients only.                                               *)
PayrollSound == PaidByTheBook /\ NeverEarly /\ MoneyGoesWhereConfigured
=============================================================================
