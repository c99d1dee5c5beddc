--------------------------- MODULE DepositMachine ---------------------------
(***************************************************************************)
(* Deposits (credit_deposit.rs): the inbound watcher records every         *)
(* finalized transfer in suspense and then, in a second transaction,       *)
(* admits or holds it; staff admit or refund a held one in two steps.      *)
(*                                                                         *)
(* admit_observed reads the row under the deposit's key and only then      *)
(* waits for the user lock; the two confirmations read it under another    *)
(* key.  So between that read and the compare-and-set that follows the     *)
(* user lock other commands run: a caller has a phase for each.  After the *)
(* user lock a transaction runs to its commit, as one action.  The sending *)
(* of an approved refund is module RefundRail; here it is sent and settles.*)
(***************************************************************************)
EXTENDS Integers, FiniteSets, FiniteSetsExt

CONSTANTS
    Caller,     \* concurrent callers of the deposit commands
    Watcher,    \* those of them that are inbound watchers
    User, NoUser,
    N,          \* inbound transfers on the chain, in chain order
    UserOf,     \* the user a transfer is matched to, or NoUser
    AmountOf,
    Cash, Debt, \* each user's balance and open receivables at the start
    Command,    \* commands that are used besides the watcher's own
    Fact,       \* user facts that change
    Window,     \* PROPOSAL_CONFIRM_WINDOW
    MaxTime,    \* bound on the clock
    MaxCrash    \* bound on failures of the watcher

Deposit == 1 .. N
Kind == {"admit", "refund"}

ASSUME DepositAssumption ==
    /\ N \in Nat
    /\ Watcher \subseteq Caller
    /\ UserOf \in [Deposit -> User \cup {NoUser}]
    /\ AmountOf \in [Deposit -> Nat \ {0}]
    /\ Cash \in [User -> Nat] /\ Debt \in [User -> Nat]
    /\ Command \subseteq {"reevaluate"} \cup Kind
    /\ Fact \subseteq {"banned", "blocked", "clear", "aml"}

VARIABLES
    time,
    finalized,  \* transfers 1 .. finalized are deep enough under the root
    status,     \* deposits.machine_status, "none" before the observation
    posted,     \* the ledger keys posted for each deposit
    book,       \* External and DepositSuspense balances
    cash,       \* user balances
    debt,       \* open receivables
    proposal,   \* money_command_proposals by replay key (deposit, kind)
    caller,     \* each caller's position in its command
    banned, blocked, clear, flagged,  \* users, by what the gate reads of them
    crashes

money == <<posted, book, cash, debt>>
facts == <<banned, blocked, clear, flagged>>
vars == <<time, finalized, status, money, proposal, caller, facts, crashes>>

Idle == [pc |-> "idle", deposit |-> 0, seen |-> "none", reevaluate |-> "no",
         kind |-> "none", limit |-> 0]

NoProposal == [state |-> "none", until |-> 0]

SumOf(S) == MapThenSumSet(LAMBDA d : AmountOf[d], S)

-----------------------------------------------------------------------------
(* The row and the ledger *)

\* legal_deposit_transition, without admission_pending: no transaction ends in
\* it, so an edge into it and the edge that follows are one.
LegalDepositTransition(from, to) ==
    \/ from \in {"observed_finalized", "compliance_hold"} /\ to \in {"admitted", "compliance_hold"}
    \/ from = "compliance_hold" /\ to = "refund_approved"
    \/ from = "refund_approved" /\ to = "refund_sending"
    \/ from = "refund_sending" /\ to = "refunded"

\* cas_deposit_status finds the row in the state its caller read.
CasMatches(d, from) == status[d] = from

CasDepositStatus(d, from, to) ==
    /\ LegalDepositTransition(from, to)
    /\ CasMatches(d, from)
    /\ status' = [status EXCEPT ![d] = to]

\* Mutant: the refund leaves suspense for another account than External.
MoveSuspense_RefundInside(d, key, sign) ==
    /\ key \notin posted[d]
    /\ posted' = [posted EXCEPT ![d] = @ \cup {key}]
    /\ book' = [book EXCEPT !.external = IF key = "refund" THEN @ ELSE @ - sign * AmountOf[d],
                            !.suspense = @ + sign * AmountOf[d]]

\* ledger_apply between External and DepositSuspense; a key posts once.
MoveSuspense(d, key, sign) ==
    /\ key \notin posted[d]
    /\ posted' = [posted EXCEPT ![d] = @ \cup {key}]
    /\ book' = [book EXCEPT !.external = @ - sign * AmountOf[d],
                            !.suspense = @ + sign * AmountOf[d]]

\* convert_then_collect on a balance: open receivables take it first.
Collected(balance, owed) == Min({balance, owed})

\* Mutant: the second collection still sees the receivables of the first.
Credit_StaleDebt(d, u) ==
    LET pre == Collected(cash[u], debt[u])
        balance == cash[u] - pre + AmountOf[d]
        post == Collected(balance, debt[u])
    IN
    /\ "admit" \notin posted[d]
    /\ posted' = [posted EXCEPT ![d] = @ \cup {"admit"}]
    /\ book' = [book EXCEPT !.suspense = @ - AmountOf[d]]
    /\ cash' = [cash EXCEPT ![u] = balance - post]
    /\ debt' = [debt EXCEPT ![u] = @ - pre - post]

\* Mutant: the first collection is taken from the balance and not from the debt.
Credit_ForgetsFirst(d, u) ==
    LET pre == Collected(cash[u], debt[u])
        balance == cash[u] - pre + AmountOf[d]
        post == Collected(balance, debt[u] - pre)
    IN
    /\ "admit" \notin posted[d]
    /\ posted' = [posted EXCEPT ![d] = @ \cup {"admit"}]
    /\ book' = [book EXCEPT !.suspense = @ - AmountOf[d]]
    /\ cash' = [cash EXCEPT ![u] = balance - post]
    /\ debt' = [debt EXCEPT ![u] = @ - post]

\* DepositSuspense to the user, with a collection before it and one after it.
Credit(d, u) ==
    LET pre == Collected(cash[u], debt[u])
        balance == cash[u] - pre + AmountOf[d]
        post == Collected(balance, debt[u] - pre)
    IN
    /\ "admit" \notin posted[d]
    /\ posted' = [posted EXCEPT ![d] = @ \cup {"admit"}]
    /\ book' = [book EXCEPT !.suspense = @ - AmountOf[d]]
    /\ cash' = [cash EXCEPT ![u] = balance - post]
    /\ debt' = [debt EXCEPT ![u] = @ - pre - post]

\* Only the collection.
CollectOnly(u) ==
    /\ cash' = [cash EXCEPT ![u] = @ - Collected(cash[u], debt[u])]
    /\ debt' = [debt EXCEPT ![u] = @ - Collected(cash[u], debt[u])]
    /\ UNCHANGED <<posted, book>>

-----------------------------------------------------------------------------
(* Observation and admission *)

\* observe_finalized_on_rail; replaying the same transfer changes nothing.
Observe(d) ==
    \/ /\ status[d] = "none"
       /\ status' = [status EXCEPT ![d] = "observed_finalized"]
       /\ MoveSuspense(d, "observe", 1)
       /\ UNCHANGED <<cash, debt>>
    \/ /\ status[d] # "none"
       /\ UNCHANGED <<status, money>>

\* serialize_key("deposit-machine:<sig>") is held from the read to the commit.
KeyHeld(d) == \E c \in Caller : caller[c].pc = "admitting" /\ caller[c].deposit = d

\* Where a caller goes when its command on one deposit is over: the watcher
\* takes the next transfer, everyone else is done.  A tick that returns Ok
\* leaves behind how far it went; one that ends in an error leaves nothing.
NextStop(c) ==
    IF c \in Watcher /\ caller[c].deposit < caller[c].limit
    THEN [caller[c] EXCEPT !.pc = "observe", !.deposit = @ + 1]
    ELSE [Idle EXCEPT !.limit = caller[c].limit]

\* Mutant: an in-memory cursor skips what was already recorded.
FirstTransfer_Cursor == Min({d \in Deposit : status[d] = "none"} \cup {N})

\* inbound_since(0)
FirstTransfer == 1

\* InboundWatcher::tick reads the finalized root and starts at the first slot.
Tick(c) ==
    /\ c \in Watcher
    /\ caller[c].pc = "idle"
    /\ finalized > 0
    /\ caller' = [caller EXCEPT ![c] =
          [Idle EXCEPT !.pc = "observe", !.deposit = FirstTransfer, !.limit = finalized]]
    /\ UNCHANGED <<time, finalized, status, money, proposal, facts, crashes>>

\* The first half of the watcher's turn on a transfer.
ObserveStep(c) ==
    /\ caller[c].pc = "observe"
    /\ Observe(caller[c].deposit)
    /\ caller' = [caller EXCEPT ![c].pc = "admit"]
    /\ UNCHANGED <<time, finalized, proposal, facts, crashes>>

\* reevaluate_held
Reevaluate(c, d) ==
    /\ "reevaluate" \in Command
    /\ caller[c].pc = "idle" /\ c \notin Watcher
    /\ status[d] = "compliance_hold"
    /\ caller' = [caller EXCEPT ![c] =
          [Idle EXCEPT !.pc = "admit", !.deposit = d, !.reevaluate = "yes"]]
    /\ UNCHANGED <<time, finalized, status, money, proposal, facts, crashes>>

\* admit_observed up to the user lock.  A refund that was already selected is
\* an error, which also ends the watcher's tick.
AdmitRead(c) ==
    LET d == caller[c].deposit IN
    /\ caller[c].pc = "admit"
    /\ ~KeyHeld(d)
    /\ \/ /\ \/ status[d] = "observed_finalized"
             \/ status[d] = "compliance_hold" /\ caller[c].reevaluate = "yes"
          /\ caller' = [caller EXCEPT ![c].pc = "admitting", ![c].seen = status[d]]
       \/ /\ \/ status[d] = "admitted"
             \/ status[d] = "compliance_hold" /\ caller[c].reevaluate = "no"
          /\ caller' = [caller EXCEPT ![c] = NextStop(c)]
       \/ /\ status[d] \in {"refund_approved", "refund_sending", "refunded"}
          /\ caller' = [caller EXCEPT ![c] = Idle]
    /\ UNCHANGED <<time, finalized, status, money, proposal, facts, crashes>>

\* user_status and decide_money_mutation for DepositAdmit.
GatePasses(u) == u \notin banned /\ u \notin blocked /\ u \in clear

\* hold_admission for a matched or an unmatched deposit.
HoldAdmission(d, seen) == CasDepositStatus(d, seen, "compliance_hold")

\* admit_observed from the user lock to the commit; rules: the AML evaluation
\* opens a flag.  A lost compare-and-set is a conflict and rolls back.
AdmitCommit(c, rules) ==
    LET d == caller[c].deposit
        u == UserOf[d]
        seen == caller[c].seen
    IN
    /\ caller[c].pc = "admitting"
    /\ \/ /\ ~CasMatches(d, seen)
          /\ caller' = [caller EXCEPT ![c] = Idle]
          /\ UNCHANGED <<status, money, flagged>>
       \/ /\ CasMatches(d, seen)
          /\ caller' = [caller EXCEPT ![c] = NextStop(c)]
          /\ \/ /\ u = NoUser
                /\ HoldAdmission(d, seen)
                /\ UNCHANGED <<money, flagged>>
             \/ /\ u # NoUser /\ (rules \/ u \in flagged)
                /\ HoldAdmission(d, seen)
                /\ flagged' = flagged \cup {u}
                /\ UNCHANGED money
             \/ /\ u # NoUser /\ ~rules /\ u \notin flagged /\ ~GatePasses(u)
                /\ HoldAdmission(d, seen)
                /\ CollectOnly(u)
                /\ UNCHANGED flagged
             \/ /\ u # NoUser /\ ~rules /\ u \notin flagged /\ GatePasses(u)
                /\ CasDepositStatus(d, seen, "admitted")
                /\ Credit(d, u)
                /\ UNCHANGED flagged
    /\ UNCHANGED <<time, finalized, proposal, banned, blocked, clear, crashes>>

-----------------------------------------------------------------------------
(* Dual control on a held deposit *)

\* propose_deposit_command by a finance token: one proposal per replay key,
\* whatever became of it.
Propose(d, k) ==
    /\ k \in Command
    /\ status[d] = "compliance_hold"
    /\ proposal[<<d, k>>] = NoProposal
    /\ proposal' = [proposal EXCEPT ![<<d, k>>] = [state |-> "pending", until |-> time + Window]]
    /\ UNCHANGED <<time, finalized, status, money, caller, facts, crashes>>

Confirmable(d, k) == proposal[<<d, k>>].state = "pending" /\ time <= proposal[<<d, k>>].until

\* The two confirmations by a superadmin token, up to the user lock.
ConfirmRead(c, d, k) ==
    /\ caller[c].pc = "idle" /\ c \notin Watcher
    /\ Confirmable(d, k)
    /\ status[d] = "compliance_hold"
    /\ k = "admit" => UserOf[d] # NoUser
    /\ caller' = [caller EXCEPT ![c] = [Idle EXCEPT !.pc = "confirming", !.deposit = d, !.kind = k]]
    /\ UNCHANGED <<time, finalized, status, money, proposal, facts, crashes>>

RefundAllowed(u) == u = NoUser \/ (u \notin banned /\ u \in clear)

\* Mutant: a lost compare-and-set of the row still confirms the proposal.
RollBack_KeepsConfirmation(d, k) ==
    /\ proposal' = [proposal EXCEPT ![<<d, k>>].state = "confirmed"]
    /\ UNCHANGED <<status, money>>

\* An error drops the transaction.
RollBack(d, k) == UNCHANGED <<status, money, proposal>>

\* The rest of confirm_manual_deposit_admission and confirm_deposit_refund: the
\* proposal's and the row's compare-and-set commit together or not at all.
ConfirmCommit(c) ==
    LET d == caller[c].deposit
        k == caller[c].kind
        u == UserOf[d]
        confirmed == proposal' = [proposal EXCEPT ![<<d, k>>].state = "confirmed"]
    IN
    /\ caller[c].pc = "confirming"
    /\ caller' = [caller EXCEPT ![c] = Idle]
    /\ \/ /\ k = "admit" /\ proposal[<<d, k>>].state = "pending"
          /\ CasDepositStatus(d, "compliance_hold", "admitted")
          /\ Credit(d, u)
          /\ confirmed
       \/ /\ k = "refund" /\ proposal[<<d, k>>].state = "pending" /\ RefundAllowed(u)
          /\ CasDepositStatus(d, "compliance_hold", "refund_approved")
          /\ IF u = NoUser THEN UNCHANGED money ELSE CollectOnly(u)
          /\ confirmed
       \/ /\ \/ proposal[<<d, k>>].state # "pending"
             \/ ~CasMatches(d, "compliance_hold")
             \/ k = "refund" /\ ~RefundAllowed(u)
          /\ RollBack(d, k)
    /\ UNCHANGED <<time, finalized, facts, crashes>>

\* begin_refund_send commits the first attempt.
RefundSends(d) ==
    /\ ~KeyHeld(d)
    /\ CasDepositStatus(d, "refund_approved", "refund_sending")
    /\ UNCHANGED <<time, finalized, money, proposal, caller, facts, crashes>>

\* settle_refund
RefundSettles(d) ==
    /\ ~KeyHeld(d)
    /\ CasDepositStatus(d, "refund_sending", "refunded")
    /\ MoveSuspense(d, "refund", -1)
    /\ UNCHANGED <<time, finalized, cash, debt, proposal, caller, facts, crashes>>

-----------------------------------------------------------------------------
(* Around the machine *)

\* Another transfer reaches the confirmation depth.
Finalize ==
    /\ finalized < N
    /\ finalized' = finalized + 1
    /\ UNCHANGED <<time, status, money, proposal, caller, facts, crashes>>

\* A call fails or the process stops between two transactions.
Fails(c) ==
    /\ caller[c].pc # "idle"
    /\ crashes < MaxCrash
    /\ crashes' = crashes + 1
    /\ caller' = [caller EXCEPT ![c] = Idle]
    /\ UNCHANGED <<time, finalized, status, money, proposal, facts>>

Toggle(S, u) == IF u \in S THEN S \ {u} ELSE S \cup {u}

ChangeFact(u) ==
    /\ \/ "banned" \in Fact /\ banned' = Toggle(banned, u) /\ UNCHANGED <<blocked, clear, flagged>>
       \/ "blocked" \in Fact /\ blocked' = Toggle(blocked, u) /\ UNCHANGED <<banned, clear, flagged>>
       \/ "clear" \in Fact /\ clear' = Toggle(clear, u) /\ UNCHANGED <<banned, blocked, flagged>>
       \/ /\ "aml" \in Fact /\ u \in flagged
          /\ flagged' = flagged \ {u} /\ UNCHANGED <<banned, blocked, clear>>
    /\ UNCHANGED <<time, finalized, status, money, proposal, caller, crashes>>

Clock ==
    /\ time < MaxTime
    /\ time' = time + 1
    /\ UNCHANGED <<finalized, status, money, proposal, caller, facts, crashes>>

Init ==
    /\ time = 0 /\ finalized = 0 /\ crashes = 0
    /\ status = [d \in Deposit |-> "none"]
    /\ posted = [d \in Deposit |-> {}]
    /\ book = [external |-> 0, suspense |-> 0]
    /\ cash = Cash
    /\ debt = Debt
    /\ proposal = [p \in Deposit \X Kind |-> NoProposal]
    /\ caller = [c \in Caller |-> Idle]
    /\ banned = {} /\ blocked = {} /\ flagged = {}
    /\ clear = User

\* The steps of a command that is under way.
Proceed(c) ==
    \/ ObserveStep(c)
    \/ AdmitRead(c)
    \/ \E rules \in IF "aml" \in Fact THEN BOOLEAN ELSE {FALSE} : AdmitCommit(c, rules)
    \/ ConfirmCommit(c)

Next ==
    \/ \E c \in Caller : Tick(c) \/ Proceed(c) \/ Fails(c)
    \/ \E c \in Caller, d \in Deposit : Reevaluate(c, d)
    \/ \E d \in Deposit, k \in Kind : Propose(d, k)
    \/ \E c \in Caller, d \in Deposit, k \in Kind : ConfirmRead(c, d, k)
    \/ \E d \in Deposit : RefundSends(d) \/ RefundSettles(d)
    \/ Finalize
    \/ \E u \in User : ChangeFact(u)
    \/ Clock

Spec == Init /\ [][Next]_vars

\* A watcher ticks again and again, every command goes on, and the advisory
\* lock of a key is granted in turn.
Fairness ==
    \A c \in Caller :
        WF_vars(Tick(c)) /\ WF_vars(Proceed(c)) /\ SF_vars(AdmitRead(c))

FairSpec == Spec /\ Fairness

-----------------------------------------------------------------------------
(* Properties *)

Status == {"none", "observed_finalized", "compliance_hold", "admitted",
           "refund_approved", "refund_sending", "refunded"}

\* A deposit is in a state of the machine, suspense, user balances and debts are
\* never negative (the ledger's non-negative accounts), proposals and callers are
\* where the commands of credit_deposit.rs can leave them.
TypeOK ==
    /\ time \in 0 .. MaxTime
    /\ finalized \in 0 .. N
    /\ status \in [Deposit -> Status]
    /\ posted \in [Deposit -> SUBSET {"observe", "admit", "refund"}]
    /\ book.external \in Int /\ book.suspense \in Nat
    /\ cash \in [User -> Nat] /\ debt \in [User -> Nat]
    /\ proposal \in [Deposit \X Kind -> [state : {"none", "pending", "confirmed"}, until : Nat]]
    /\ \A c \in Caller : caller[c].pc \in {"idle", "observe", "admit", "admitting", "confirming"}
    /\ banned \cup blocked \cup clear \cup flagged \subseteq User
    /\ crashes \in 0 .. MaxCrash

In(S) == {d \in Deposit : status[d] \in S}

\* Suspense holds exactly the deposits that are recorded and not resolved
\* (identity deposit_suspense_sigma), and the external account mirrors what the
\* chain wallet then holds, recorded transfers less refunded ones, whichever of
\* the machine, a second watcher and the two confirmations wins a race for a row.
SuspenseSigma ==
    /\ book.suspense = SumOf(In({"observed_finalized", "compliance_hold",
                                 "refund_approved", "refund_sending"}))
    /\ -book.external = SumOf(Deposit \ In({"none"})) - SumOf(In({"refunded"}))

\* A user's balance and what was collected from it are exactly the user's
\* admitted deposits: each is credited once, and a refunded one never
\* (admit_observed and confirm_manual_deposit_admission share one ledger key).
CreditedOnce ==
    \A u \in User :
        cash[u] - Cash[u] + (Debt[u] - debt[u]) = SumOf({d \in In({"admitted"}) : UserOf[d] = u})

\* A confirmed pair of signatures has had its effect and decides the deposit:
\* both commands confirmed for one deposit, or a confirmed refund on a deposit
\* that is credited, cannot happen (the row's compare-and-set and the
\* proposal's commit together).
ConfirmedDecides ==
    \A d \in Deposit :
        /\ proposal[<<d, "admit">>].state = "confirmed" => status[d] = "admitted"
        /\ proposal[<<d, "refund">>].state = "confirmed" =>
               status[d] \in {"refund_approved", "refund_sending", "refunded"}

\* The ledger has the observation of every recorded deposit, the credit of
\* exactly the admitted ones and the refund of exactly the refunded ones, so no
\* deposit is both credited and sent back (the keys of credit_deposit.rs).
PostedMatches ==
    \A d \in Deposit :
        /\ ("observe" \in posted[d]) <=> (status[d] # "none")
        /\ ("admit" \in posted[d]) <=> (status[d] = "admitted")
        /\ ("refund" \in posted[d]) <=> (status[d] = "refunded")

\* The transfers 1 .. Swept(x) are behind a watcher that stands at x.
Swept(x) == IF x.pc = "idle" THEN x.limit ELSE x.deposit - 1

\* What a tick has passed is recorded and decided: no transfer it went by, and
\* after Ok none that was final when it began, is missing or still waits for the
\* transaction that admits or holds it, whatever failed between the two before and
\* whoever raced for the row (InboundWatcher::tick reads from slot 0 again, so that
\* a crash between observation and admission heals on the next tick).
SweptIsDecided ==
    \A c \in Watcher, d \in Deposit :
        d <= Swept(caller[c]) => status[d] \notin {"none", "observed_finalized"}

\* Every transfer that is final at the confirmation depth is eventually
\* recorded, if the watcher keeps ticking (InboundWatcher::tick; "ALWAYS record
\* it").
AlwaysRecorded == \A d \in Deposit : finalized >= d ~> status[d] # "none"

\* A held deposit can still be put to two people, however long it has been held
\* and whatever was proposed before (propose_deposit_command; "Later: released
\* after review, or refunded to the sender").
HeldIsActionable ==
    \A d \in Deposit :
        status[d] = "compliance_hold" =>
            \E k \in Kind : ENABLED Propose(d, k) \/ Confirmable(d, k)
=============================================================================
