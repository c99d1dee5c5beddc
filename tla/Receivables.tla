----------------------------- MODULE Receivables -----------------------------
(***************************************************************************)
(* What an unwound market leaves behind: the dual-controlled unwind        *)
(* (ops/unwind_market.rs), the receivables it opens for users who no       *)
(* longer have the cash, their automatic collection and their write-off    *)
(* (ops/receivable_collection.rs) and remedial credits                     *)
(* (ops/remedial_credit.rs), over pg/unwind_tx.rs.                         *)
(*                                                                         *)
(* Every use case is one database transaction, but they share no lock: an  *)
(* unwind holds its market, a collection the user's credit lots, a         *)
(* write-off its receivable, a remedial credit its key.  A transaction     *)
(* that moves money is therefore two steps: it begins, and reads what its  *)
(* decision rests on; it commits, and the ledger checks only that no       *)
(* account becomes negative.                                               *)
(***************************************************************************)
EXTENDS Integers, Sequences, FiniteSets, FiniteSetsExt

CONSTANTS
    Debtor,            \* users
    Unwound,           \* markets that may be unwound
    Owes,              \* Owes[m][u]: what reversing m's postings takes from u
    HouseBack,         \* HouseBack[m]: what reversing them returns to the house
    StartState, StartCash, StartHouse,
    WKey, RKey,        \* idempotency keys of write-offs and remedial credits
    RTarget, RAmount,  \* market, user and amount a remedial key stands for
    Principal,         \* dual-control principals (token digests)
    HandleOf,          \* the principal whose digest is a user's handle
    OutstandingCap, ItemCap, WriteOffDaily, RemedialMarket, RemedialDaily,
    ConfirmDelay, ProposalTtl, DayLength,
    MaxNow, MaxInFlight, MaxOther   \* bounds: clock, open transactions, other postings

Nobody == "nobody"

\* What a market's escrow holds: its postings sum to zero over all accounts.
EscrowOf(m) == HouseBack[m] - MapThenSumSet(LAMBDA u : Owes[m][u], Debtor)

ASSUME ReceivablesAssumption ==
    /\ Owes \in [Unwound -> [Debtor -> Int]] /\ HouseBack \in [Unwound -> Int]
    /\ \A m \in Unwound : EscrowOf(m) >= 0
    /\ StartCash \in [Debtor -> Nat] /\ StartHouse \in Nat
    /\ ConfirmDelay > 0 /\ ProposalTtl > 0 /\ DayLength > 0

VARIABLES
    now,
    mstate,     \* "Resolving", "Flagged" (Resolving with a curator flag), "Voided", "Paid"
    unwind,     \* market_unwinds, keyed by market
    applied,    \* markets in the order their reversals committed
    wallet, house, escrow,   \* ledger balances
    opened,     \* receivables.opened_micro by market and user; 0: no receivable
    collected,  \* sum of a receivable's 'collected' movements
    writeOff,   \* receivable_write_off_proposals by key
    remedial,   \* remedial_credit_proposals by key
    txns,       \* transactions in flight, with what they have read
    other       \* postings of other use cases so far

money == <<wallet, house, escrow>>
recvVars == <<now, mstate, unwind, applied, money, opened, collected,
              writeOff, remedial, txns, other>>

NoUnwind == [stage |-> "none", by |-> Nobody, nb |-> 0]
NoWriteOff == [status |-> "none", of |-> <<>>, amount |-> 0, by |-> Nobody, nb |-> 0,
               moved |-> 0, at |-> 0]
NoRemedial == [status |-> "none", by |-> Nobody, nb |-> 0, at |-> 0]

ReceivablesInit ==
    /\ now = 0
    /\ mstate = StartState
    /\ unwind = [m \in Unwound |-> NoUnwind]
    /\ applied = <<>>
    /\ wallet = StartCash /\ house = StartHouse
    /\ escrow = [m \in Unwound |-> EscrowOf(m)]
    /\ opened = [m \in Unwound |-> [u \in Debtor |-> 0]]
    /\ collected = [m \in Unwound |-> [u \in Debtor |-> 0]]
    /\ writeOff = [k \in WKey |-> NoWriteOff]
    /\ remedial = [k \in RKey |-> NoRemedial]
    /\ txns = {}
    /\ other = 0

-----------------------------------------------------------------------------
\* Dual control: propose, wait, confirm by somebody else before it lapses.

ConfirmNotBefore == now + ConfirmDelay
ExpiresAt(p) == p.nb + ProposalTtl

Confirmable(p, a) == p.by # a /\ now >= p.nb /\ now <= ExpiresAt(p)
Lapsed(p, a) == p.by # a /\ now > ExpiresAt(p)

DayStart == (now \div DayLength) * DayLength

-----------------------------------------------------------------------------
\* Transactions in flight and the locks they hold.

LockOf(t) ==
    CASE t.op = "unwind"   -> <<"market", t.market>>
      [] t.op = "collect"  -> <<"lots", t.user>>
      [] t.op = "writeoff" -> <<"receivable", writeOff[t.key].of>>
      [] t.op = "remedial" -> <<"remedial", t.key>>

Begin(t) ==
    /\ Cardinality(txns) < MaxInFlight
    /\ \A s \in txns : LockOf(s) # LockOf(t)
    /\ txns' = txns \cup {t}

End(t) == txns' = txns \ {t}

\* The process dies, or the ledger refuses: nothing of the transaction stays.
Abort(t) ==
    /\ End(t)
    /\ UNCHANGED <<now, mstate, unwind, applied, money, opened, collected,
                   writeOff, remedial, other>>

-----------------------------------------------------------------------------
\* Receivables.  Outstanding is derived from the movements, never stored.

WrittenOff(m, u) ==
    MapThenSumSet(LAMBDA k : writeOff[k].moved, {k \in WKey : writeOff[k].of = <<m, u>>})

\* A mutant: the derivation forgets the 'collected' movements.
Outstanding_NoCollected(m, u) == opened[m][u] - WrittenOff(m, u)

Outstanding(m, u) == opened[m][u] - collected[m][u] - WrittenOff(m, u)

OpenTotal ==
    MapThenSumSet(LAMBDA p : Max({0, Outstanding(p[1], p[2])}), Unwound \X Debtor)

\* What a user still owes, per market; settled ones are filtered out.
Due(u) == [m \in Unwound |-> Max({0, Outstanding(m, u)})]
Total(due) == MapThenSumSet(LAMBDA m : due[m], Unwound)

\* TakenBy had the loop not counted what older receivables took.
TakenBy_NoRemaining(due, n, i) == Min({due[applied[i]], n})

\* Of a collection of n, the part that the receivable of the i-th reversal gets.
TakenBy(due, n, i) ==
    Min({due[applied[i]],
         Max({0, n - MapThenSumSet(LAMBDA j : due[applied[j]], 1..(i - 1))})})

-----------------------------------------------------------------------------
\* UnwindMarket.

CheckUnwindable(m) == mstate[m] \in {"Voided", "Flagged"}

\* A row of any stage, rejected and expired ones included, bars a new proposal.
ProposeUnwind(m, a) ==
    /\ <<"market", m>> \notin {LockOf(t) : t \in txns}
    /\ CheckUnwindable(m)
    /\ unwind[m].stage = "none"
    /\ unwind' = [unwind EXCEPT ![m] = [stage |-> "proposed", by |-> a, nb |-> ConfirmNotBefore]]
    /\ UNCHANGED <<now, mstate, applied, money, opened, collected, writeOff,
                   remedial, txns, other>>

BeginUnwind(m, a) ==
    /\ unwind[m].stage = "proposed"
    /\ Confirmable(unwind[m], a)
    /\ CheckUnwindable(m)
    /\ OpenTotal < OutstandingCap
    /\ Begin([op |-> "unwind", market |-> m, cash |-> wallet])
    /\ UNCHANGED <<now, mstate, unwind, applied, money, opened, collected,
                   writeOff, remedial, other>>

ExpireUnwind(m, a) ==
    /\ <<"market", m>> \notin {LockOf(t) : t \in txns}
    /\ unwind[m].stage = "proposed"
    /\ Lapsed(unwind[m], a)
    /\ unwind' = [unwind EXCEPT ![m].stage = "expired"]
    /\ UNCHANGED <<now, mstate, applied, money, opened, collected, writeOff,
                   remedial, txns, other>>

RejectUnwind(m) ==
    /\ <<"market", m>> \notin {LockOf(t) : t \in txns}
    /\ unwind[m].stage = "proposed"
    /\ unwind' = [unwind EXCEPT ![m].stage = "rejected"]
    /\ UNCHANGED <<now, mstate, applied, money, opened, collected, writeOff,
                   remedial, txns, other>>

\* A user pays what the transaction saw on the account, the house the rest.
Pays(m, u, cash) == IF Owes[m][u] < 0 THEN Owes[m][u] ELSE Min({Owes[m][u], cash[u]})
Shortfall(m, u, cash) == Owes[m][u] - Pays(m, u, cash)
ShortfallTotal(m, cash) == MapThenSumSet(LAMBDA u : Shortfall(m, u, cash), Debtor)

CommitUnwind(t) ==
    LET m == t.market
        rest == house + HouseBack[m] - ShortfallTotal(m, t.cash)
    IN  /\ t.op = "unwind"
        /\ rest >= 0 /\ \A u \in Debtor : wallet[u] >= Pays(m, u, t.cash)
        /\ wallet' = [u \in Debtor |-> wallet[u] - Pays(m, u, t.cash)]
        /\ house' = rest
        /\ escrow' = [escrow EXCEPT ![m] = 0]
        /\ opened' = [opened EXCEPT ![m] = [u \in Debtor |-> Shortfall(m, u, t.cash)]]
        /\ applied' = Append(applied, m)
        /\ unwind' = [unwind EXCEPT ![m].stage = "applied"]
        /\ mstate' = [mstate EXCEPT ![m] = "Voided"]
        /\ End(t)
        /\ UNCHANGED <<now, collected, writeOff, remedial, other>>

-----------------------------------------------------------------------------
\* auto_collect, inside whatever transaction of the user calls it.

BeginCollect(u) ==
    LET n == Min({Total(Due(u)), wallet[u]})
    IN  /\ n > 0
        /\ Begin([op |-> "collect", user |-> u, due |-> Due(u), amount |-> n])
        /\ UNCHANGED <<now, mstate, unwind, applied, money, opened, collected,
                       writeOff, remedial, other>>

CommitCollect(t) ==
    /\ t.op = "collect"
    /\ wallet[t.user] >= t.amount
    /\ wallet' = [wallet EXCEPT ![t.user] = @ - t.amount]
    /\ house' = house + t.amount
    /\ collected' = [m \in Unwound |->
          IF t.due[m] = 0 THEN collected[m]
          ELSE [collected[m] EXCEPT ![t.user] =
                  @ + TakenBy(t.due, t.amount, CHOOSE i \in DOMAIN applied : applied[i] = m)]]
    /\ End(t)
    /\ UNCHANGED <<now, mstate, unwind, applied, escrow, opened, writeOff,
                   remedial, other>>

-----------------------------------------------------------------------------
\* WriteOffReceivable.

ProposeWriteOff(k, m, u, a) ==
    /\ <<"receivable", <<m, u>>>> \notin {LockOf(t) : t \in txns}
    /\ writeOff[k].status = "none"
    /\ Outstanding(m, u) > 0 /\ Outstanding(m, u) <= ItemCap
    /\ writeOff' = [writeOff EXCEPT ![k] =
          [NoWriteOff EXCEPT !.status = "pending", !.of = <<m, u>>, !.by = a,
                             !.amount = Outstanding(m, u), !.nb = ConfirmNotBefore]]
    /\ UNCHANGED <<now, mstate, unwind, applied, money, opened, collected,
                   remedial, txns, other>>

WrittenOffToday ==
    MapThenSumSet(LAMBDA k : writeOff[k].moved,
                  {k \in WKey : writeOff[k].status = "confirmed" /\ writeOff[k].at >= DayStart})

BeginWriteOff(k, a) ==
    LET p == writeOff[k]
    IN  /\ p.status = "pending"
        /\ Confirmable(p, a)
        /\ WrittenOffToday + p.amount <= WriteOffDaily
        /\ Outstanding(p.of[1], p.of[2]) > 0
        /\ Begin([op |-> "writeoff", key |-> k,
                  amount |-> Min({p.amount, Outstanding(p.of[1], p.of[2])})])
        /\ UNCHANGED <<now, mstate, unwind, applied, money, opened, collected,
                       writeOff, remedial, other>>

ExpireWriteOff(k, a) ==
    /\ writeOff[k].status = "pending"
    /\ <<"receivable", writeOff[k].of>> \notin {LockOf(t) : t \in txns}
    /\ Lapsed(writeOff[k], a)
    /\ writeOff' = [writeOff EXCEPT ![k].status = "expired"]
    /\ UNCHANGED <<now, mstate, unwind, applied, money, opened, collected,
                   remedial, txns, other>>

\* The movement, then the market row for the compensating fact, then the proposal.
CommitWriteOff(t) ==
    /\ t.op = "writeoff"
    /\ <<"market", writeOff[t.key].of[1]>> \notin {LockOf(s) : s \in txns}
    /\ writeOff' = [writeOff EXCEPT ![t.key].status = "confirmed",
                                    ![t.key].moved = t.amount, ![t.key].at = now]
    /\ End(t)
    /\ UNCHANGED <<now, mstate, unwind, applied, money, opened, collected,
                   remedial, other>>

-----------------------------------------------------------------------------
\* RemedialCredit.

Granted(S) == MapThenSumSet(LAMBDA k : RAmount[k], {k \in S : remedial[k].status = "confirmed"})
GrantedFor(m) == Granted({k \in RKey : RTarget[k][1] = m})
GrantedToday == Granted({k \in RKey : remedial[k].at >= DayStart})

ProposeRemedial(k, a) ==
    LET m == RTarget[k][1]
    IN  /\ <<"remedial", k>> \notin {LockOf(t) : t \in txns}
        /\ <<"market", m>> \notin {LockOf(t) : t \in txns}
        /\ remedial[k].status = "none"
        /\ HandleOf[RTarget[k][2]] # a
        /\ GrantedFor(m) + RAmount[k] <= RemedialMarket
        /\ remedial' = [remedial EXCEPT ![k] =
              [status |-> "pending", by |-> a, nb |-> ConfirmNotBefore, at |-> 0]]
        /\ UNCHANGED <<now, mstate, unwind, applied, money, opened, collected,
                       writeOff, txns, other>>

BeginRemedial(k, a) ==
    /\ remedial[k].status = "pending"
    /\ Confirmable(remedial[k], a)
    /\ HandleOf[RTarget[k][2]] # a
    /\ GrantedFor(RTarget[k][1]) + RAmount[k] <= RemedialMarket
    /\ GrantedToday + RAmount[k] <= RemedialDaily
    /\ Begin([op |-> "remedial", key |-> k])
    /\ UNCHANGED <<now, mstate, unwind, applied, money, opened, collected,
                   writeOff, remedial, other>>

ExpireRemedial(k, a) ==
    /\ remedial[k].status = "pending"
    /\ <<"remedial", k>> \notin {LockOf(t) : t \in txns}
    /\ Lapsed(remedial[k], a)
    /\ remedial' = [remedial EXCEPT ![k].status = "expired"]
    /\ UNCHANGED <<now, mstate, unwind, applied, money, opened, collected,
                   writeOff, txns, other>>

CommitRemedial(t) ==
    /\ t.op = "remedial"
    /\ house >= RAmount[t.key]
    /\ house' = house - RAmount[t.key]
    /\ wallet' = [wallet EXCEPT ![RTarget[t.key][2]] = @ + RAmount[t.key]]
    /\ remedial' = [remedial EXCEPT ![t.key].status = "confirmed", ![t.key].at = now]
    /\ End(t)
    /\ UNCHANGED <<now, mstate, unwind, applied, escrow, opened, collected,
                   writeOff, other>>

-----------------------------------------------------------------------------
\* The surroundings.

\* A posting of another use case of the user: a deposit, a trade, a hold.
OtherPosting(u, d) ==
    /\ other < MaxOther
    /\ wallet[u] + d >= 0
    /\ other' = other + 1
    /\ wallet' = [wallet EXCEPT ![u] = @ + d]
    /\ UNCHANGED <<now, mstate, unwind, applied, house, escrow, opened,
                   collected, writeOff, remedial, txns>>

\* A flagged market is cleared by its curator and pays out: no unwind after that.
PayOut(m) ==
    /\ mstate[m] = "Flagged"
    /\ <<"market", m>> \notin {LockOf(t) : t \in txns}
    /\ mstate' = [mstate EXCEPT ![m] = "Paid"]
    /\ UNCHANGED <<now, unwind, applied, money, opened, collected, writeOff,
                   remedial, txns, other>>

PassTime ==
    /\ now < MaxNow
    /\ now' = now + 1
    /\ UNCHANGED <<mstate, unwind, applied, money, opened, collected, writeOff,
                   remedial, txns, other>>

UnwindStep(m, a) ==
    ProposeUnwind(m, a) \/ BeginUnwind(m, a) \/ ExpireUnwind(m, a)

Commit(t) == CommitUnwind(t) \/ CommitCollect(t) \/ CommitWriteOff(t) \/ CommitRemedial(t)

Settle == \E t \in txns : Commit(t) \/ Abort(t)

DebtNext ==
    \/ \E m \in Unwound, a \in Principal : UnwindStep(m, a)
    \/ \E m \in Unwound : RejectUnwind(m) \/ PayOut(m)
    \/ \E k \in WKey, m \in Unwound, u \in Debtor, a \in Principal : ProposeWriteOff(k, m, u, a)
    \/ \E k \in WKey, a \in Principal : BeginWriteOff(k, a) \/ ExpireWriteOff(k, a)
    \/ \E u \in Debtor : BeginCollect(u)
    \/ \E u \in Debtor, d \in {-1, 2} : OtherPosting(u, d)
    \/ Settle
    \/ PassTime

RemedialNext ==
    \E k \in RKey, a \in Principal :
        ProposeRemedial(k, a) \/ BeginRemedial(k, a) \/ ExpireRemedial(k, a)

ReceivablesNext == DebtNext \/ RemedialNext

ReceivablesSpec == ReceivablesInit /\ [][ReceivablesNext]_recvVars

-----------------------------------------------------------------------------
\* Properties.

\* Part of identity 7 of the invariant sweep: whatever cash comes and goes and
\* however often a user's transactions collect, a debt is never collected twice.
CollectedWithinOpened ==
    \A m \in Unwound, u \in Debtor : collected[m][u] <= opened[m][u]

\* All of identity 7: collections plus write-offs never exceed what was opened.
\* A collection holds the user's lots and a write-off its receivable's key, so
\* both may count the same outstanding cents.
ReceivablesReconcile ==
    \A m \in Unwound, u \in Debtor : Outstanding(m, u) >= 0

\* The house is out of pocket by exactly what its records say: what the unwinds
\* returned, less the receivables still to be collected, those forgiven, and the
\* remedial credits granted; no commit, abort or race loses or invents a cent.
HouseAccounted ==
    house = StartHouse
            + MapThenSumSet(LAMBDA m : HouseBack[m],
                            {m \in Unwound : unwind[m].stage = "applied"})
            - MapThenSumSet(LAMBDA p : opened[p[1]][p[2]] - collected[p[1]][p[2]],
                            Unwound \X Debtor)
            - Granted(RKey)

\* The published caps on remedial credits hold for a market and for a day.
RemedialWithinCaps ==
    /\ \A m \in Unwound : GrantedFor(m) <= RemedialMarket
    /\ GrantedToday <= RemedialDaily

\* The total of open receivables stays within the threshold that the doc comment
\* of UnwindMarket::confirm says an unwind would be refused for passing.
OutstandingWithinCap == OpenTotal <= OutstandingCap
=============================================================================
