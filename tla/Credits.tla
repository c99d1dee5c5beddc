------------------------------- MODULE Credits -------------------------------
(***************************************************************************)
(* Bonus credits: lots granted by hand (money/credits.rs) or by referral   *)
(* (money/referrals.rs), earned by trading fees and converted to cash from *)
(* the bonus reserve (pg/credit_tx.rs).                                    *)
(*                                                                         *)
(* Each use case is one database transaction, and one action here: all of  *)
(* them take the user's lots lock before they read a lot, and a grant also *)
(* the row lock of the reserve, which is the global mutex of the mint cap. *)
(* A use case that fails rolls back, its conversions included.             *)
(***************************************************************************)
EXTENDS Integers, Sequences, SequencesExt, FiniteSets, FiniteSetsExt

CONSTANTS
    Holder,        \* users, numbered: locks and referrals go in this order
    Book,          \* markets
    Trade,         \* trades: user, market, fee and notional of each
    GrantKey,      \* manual grants: user, amount and class of each
    BindKey,       \* keys a referral bind may be recorded under
    Reward,        \* referral amounts: referrer, referee
    RewardClass,   \* bonus_structure: "real_money" or "sweeps"
    MinNotional,   \* referral_min_notional_micro
    MintCap,       \* bonus_mint_daily_cap_micro
    MintWindow,    \* its 24 hours, in ticks
    StartReserve, StartCredit,     \* BonusReserve cash, House credit
    MaxTopUps, MaxTick             \* bounds: reserve top-ups, clock

ASSUME CreditsAssumption ==
    /\ Holder \subseteq Nat
    /\ \A t \in Trade : t.user \in Holder /\ t.market \in Book /\ t.fee \in Nat /\ t.notional \in Nat
    /\ \A k \in GrantKey : k.user \in Holder /\ k.amount > 0 /\ k.class \in {"real_money", "sweeps"}
    /\ Reward.referrer \in Nat /\ Reward.referee \in Nat
    /\ MintCap \in Nat /\ MintWindow \in Nat

VARIABLES
    tick,
    book,      \* lots, allocations, the reserve's cash and the house's credit
    traded,    \* trades placed
    outcome,   \* of each market: "Open", "Paid", "Voided", "Unwound"
    paidAs,    \* paid markets in the order they settled
    bind,      \* referral_binds by referee; <<>>: none
    phone,     \* users with a verified phone
    barred,    \* users whose money mutations enforcement refuses
    topUps     \* reserve top-ups so far

creditVars == <<tick, book, traded, outcome, paidAs, bind, phone, barred, topUps>>

CreditsInit ==
    /\ tick = 0
    /\ book = [lots |-> <<>>, alloc |-> {}, reserve |-> StartReserve, credit |-> StartCredit]
    /\ traded = {}
    /\ outcome = [m \in Book |-> "Open"]
    /\ paidAs = <<>>
    /\ bind = [u \in Holder |-> <<>>]
    /\ phone = {} /\ barred = {}
    /\ topUps = 0

-----------------------------------------------------------------------------
\* The allocation algebra.  An allocated fact and the one terminal fact that may
\* name it are one record: its kind is "allocated", "finalized" or "reversed".

Sum(F) == MapThenSumSet(LAMBDA a : a.amount, F)

\* Progress of a lot: what is live or finalized, and what is finalized.
NetAllocated(b, i) == Sum({a \in b.alloc : a.lot = i /\ a.kind # "reversed"})
Finalized(b, i) == Sum({a \in b.alloc : a.lot = i /\ a.kind = "finalized"})

LotRemaining(b, i) ==
    IF b.lots[i].converted THEN 0 ELSE Max({0, b.lots[i].amount - NetAllocated(b, i)})

LotsOf(b, u) == {i \in DOMAIN b.lots : b.lots[i].user = u}

\* split_oldest_first: what lot i of u takes of a fee, older lots served before it.
TakeOf(b, u, fee, i) ==
    Min({LotRemaining(b, i),
         Max({0, fee - MapThenSumSet(LAMBDA j : LotRemaining(b, j),
                                     {j \in LotsOf(b, u) : j < i})})})

PlanTradeAllocations(b, t) ==
    {[trade |-> t, lot |-> i, amount |-> TakeOf(b, t.user, t.fee, i), kind |-> "allocated"] :
        i \in {j \in LotsOf(b, t.user) : TakeOf(b, t.user, t.fee, j) > 0}}

\* move_market_allocations: the live allocations of a market get their terminal fact.
MoveAllocations(b, m, kind) ==
    [b EXCEPT !.alloc = {IF a.trade.market = m /\ a.kind = "allocated"
                           THEN [a EXCEPT !.kind = kind] ELSE a : a \in @}]

-----------------------------------------------------------------------------
\* convert_then_collect, the conversion half.

LotReady(b, i) ==
    /\ ~b.lots[i].converted
    /\ b.lots[i].class = "real_money"
    /\ Finalized(b, i) >= b.lots[i].amount

Ready(b, u) == {i \in LotsOf(b, u) : LotReady(b, i)}
ReadyTotal(b, u) == MapThenSumSet(LAMBDA i : b.lots[i].amount, Ready(b, u))

\* The ledger refuses to overdraw the reserve, and the whole transaction fails.
CanConvert(b, u) == ReadyTotal(b, u) <= b.reserve

Converted(b, u) ==
    [b EXCEPT !.lots = [i \in DOMAIN @ |-> IF i \in Ready(b, u)
                                             THEN [@[i] EXCEPT !.converted = TRUE] ELSE @[i]],
              !.reserve = @ - ReadyTotal(b, u),
              !.credit = @ + ReadyTotal(b, u)]

-----------------------------------------------------------------------------
\* Grants.

Promise(b) ==
    MapThenSumSet(LAMBDA i : b.lots[i].amount,
                  {i \in DOMAIN b.lots : b.lots[i].class = "real_money" /\ ~b.lots[i].converted})

MintedSince(b, since) ==
    MapThenSumSet(LAMBDA i : b.lots[i].amount, {i \in DOMAIN b.lots : b.lots[i].at >= since})

\* GrantAllowed had the cap been compared without the new amount, and had the
\* reserve been compared with the new lot only.
GrantAllowed_MintedOnly(b, total, class) ==
    /\ MintCap # 0
    /\ MintedSince(b, tick - MintWindow) <= MintCap
    /\ class = "real_money" => b.reserve >= Promise(b) + total

GrantAllowed_NewLotOnly(b, total, class) ==
    /\ MintCap # 0
    /\ MintedSince(b, tick - MintWindow) + total <= MintCap
    /\ class = "real_money" => b.reserve >= total

\* The caps every grant passes under the reserve's row lock.
GrantAllowed(b, total, class) ==
    /\ MintCap # 0
    /\ MintedSince(b, tick - MintWindow) + total <= MintCap
    /\ class = "real_money" => b.reserve >= Promise(b) + total

NewLot(key, u, amount, class) ==
    [key |-> key, user |-> u, amount |-> amount, class |-> class, at |-> tick, converted |-> FALSE]

\* House credit pays for the lots; HasLot is the idempotency index of a grant.
WithLots(b, ls) ==
    [b EXCEPT !.lots = @ \o ls,
              !.credit = @ - MapThenSumSet(LAMBDA i : ls[i].amount, DOMAIN ls)]
HasLot(b, key) == \E i \in DOMAIN b.lots : b.lots[i].key = key

Grant(k) ==
    LET b == Converted(book, k.user)
    IN  /\ ~HasLot(book, <<"grant", k>>)
        /\ CanConvert(book, k.user)
        /\ k.user \notin barred
        /\ GrantAllowed(b, k.amount, k.class)
        /\ b.credit >= k.amount
        /\ book' = WithLots(b, <<NewLot(<<"grant", k>>, k.user, k.amount, k.class)>>)
        /\ UNCHANGED <<tick, traded, outcome, paidAs, bind, phone, barred, topUps>>

-----------------------------------------------------------------------------
\* Referrals.

BindReferral(referrer, referee, key) ==
    /\ referrer # referee
    /\ bind[referee] = <<>>
    /\ \A u \in Holder : bind[u] # <<>> => bind[u].key # key
    /\ bind[referrer] # <<>> => bind[referrer].by # referee
    /\ referee \in phone
    /\ bind' = [bind EXCEPT ![referee] = [by |-> referrer, key |-> key]]
    /\ UNCHANGED <<tick, book, traded, outcome, paidAs, phone, barred, topUps>>

\* first_paid_market_for_user, in the order the markets settled.
PaidIn(u, paid) == SelectSeq(paid, LAMBDA m : \E t \in traded : t.user = u /\ t.market = m)
NotionalIn(u, m) ==
    MapThenSumSet(LAMBDA t : t.notional, {t \in traded : t.user = u /\ t.market = m})
FirstPaidQualifies(u, m, paid) ==
    /\ PaidIn(u, paid) # <<>>
    /\ Head(PaidIn(u, paid)) = m
    /\ NotionalIn(u, m) >= MinNotional

RewardTotal == Reward.referrer + Reward.referee
RewardLots(r) ==
    << NewLot(<<"referrer", r>>, bind[r].by, Reward.referrer, RewardClass),
       NewLot(<<"referee", r>>, r, Reward.referee, RewardClass) >>

\* The parties of a bind in lock order.
Parties(r) == IF bind[r].by < r THEN <<bind[r].by, r>> ELSE <<r, bind[r].by>>

\* grant_referral_on_paid_in_tx, per referee of the market being paid.  A party
\* that enforcement refuses ends it, after the conversions made so far.
ConvertParties(b, r) ==
    LET p == Parties(r)
    IN  IF p[1] \in barred THEN b
        ELSE IF p[2] \in barred THEN Converted(b, p[1])
        ELSE Converted(Converted(b, p[1]), p[2])

RewardDue(b, r, m, paid) ==
    /\ bind[r].by \notin barred /\ r \notin barred
    /\ FirstPaidQualifies(r, m, paid)
    /\ Reward.referrer > 0 /\ Reward.referee > 0
    /\ GrantAllowed(b, RewardTotal, RewardClass)

Eligible(b, r) == ~HasLot(b, <<"referee", r>>) /\ r \in phone

\* An overdrawn reserve or house credit fails the settlement itself.
Solvent(b) == b.reserve >= 0 /\ b.credit >= 0

OnPaid(b, r, m, paid) ==
    LET c == ConvertParties(b, r)
    IN  IF ~Solvent(b) \/ ~Eligible(b, r) THEN b
        ELSE IF RewardDue(c, r, m, paid) THEN WithLots(c, RewardLots(r)) ELSE c

Referees(m) ==
    SetToSortSeq({r \in Holder : bind[r] # <<>> /\ \E t \in traded : t.user = r /\ t.market = m}, <)

AfterPaid(m) ==
    LET paid == Append(paidAs, m)
    IN  FoldLeft(LAMBDA b, r : OnPaid(b, r, m, paid),
                 MoveAllocations(book, m, "finalized"), Referees(m))

\* ResolveMarket to Paid: finalize the market's allocations, then its referrals.
PayMarket(m) ==
    /\ outcome[m] = "Open"
    /\ Solvent(AfterPaid(m))
    /\ book' = AfterPaid(m)
    /\ outcome' = [outcome EXCEPT ![m] = "Paid"]
    /\ paidAs' = Append(paidAs, m)
    /\ UNCHANGED <<tick, traded, bind, phone, barred, topUps>>

\* GrantReferral, the direct command: a refusal here rolls everything back.
GrantReferral(r, m) ==
    LET b == ConvertParties(book, r)
    IN  /\ bind[r] # <<>>
        /\ Eligible(book, r)
        /\ RewardDue(b, r, m, paidAs)
        /\ Solvent(b) /\ b.credit >= RewardTotal
        /\ book' = WithLots(b, RewardLots(r))
        /\ UNCHANGED <<tick, traded, outcome, paidAs, bind, phone, barred, topUps>>

-----------------------------------------------------------------------------
\* Trades and the end of a market.

PlaceTrade(t) ==
    LET b == Converted(book, t.user)
    IN  /\ t \notin traded
        /\ CanConvert(book, t.user)
        /\ t.user \notin barred
        /\ outcome[t.market] = "Open"
        /\ traded' = traded \cup {t}
        /\ book' = [b EXCEPT !.alloc = @ \cup PlanTradeAllocations(b, t)]
        /\ UNCHANGED <<tick, outcome, paidAs, bind, phone, barred, topUps>>

\* A void that would finalize the allocations "to be helpful".
VoidMarket_Finalizes(m) ==
    /\ outcome[m] = "Open"
    /\ outcome' = [outcome EXCEPT ![m] = "Voided"]
    /\ book' = MoveAllocations(book, m, "finalized")
    /\ UNCHANGED <<tick, traded, paidAs, bind, phone, barred, topUps>>

\* A void leaves the provisional allocations as they are; an unwind reverses them.
VoidMarket(m) ==
    /\ outcome[m] = "Open"
    /\ outcome' = [outcome EXCEPT ![m] = "Voided"]
    /\ UNCHANGED <<tick, book, traded, paidAs, bind, phone, barred, topUps>>

UnwindBook(m) ==
    /\ outcome[m] = "Voided"
    /\ outcome' = [outcome EXCEPT ![m] = "Unwound"]
    /\ book' = MoveAllocations(book, m, "reversed")
    /\ UNCHANGED <<tick, traded, paidAs, bind, phone, barred, topUps>>

-----------------------------------------------------------------------------
\* The surroundings.

\* Any other transaction of the user that calls convert_then_collect.
TouchUser(u) ==
    /\ Ready(book, u) # {}
    /\ CanConvert(book, u)
    /\ book' = Converted(book, u)
    /\ UNCHANGED <<tick, traded, outcome, paidAs, bind, phone, barred, topUps>>

VerifyPhone(u) ==
    /\ u \notin phone
    /\ phone' = phone \cup {u}
    /\ UNCHANGED <<tick, book, traded, outcome, paidAs, bind, barred, topUps>>

Enforce(u) ==
    /\ barred' = IF u \in barred THEN barred \ {u} ELSE barred \cup {u}
    /\ UNCHANGED <<tick, book, traded, outcome, paidAs, bind, phone, topUps>>

TopUpReserve ==
    /\ topUps < MaxTopUps
    /\ topUps' = topUps + 1
    /\ book' = [book EXCEPT !.reserve = @ + 1]
    /\ UNCHANGED <<tick, traded, outcome, paidAs, bind, phone, barred>>

CreditsTick ==
    /\ tick < MaxTick
    /\ tick' = tick + 1
    /\ UNCHANGED <<book, traded, outcome, paidAs, bind, phone, barred, topUps>>

CreditsNext ==
    \/ \E k \in GrantKey : Grant(k)
    \/ \E r, s \in Holder, key \in BindKey : BindReferral(r, s, key)
    \/ \E r \in Holder, m \in Book : GrantReferral(r, m)
    \/ \E t \in Trade : PlaceTrade(t)
    \/ \E m \in Book : PayMarket(m) \/ VoidMarket(m) \/ UnwindBook(m)
    \/ \E u \in Holder : TouchUser(u) \/ VerifyPhone(u) \/ Enforce(u)
    \/ TopUpReserve
    \/ CreditsTick

CreditsSpec == CreditsInit /\ [][CreditsNext]_creditVars

-----------------------------------------------------------------------------
\* Properties.

\* Identity 9 of the invariant sweep (bonus_reserve_coverage): the reserve holds
\* every unconverted real-money lot, so an earned conversion never fails, and
\* never takes the trade or settlement that carries it down with it.
ReserveCovers == book.reserve >= Promise(book)

\* Bonus cash is earned: what a user's lots paid out never exceeds the fees of
\* the user's trades in markets that were paid, whatever was voided, unwound,
\* split over lots or finalized in between.
FeesBackConversions ==
    \A u \in Holder :
        MapThenSumSet(LAMBDA i : book.lots[i].amount,
                      {i \in LotsOf(book, u) : book.lots[i].converted})
        <= MapThenSumSet(LAMBDA t : t.fee,
                         {t \in traded : t.user = u /\ outcome[t.market] = "Paid"})

\* At no grant did the lots of the preceding window, manual and referral ones
\* together, exceed the mint cap.
MintWithinCap ==
    \A i \in DOMAIN book.lots :
        MapThenSumSet(LAMBDA j : book.lots[j].amount,
                      {j \in 1..i : book.lots[j].at >= book.lots[i].at - MintWindow}) <= MintCap

\* What the doc comment of grant_referral_on_paid_in_tx says: a pair that cannot
\* be granted now is skipped, so no referral keeps a market from being paid.
ReferralNeverBlocksPay == \A m \in Book : outcome[m] = "Open" => Solvent(AfterPaid(m))
=============================================================================
