-------------------------------- MODULE Cpmm --------------------------------
(***************************************************************************)
(* The integer constant-product market maker over complete sets and the    *)
(* settlement arithmetic (crates/domain/src/{amm,money,resolution}.rs).    *)
(* Every operation that the code can refuse returns Refused instead of a   *)
(* quote.  Rounding is the code's: fees up, the pool's retained side up,   *)
(* sale proceeds and payouts down.                                         *)
(***************************************************************************)
EXTENDS Integers, FiniteSets, FiniteSetsExt

CONSTANTS MaxReserve, MaxAmount   \* the closed caps MAX_RESERVE, MAX_AMOUNT

ASSUME CapsAssumption == MaxReserve \in Nat \ {0} /\ MaxAmount \in Nat \ {0}

Side == {"Yes", "No"}
Other(side) == IF side = "Yes" THEN "No" ELSE "Yes"
Pool == [Side -> Nat]

Refused == [ok |-> FALSE]

Ceil(n, d) == (n + d - 1) \div d

(* The fee is rounded up; net + fee = gross. *)
FeeOf(gross, bps) == Ceil(gross * bps, 10000)

(* Floor square root by Newton's descent from a power of two above it. *)
isqrt(x) ==
    LET bits == CHOOSE n \in 1 .. 31 : 2 ^ (n - 1) <= x /\ x < 2 ^ n
        descend[r \in Nat] ==
            LET next == (r + x \div r) \div 2
            IN  IF next >= r THEN r ELSE descend[next]
    IN  IF x < 2 THEN x ELSE descend[2 ^ Ceil(bits, 2)]

QuoteBuy(pool, side, collateral, bps) ==
    LET fee    == FeeOf(collateral, bps)
        net    == collateral - fee
        bAfter == pool[Other(side)] + net
        aPool  == Ceil(pool[side] * pool[Other(side)], bAfter)
        out    == pool[side] + net - aPool
    IN  IF \/ collateral > MaxAmount \/ collateral < 0
           \/ bAfter > MaxReserve
           \/ out = 0
        THEN Refused
        ELSE [ok |-> TRUE, shares |-> out, fee |-> fee,
              after |-> [s \in Side |-> IF s = side THEN aPool ELSE bAfter]]

(***************************************************************************)
(* Selling s shares burns c complete sets, the smaller root of             *)
(* (sell + s - c)(other - c) = sell * other, floored and then lowered      *)
(* until the product does not shrink.                                      *)
(***************************************************************************)
QuoteSell(pool, side, s, bps) ==
    LET sell  == pool[side]
        other == pool[Other(side)]
        b     == sell + s + other
        root  == (b - isqrt(b * b - 4 * s * other)) \div 2
        kept  == {c \in 1 .. root : (sell + s - c) * (other - c) >= sell * other}
        c     == Max(kept)
    IN  IF \/ s <= 0 \/ s > MaxAmount
           \/ root >= other
           \/ kept = {}
           \/ sell + s - c > MaxReserve
        THEN Refused
        ELSE [ok |-> TRUE, proceeds |-> c, fee |-> FeeOf(c, bps),
              after |-> [x \in Side |-> IF x = side THEN sell + s - c ELSE other - c]]

(* What one whole share of each side redeems for, in micro-USD. *)
Redemption(side, yesBps) ==
    IF side = "Yes" THEN yesBps * 100 ELSE 1000000 - yesBps * 100

\* Mutant: payouts are rounded up.
PositionPayout_RoundsUp(shares, redemption) == Ceil(shares * redemption, 1000000)

PositionPayout(shares, redemption) == (shares * redemption) \div 1000000

(***************************************************************************)
(* A settlement of `holdings`, a function from holders to the shares they  *)
(* have of each side.  It is refused unless each side adds up to the       *)
(* escrow, and unless the rounding dust is smaller than the number of      *)
(* non-empty holdings.                                                     *)
(***************************************************************************)
SettleMarket(holdings, yesBps, escrow) ==
    LET holders  == DOMAIN holdings
        total(s) == MapThenSumSet(LAMBDA h : holdings[h][s], holders)
        nonEmpty == {p \in holders \X Side : holdings[p[1]][p[2]] > 0}
        pay(h, s) == PositionPayout(holdings[h][s], Redemption(s, yesBps))
        payout   == [h \in holders |-> [s \in Side |-> pay(h, s)]]
        paid     == MapThenSumSet(LAMBDA p : payout[p[1]][p[2]], holders \X Side)
        dust     == escrow - paid
    IN  IF \/ \E s \in Side : total(s) # escrow
           \/ dust >= Cardinality(nonEmpty)
        THEN Refused
        ELSE [ok |-> TRUE, payout |-> payout, dust |-> dust]
=============================================================================
