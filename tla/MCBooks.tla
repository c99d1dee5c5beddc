------------------------------- MODULE MCBooks -------------------------------
(***************************************************************************)
(* What is kept beside the main ledger, one instance: a behaviour is one   *)
(* of debts (unwinds, receivables, write-offs), of remedial credits, of    *)
(* bonus credits, or of a deposit refund being sent.  They share no state  *)
(* but the user's cash, which Receivables gives to other use cases as      *)
(* OtherPosting.                                                           *)
(***************************************************************************)
EXTENDS Receivables, Credits, RefundRail

VARIABLE part    \* the subledger whose behaviour this is

bookVars == <<part, recvVars, creditVars, vars>>

\* m1 was voided: u1 won on the void, u2 lost, the house seeded it and got most
\* of the seed back.  m2 is flagged and unpaid: u1 sold at a profit, u2 bought.
MCOwes == [m1 |-> [u1 |-> 3, u2 |-> -2], m2 |-> [u1 |-> 1, u2 |-> -2]]
MCHouseBack == [m1 |-> 1, m2 |-> 1]
MCStartState == [m1 |-> "Voided", m2 |-> "Flagged"]
MCStartCash == [u1 |-> 1, u2 |-> 0]
MCRTarget == [r1 |-> <<"m1", "u2">>, r2 |-> <<"m1", "u2">>, r3 |-> <<"m1", "u1">>]
MCRAmount == [r1 |-> 2, r2 |-> 1, r3 |-> 1]
MCHandleOf == [u1 |-> "a", u2 |-> "nobody"]

\* User 2 trades in both markets and may be referred by user 1.
MCTrade == { [user |-> 2, market |-> "m1", fee |-> 3, notional |-> 5],
             [user |-> 2, market |-> "m2", fee |-> 1, notional |-> 5],
             [user |-> 1, market |-> "m1", fee |-> 1, notional |-> 5] }
MCGrantKey == { [user |-> 2, amount |-> 2, class |-> "real_money"],
                [user |-> 2, amount |-> 1, class |-> "sweeps"] }
MCReward == [referrer |-> 1, referee |-> 1]

\* Two workers, each in a process of its own.
MCHost == [w1 |-> "p1", w2 |-> "p2"]

BooksInit ==
    /\ part \in {"debt", "remedial", "credits", "refund"}
    /\ ReceivablesInit
    /\ CreditsInit
    /\ Init

BooksNext ==
    /\ part' = part
    /\ \/ part = "debt" /\ DebtNext /\ UNCHANGED <<creditVars, vars>>
       \/ part = "remedial" /\ (RemedialNext \/ Settle \/ PassTime) /\ UNCHANGED <<creditVars, vars>>
       \/ part = "credits" /\ CreditsNext /\ UNCHANGED <<recvVars, vars>>
       \/ part = "refund" /\ Next /\ UNCHANGED <<recvVars, creditVars>>

BooksSpec == BooksInit /\ [][BooksNext]_bookVars
=============================================================================
