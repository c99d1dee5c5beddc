------------------------------ MODULE MCMarket ------------------------------
(* Instances of Market for TLC. *)
EXTENDS Market

Vote(u, s) == [op |-> "vote", user |-> u, side |-> s, amount |-> 0]
Buy(u, s, n) == [op |-> "buy", user |-> u, side |-> s, amount |-> n]
Sell(u, s, n) == [op |-> "sell", user |-> u, side |-> s, amount |-> n]

MCUser == {1, 2}
MCRequest == {Vote(1, "Yes"), Vote(2, "No"), Buy(1, "Yes", 7), Sell(1, "Yes", 4)}
FewRequests == {Vote(1, "Yes"), Vote(2, "No"), Buy(1, "Yes", 7)}
MCCash == [u \in MCUser |-> IF u = 1 THEN 9 ELSE 5]
NoDebt == [u \in MCUser |-> 0]
\* User 2 referred user 1.
MCBind == {<<2, 1>>}
MCDebt == [u \in MCUser |-> IF u = 1 THEN 4 ELSE 0]
=============================================================================
