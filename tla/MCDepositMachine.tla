-------------------------- MODULE MCDepositMachine --------------------------
(* Model-checking instances of DepositMachine. *)
EXTENDS DepositMachine, TLC

CONSTANTS w1, w2, c1, c2, u1, none

OneUser == <<u1, u1>>
OneUnmatched == <<none, u1>>
UnequalAmounts == <<2, 1>>
OneDebt == u1 :> 2
OneCash == u1 :> 1
=============================================================================
