-------------------------- MODULE MCWithdrawalDesk --------------------------
(***************************************************************************)
(* Small desks: three or four intents of two users.  Amounts are in units  *)
(* of the minimum withdrawal; limits are scaled so that two requests fill  *)
(* a window.  One intent was settled before the model starts, so that a    *)
(* destination can be warm.                                                *)
(***************************************************************************)
EXTENDS WithdrawalDesk, TLC

CONSTANTS ann, bob, d1, d2, i1, i2, i3, p1, p2, f1, f2, s1, c1, c2, k1, k2

\* i1 and i2 are Ann's, to the destination that p1 has warmed; i3 is Bob's.
MCUserOf == i1 :> ann @@ i2 :> ann @@ i3 :> bob @@ p1 :> ann @@ p2 :> ann
MCDestOf == i1 :> d1 @@ i2 :> d1 @@ i3 :> d2 @@ p1 :> d1 @@ p2 :> d1
MCAmountOf == i1 :> 1 @@ i2 :> 2 @@ i3 :> 2 @@ p1 :> 3 @@ p2 :> 1
MCFunds == ann :> 3 @@ bob :> 2
MCDebts == ann :> 1 @@ bob :> 0

\* Only Ann.
SoloUserOf == [i \in Intent |-> ann]
SoloDestOf == [i \in Intent |-> d1]
SoloAmountOf == [i \in Intent |-> CASE i = i1 -> 1 [] i = i2 -> 2 [] i = p1 -> 3 [] i = p2 -> 1]
SoloFunds == ann :> 3
NoDebts == [u \in User |-> 0]

\* Nobody sends a key, or Ann's k1 has been used for p1.
NoBound == <<>>
BoundK1 == [p \in {ann} \X {k1, k2} |-> IF p[2] = k1 THEN p1 ELSE None]

ClientSymmetry == Permutations(Client)
=============================================================================
