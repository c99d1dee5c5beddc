----------------------------- MODULE PayoutOnce -----------------------------
(***************************************************************************)
(* What the withdrawal rail promises, with no attempts, workers or leases: *)
(* held money ends in exactly one of two ways.  Either the chain pays it   *)
(* and the books then say so, or it returns to the user and the chain      *)
(* never pays it.  The promise rests on the evidence the rail is given: an *)
(* attempt declared failed on observations about another one may still be  *)
(* paid after the hold went back, and nothing else changes.                *)
(***************************************************************************)

VARIABLES
    hold,   \* "held", "released" or "settled"
    paid,   \* the chain has executed a transfer for this withdrawal
    void    \* an attempt was declared failed on evidence about another one

vars == <<hold, paid, void>>

Init == hold = "held" /\ paid = FALSE /\ void = FALSE

\* The chain executes a transfer.
Pay == (hold = "held" \/ void) /\ ~paid /\ paid' = TRUE /\ UNCHANGED <<hold, void>>

\* The hold goes back to the user.
Release ==
    /\ hold = "held" /\ hold' = "released"
    /\ void' \in {void, TRUE}
    /\ ~paid \/ void'
    /\ UNCHANGED paid

\* The hold goes to the external account.
Settle == hold = "held" /\ paid /\ hold' = "settled" /\ UNCHANGED <<paid, void>>

\* An attempt is replaced on evidence about another one.
Misjudge == hold = "held" /\ void' = TRUE /\ UNCHANGED <<hold, paid>>

Next == Pay \/ Release \/ Settle \/ Misjudge

Spec == Init /\ [][Next]_vars
=============================================================================
