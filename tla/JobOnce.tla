------------------------------- MODULE JobOnce -------------------------------
(***************************************************************************)
(* What a leased job queue promises: a job is tried a bounded number of    *)
(* times, ends once, as applied or as failed, and the attempt whose result *)
(* is applied is the newest one.  Leases, tokens, workers and crashes do   *)
(* not appear.                                                             *)
(***************************************************************************)
EXTENDS Naturals

CONSTANTS
    Job,
    Limit      \* attempts a job may take

VARIABLES
    outcome,   \* job -> "open", "applied" or "failed"
    tries,     \* job -> attempts so far
    appliedBy  \* job -> the attempt whose result was applied, 0 if none

jobVars == <<outcome, tries, appliedBy>>

Init ==
    /\ outcome = [j \in Job |-> "open"]
    /\ tries = [j \in Job |-> 0]
    /\ appliedBy = [j \in Job |-> 0]

\* Some open jobs fail, and some of the open ones are tried again; one step
\* of a worker may do both.
Settle(F, S) ==
    /\ \A j \in F : outcome[j] = "open" /\ tries[j] > 0
    /\ \A j \in S : outcome[j] = "open" /\ tries[j] < Limit
    /\ F \cap S = {}
    /\ outcome' = [j \in Job |-> IF j \in F THEN "failed" ELSE outcome[j]]
    /\ tries' = [j \in Job |-> IF j \in S THEN tries[j] + 1 ELSE tries[j]]
    /\ UNCHANGED appliedBy

Apply(j) ==
    /\ outcome[j] = "open" /\ tries[j] > 0
    /\ outcome' = [outcome EXCEPT ![j] = "applied"]
    /\ appliedBy' = [appliedBy EXCEPT ![j] = tries[j]]
    /\ UNCHANGED tries

Next ==
    \/ \E F, S \in SUBSET Job : Settle(F, S)
    \/ \E j \in Job : Apply(j)

Spec == Init /\ [][Next]_jobVars
=============================================================================
