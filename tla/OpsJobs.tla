------------------------------- MODULE OpsJobs -------------------------------
(***************************************************************************)
(* Replay and refanout commands: application/src/ops/replay_job.rs over    *)
(* pg/unwind_tx.rs.  An operator's command is a durable row; the runner of *)
(* each process claims due rows under one key lock, commits the claim, and *)
(* delivers each command in a transaction that appends its event and       *)
(* writes the row back as done.  A failed delivery is settled as failed in *)
(* a third transaction.  Neither write asks whether the row still is the   *)
(* one that was claimed.                                                   *)
(***************************************************************************)
EXTENDS Naturals

CONSTANTS
    Command,      \* idempotency keys of the commands
    Runner,       \* one per process
    MaxBadRuns    \* bound on failed transactions and runner deaths

ASSUME OpsJobsAssumption == MaxBadRuns \in Nat

VARIABLES
    command,     \* command -> "none", "pending", "executing", "done", "failed"
    runLease,    \* command -> "none", "held", "lapsed"
    batch,       \* runner -> the commands it claimed and has not delivered
    unsettled,    \* runner -> commands whose delivery reported an error, to be settled
    delivered,   \* command -> how many events were appended for it
    badRuns

opsJobVars == <<command, runLease, batch, unsettled, delivered, badRuns>>

OpsJobsInit ==
    /\ command = [k \in Command |-> "none"]
    /\ runLease = [k \in Command |-> "none"]
    /\ batch = [r \in Runner |-> {}]
    /\ unsettled = [r \in Runner |-> {}]
    /\ delivered = [k \in Command |-> 0]
    /\ badRuns = 0

\* authorize: a known key returns its command.
Authorize(k) ==
    /\ command[k] = "none"
    /\ command' = [command EXCEPT ![k] = "pending"]
    /\ UNCHANGED <<runLease, batch, unsettled, delivered, badRuns>>

\* due_job_commands, and the mutant that forgets executing rows.
Due_PendingOnly == {k \in Command : command[k] = "pending"}

Due == {k \in Command : \/ command[k] = "pending"
                        \/ command[k] = "executing" /\ runLease[k] # "held"}

ClaimDue(r) ==
    /\ batch[r] = {} /\ unsettled[r] = {}
    /\ Due # {}
    /\ command' = [k \in Command |-> IF k \in Due THEN "executing" ELSE command[k]]
    /\ runLease' = [k \in Command |-> IF k \in Due THEN "held" ELSE runLease[k]]
    /\ batch' = [batch EXCEPT ![r] = Due]
    /\ UNCHANGED <<unsettled, delivered, badRuns>>

\* deliver: the event and the row, in one transaction.
Emitted(k) ==
    /\ command' = [command EXCEPT ![k] = "done"]
    /\ runLease' = [runLease EXCEPT ![k] = "none"]
    /\ delivered' = [delivered EXCEPT ![k] = @ + 1]

Deliver(r, k) ==
    /\ k \in batch[r] /\ unsettled[r] = {}
    /\ Emitted(k)
    /\ batch' = [batch EXCEPT ![r] = @ \ {k}]
    /\ UNCHANGED <<unsettled, badRuns>>

\* deliver reports an error: its transaction rolled back, or the commit took
\* effect and its answer was lost.
DeliverFails(r, k) ==
    /\ k \in batch[r] /\ unsettled[r] = {}
    /\ badRuns < MaxBadRuns
    /\ badRuns' = badRuns + 1
    /\ Emitted(k) \/ UNCHANGED <<command, runLease, delivered>>
    /\ batch' = [batch EXCEPT ![r] = @ \ {k}]
    /\ unsettled' = [unsettled EXCEPT ![r] = {k}]

\* settle_delivery writes the claimed copy back as failed, whatever the row is now.
SettleFailed(r, k) ==
    /\ k \in unsettled[r]
    /\ command' = [command EXCEPT ![k] = "failed"]
    /\ runLease' = [runLease EXCEPT ![k] = "none"]
    /\ unsettled' = [unsettled EXCEPT ![r] = {}]
    /\ UNCHANGED <<batch, delivered, badRuns>>

\* The process dies, or settling fails and run_due returns early.
RunnerDies(r) ==
    /\ badRuns < MaxBadRuns
    /\ batch[r] # {} \/ unsettled[r] # {}
    /\ badRuns' = badRuns + 1
    /\ batch' = [batch EXCEPT ![r] = {}]
    /\ unsettled' = [unsettled EXCEPT ![r] = {}]
    /\ UNCHANGED <<command, runLease, delivered>>

RunLeaseLapses(k) ==
    /\ runLease[k] = "held"
    /\ runLease' = [runLease EXCEPT ![k] = "lapsed"]
    /\ UNCHANGED <<command, batch, unsettled, delivered, badRuns>>

RunStep(r) ==
    \/ ClaimDue(r)
    \/ \E k \in Command : Deliver(r, k) \/ SettleFailed(r, k)

OpsJobsNext ==
    \/ \E k \in Command : Authorize(k) \/ RunLeaseLapses(k)
    \/ \E r \in Runner :
        \/ RunStep(r)
        \/ \E k \in Command : DeliverFails(r, k)
        \/ RunnerDies(r)

OpsJobsSpec == OpsJobsInit /\ [][OpsJobsNext]_opsJobVars

-----------------------------------------------------------------------------
\* A command recorded as done was delivered, whatever runner recorded it:
\* the event and the row commit together (deliver).
DoneWasDelivered == \A k \in Command : command[k] = "done" => delivered[k] > 0

\* Every authorized command is settled for good, runner deaths and lost
\* answers notwithstanding: a lapsed lease makes it due again (due_job_commands).
CommandEnds ==
    \A k \in Command : command[k] = "pending" ~> [](command[k] \in {"done", "failed"})

\* replay_job.rs: "leased machine runners deliver by re-emitting the subject's
\* outbox event, exactly once per command".
DeliveredAtMostOnce == \A k \in Command : delivered[k] <= 1
=============================================================================
