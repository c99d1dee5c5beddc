----------------------------- MODULE LeasedJobs ------------------------------
(***************************************************************************)
(* The artifact jobs and their leased workers: application/src/video over  *)
(* pg/video_tx.rs.  A tick reclaims lapsed leases and claims queued jobs   *)
(* in one short transaction, renders outside any transaction, and applies  *)
(* each result in a transaction of its own, fenced by the claim's token.   *)
(* Time is abstracted to what the code compares: whether a lease has       *)
(* lapsed, and whether a job's backoff is over.                            *)
(***************************************************************************)
EXTENDS Naturals, FiniteSets

CONSTANTS
    Job,
    Slot,          \* job -> the (market, kind) it is for
    Worker,
    ClaimBatch,    \* CLAIM_BATCH
    MaxAttempts,   \* video_max_attempts
    MaxDeaths      \* bound on worker deaths and failed transactions

ASSUME LeasedAssumption ==
    /\ MaxAttempts \in Nat \ {0}
    /\ ClaimBatch \in Nat \ {0}
    /\ MaxDeaths \in Nat

VARIABLES
    status,    \* job -> "none", "queued", "rendering", "attached", "failed"
    token,     \* job -> its claim_token (0: null)
    attempts,  \* job -> attempts
    lease,     \* job -> "none", "held", "lapsed"
    backoff,   \* job -> "over" or "waiting": available_at against the clock
    issued,    \* the newest token drawn
    claims,    \* what the workers hold: [worker, job, token, attempt]
    winner,    \* job -> the attempt whose artifact was attached (history)
    deaths

leasedVars == <<status, token, attempts, lease, backoff, issued, claims, winner, deaths>>

Claim == [worker : Worker, job : Job, token : Nat, attempt : Nat]

LeasedTypeOK ==
    /\ status \in [Job -> {"none", "queued", "rendering", "attached", "failed"}]
    /\ token \in [Job -> Nat]
    /\ attempts \in [Job -> Nat]
    /\ lease \in [Job -> {"none", "held", "lapsed"}]
    /\ backoff \in [Job -> {"over", "waiting"}]
    /\ issued \in Nat
    /\ claims \subseteq Claim
    /\ winner \in [Job -> Nat]
    /\ deaths \in Nat

LeasedInit ==
    /\ status = [j \in Job |-> "none"]
    /\ token = [j \in Job |-> 0]
    /\ attempts = [j \in Job |-> 0]
    /\ lease = [j \in Job |-> "none"]
    /\ backoff = [j \in Job |-> "over"]
    /\ issued = 0
    /\ claims = {}
    /\ winner = [j \in Job |-> 0]
    /\ deaths = 0

\* enqueue: at most one active job per (market, kind); a second request gets
\* the active one back.
Active(j) == status[j] \in {"queued", "rendering"}

Enqueue(j) ==
    /\ status[j] = "none"
    /\ \A k \in Job : Slot[k] = Slot[j] => ~Active(k)
    /\ status' = [status EXCEPT ![j] = "queued"]
    /\ UNCHANGED <<token, attempts, lease, backoff, issued, claims, winner, deaths>>

-----------------------------------------------------------------------------
\* worker_tick's first transaction

\* A mutant: nothing is reclaimed.
Lapsed_Never == {}

Lapsed == {j \in Job : status[j] = "rendering" /\ lease[j] = "lapsed"}
IsTerminal(n) == n >= MaxAttempts
GivenUp == {j \in Lapsed : IsTerminal(attempts[j])}

\* After reclaim_expired: the jobs a claim may take.
Claimable == {j \in Job : backoff[j] = "over" /\ (status[j] = "queued" \/ j \in Lapsed \ GivenUp)}

Claims(w, C) ==
    {[worker |-> w, job |-> j, token |-> issued + 1, attempt |-> attempts[j] + 1] : j \in C}

\* The rows after reclaiming every lapsed lease and claiming C.
TickRows(C) ==
    /\ status' = [j \in Job |->
                    IF j \in C THEN "rendering"
                    ELSE IF j \in GivenUp THEN "failed"
                    ELSE IF j \in Lapsed THEN "queued" ELSE status[j]]
    /\ token' = [j \in Job |-> IF j \in C THEN issued + 1
                               ELSE IF j \in Lapsed THEN 0 ELSE token[j]]
    /\ lease' = [j \in Job |-> IF j \in C THEN "held"
                               ELSE IF j \in Lapsed THEN "none" ELSE lease[j]]
    /\ attempts' = [j \in Job |-> IF j \in C THEN attempts[j] + 1 ELSE attempts[j]]

Tick(w) ==
    /\ \A c \in claims : c.worker # w
    /\ \E C \in SUBSET Claimable :
        /\ C \cup Lapsed # {}
        /\ Cardinality(C) <= ClaimBatch
        /\ C # Claimable => Cardinality(C) = ClaimBatch
        /\ TickRows(C)
        /\ claims' = claims \cup Claims(w, C)
        /\ issued' = issued + 1
    /\ UNCHANGED <<backoff, winner, deaths>>

-----------------------------------------------------------------------------
\* render_one's second half, for one claim the worker holds

Drop(c) == claims' = claims \ {c}

Owns(c) == status[c.job] = "rendering" /\ token[c.job] = c.token

\* A mutant: the update is fenced by the status alone.
Attach_NoToken(c) ==
    /\ status[c.job] = "rendering"
    /\ status' = [status EXCEPT ![c.job] = "attached"]
    /\ token' = [token EXCEPT ![c.job] = 0]
    /\ lease' = [lease EXCEPT ![c.job] = "none"]
    /\ winner' = [winner EXCEPT ![c.job] = c.attempt]
    /\ Drop(c)
    /\ UNCHANGED <<attempts, backoff, issued, deaths>>

\* complete_and_attach: the fenced update to ready and the attachment commit
\* together; a lost fence drops the result.
Attach(c) ==
    /\ Owns(c)
    /\ status' = [status EXCEPT ![c.job] = "attached"]
    /\ token' = [token EXCEPT ![c.job] = 0]
    /\ lease' = [lease EXCEPT ![c.job] = "none"]
    /\ winner' = [winner EXCEPT ![c.job] = c.attempt]
    /\ Drop(c)
    /\ UNCHANGED <<attempts, backoff, issued, deaths>>

\* complete_error: failed on the attempts boundary, else queued after a backoff.
RenderFails(c) ==
    /\ Owns(c)
    /\ status' = [status EXCEPT ![c.job] = IF IsTerminal(c.attempt) THEN "failed" ELSE "queued"]
    /\ token' = [token EXCEPT ![c.job] = 0]
    /\ lease' = [lease EXCEPT ![c.job] = "none"]
    /\ backoff' = [backoff EXCEPT ![c.job] = "waiting"]
    /\ Drop(c)
    /\ UNCHANGED <<attempts, issued, winner, deaths>>

\* A newer attempt owns the job, or it ended: the update matches no row.
Superseded(c) ==
    /\ ~Owns(c)
    /\ Drop(c)
    /\ UNCHANGED <<status, token, attempts, lease, backoff, issued, winner, deaths>>

Finish(w) == \E c \in claims : c.worker = w /\ (Attach(c) \/ RenderFails(c) \/ Superseded(c))

\* The worker dies, or a statement of render_one fails and the tick gives up
\* the rest of its batch.
Die(w) ==
    /\ deaths < MaxDeaths
    /\ \E c \in claims : c.worker = w
    /\ deaths' = deaths + 1
    /\ claims' = {c \in claims : c.worker # w}
    /\ UNCHANGED <<status, token, attempts, lease, backoff, issued, winner>>

\* The clock passes lease_expires_at, or available_at.
Lapse(j) ==
    /\ lease[j] = "held"
    /\ lease' = [lease EXCEPT ![j] = "lapsed"]
    /\ UNCHANGED <<status, token, attempts, backoff, issued, claims, winner, deaths>>

BackoffEnds(j) ==
    /\ backoff[j] = "waiting"
    /\ backoff' = [backoff EXCEPT ![j] = "over"]
    /\ UNCHANGED <<status, token, attempts, lease, issued, claims, winner, deaths>>

LeasedNext ==
    \/ \E j \in Job : Enqueue(j) \/ Lapse(j) \/ BackoffEnds(j)
    \/ \E w \in Worker : Tick(w) \/ Finish(w) \/ Die(w)

LeasedSpec == LeasedInit /\ [][LeasedNext]_leasedVars

-----------------------------------------------------------------------------
\* The queue as JobOnce sees it.
OutcomeOf(j) == IF status[j] = "attached" THEN "applied"
                ELSE IF status[j] = "failed" THEN "failed" ELSE "open"

Once == INSTANCE JobOnce WITH Limit <- MaxAttempts,
                              outcome <- [j \in Job |-> OutcomeOf(j)],
                              tries <- attempts, appliedBy <- winner

\* A job ends once, after at most video_max_attempts attempts, and the artifact
\* that is attached is the newest attempt's: a worker whose lease lapsed can
\* neither attach nor fail the job its successor holds (complete_ready,
\* complete_error, reclaim_expired, attach_ready.rs: "a stale attempt can never
\* attach").
JobsEndOnce == Once!Spec

\* Every queued job ends, attached or failed: a worker that dies with a claim
\* is made good by the next reclaim (worker_tick, reclaim_expired).
JobEnds == \A j \in Job : status[j] = "queued" ~> status[j] \in {"attached", "failed"}
=============================================================================
