------------------------- MODULE LeasedJobs_proofs --------------------------
(***************************************************************************)
(* The leased jobs implement JobOnce, for any number of jobs, workers and  *)
(* attempts, whatever batch a tick claims and however many workers die.    *)
(***************************************************************************)
EXTENDS LeasedJobs, TLAPS

-----------------------------------------------------------------------------
(* The inductive invariant *)

\* A token is drawn once: the claim whose token a job carries is that job's
\* newest attempt.  This is what the fence of complete_ready and complete_error
\* rests on.
Fence ==
    /\ \A j \in Job : token[j] <= issued
    /\ \A c \in claims :
         /\ 0 < c.token /\ c.token <= issued
         /\ token[c.job] = c.token => c.attempt = attempts[c.job]

\* The attempts boundary: a job that can still be claimed has an attempt left,
\* and one that is being rendered has used one.
Budget ==
    \A j \in Job :
        /\ status[j] = "none" => attempts[j] = 0
        /\ status[j] = "queued" => attempts[j] < MaxAttempts
        /\ status[j] = "rendering" => attempts[j] > 0 /\ attempts[j] <= MaxAttempts

LeasedInv == LeasedTypeOK /\ Fence /\ Budget

-----------------------------------------------------------------------------
(* Type correctness *)

\* What a tick hands its worker is a claim, with the token it has just drawn.
LEMMA ClaimsType ==
  ASSUME LeasedTypeOK, NEW w \in Worker, NEW C \in SUBSET Job
  PROVE  Claims(w, C) \subseteq Claim
  BY DEF LeasedTypeOK, Claims, Claim

LEMMA ClaimableJobs == Claimable \subseteq Job /\ Lapsed \subseteq Job /\ GivenUp \subseteq Lapsed
  BY DEF Claimable, Lapsed, GivenUp

LEMMA TypeStep ==
  ASSUME LeasedTypeOK, [LeasedNext]_leasedVars
  PROVE  LeasedTypeOK'
  <1>1. ASSUME NEW j \in Job, Enqueue(j) PROVE LeasedTypeOK'
    BY <1>1 DEF LeasedTypeOK, Enqueue
  <1>2. ASSUME NEW j \in Job, Lapse(j) PROVE LeasedTypeOK'
    BY <1>2 DEF LeasedTypeOK, Lapse
  <1>3. ASSUME NEW j \in Job, BackoffEnds(j) PROVE LeasedTypeOK'
    BY <1>3 DEF LeasedTypeOK, BackoffEnds
  <1>4. ASSUME NEW w \in Worker, Tick(w) PROVE LeasedTypeOK'
    <2>1. PICK C \in SUBSET Claimable :
             TickRows(C) /\ claims' = claims \cup Claims(w, C) /\ issued' = issued + 1
      BY <1>4 DEF Tick
    <2>2. C \in SUBSET Job
      BY ClaimableJobs
    <2>3. claims' \subseteq Claim
      BY <2>1, <2>2, ClaimsType DEF LeasedTypeOK
    <2>4. status' \in [Job -> {"none", "queued", "rendering", "attached", "failed"}]
      BY <2>1 DEF TickRows, LeasedTypeOK
    <2>5. token' \in [Job -> Nat] /\ attempts' \in [Job -> Nat] /\ issued' \in Nat
      BY <2>1 DEF TickRows, LeasedTypeOK
    <2>6. lease' \in [Job -> {"none", "held", "lapsed"}]
      BY <2>1 DEF TickRows, LeasedTypeOK
    <2> QED
      BY <1>4, <2>3, <2>4, <2>5, <2>6 DEF Tick, LeasedTypeOK
  <1>5. ASSUME NEW w \in Worker, Finish(w) PROVE LeasedTypeOK'
    <2>1. PICK c \in claims : Attach(c) \/ RenderFails(c) \/ Superseded(c)
      BY <1>5 DEF Finish
    <2>2. c \in Claim /\ c.job \in Job /\ c.attempt \in Nat
      BY <2>1 DEF LeasedTypeOK, Claim
    <2>3. CASE Attach(c)
      BY <2>2, <2>3 DEF Attach, Drop, LeasedTypeOK
    <2>4. CASE RenderFails(c)
      BY <2>2, <2>4 DEF RenderFails, Drop, LeasedTypeOK
    <2>5. CASE Superseded(c)
      BY <2>5 DEF Superseded, Drop, LeasedTypeOK
    <2> QED
      BY <2>1, <2>3, <2>4, <2>5
  <1>6. ASSUME NEW w \in Worker, Die(w) PROVE LeasedTypeOK'
    BY <1>6 DEF LeasedTypeOK, Die
  <1>7. CASE UNCHANGED leasedVars
    BY <1>7 DEF LeasedTypeOK, leasedVars
  <1> QED
    BY <1>1, <1>2, <1>3, <1>4, <1>5, <1>6, <1>7 DEF LeasedNext

-----------------------------------------------------------------------------
(* A tick *)

\* What a tick does to one job: it is claimed with the new token, requeued,
\* given up, or left alone.
LEMMA TickJob ==
  ASSUME NEW C \in SUBSET Claimable, TickRows(C), NEW j \in Job
  PROVE  \/ /\ j \in C /\ j \in Claimable
            /\ status'[j] = "rendering" /\ token'[j] = issued + 1
            /\ attempts'[j] = attempts[j] + 1
         \/ /\ j \notin C /\ j \in GivenUp
            /\ status'[j] = "failed" /\ token'[j] = 0 /\ attempts'[j] = attempts[j]
         \/ /\ j \notin C /\ j \in Lapsed /\ j \notin GivenUp
            /\ status'[j] = "queued" /\ token'[j] = 0 /\ attempts'[j] = attempts[j]
         \/ /\ j \notin C /\ j \notin Lapsed
            /\ status'[j] = status[j] /\ token'[j] = token[j] /\ attempts'[j] = attempts[j]
  BY DEF TickRows, GivenUp

LEMMA TickFence ==
  ASSUME LeasedInv, NEW w \in Worker, Tick(w)
  PROVE  Fence'
  <1>1. PICK C \in SUBSET Claimable :
           TickRows(C) /\ claims' = claims \cup Claims(w, C) /\ issued' = issued + 1
    BY DEF Tick
  <1>2. C \in SUBSET Job
    BY ClaimableJobs
  <1>3. ASSUME NEW j \in Job PROVE token'[j] <= issued'
    BY <1>1, TickJob DEF LeasedInv, LeasedTypeOK, Fence
  <1>4. ASSUME NEW c \in claims
        PROVE  /\ 0 < c.token /\ c.token <= issued'
               /\ token'[c.job] = c.token => c.attempt = attempts'[c.job]
    <2>1. c.job \in Job /\ c.token \in Nat
      BY <1>4 DEF LeasedInv, LeasedTypeOK, Claim
    <2>2. 0 < c.token /\ c.token <= issued /\ issued \in Nat
      BY <1>4 DEF LeasedInv, Fence, LeasedTypeOK
    <2>3. token'[c.job] = c.token => token[c.job] = c.token /\ attempts'[c.job] = attempts[c.job]
      BY <1>1, <2>1, <2>2, TickJob
    <2> QED
      BY <1>1, <1>4, <2>1, <2>2, <2>3 DEF LeasedInv, Fence
  <1>5. ASSUME NEW c \in Claims(w, C)
        PROVE  /\ 0 < c.token /\ c.token <= issued'
               /\ token'[c.job] = c.token => c.attempt = attempts'[c.job]
    <2>1. c.job \in C /\ c.token = issued + 1 /\ c.attempt = attempts[c.job] + 1
      BY <1>5 DEF Claims
    <2>2. attempts'[c.job] = attempts[c.job] + 1
      BY <1>1, <1>2, <2>1 DEF TickRows
    <2> QED
      BY <1>1, <2>1, <2>2 DEF LeasedInv, LeasedTypeOK
  <1> QED
    BY <1>1, <1>3, <1>4, <1>5 DEF Fence

LEMMA TickBudget ==
  ASSUME LeasedInv, NEW w \in Worker, Tick(w)
  PROVE  Budget'
  <1>1. PICK C \in SUBSET Claimable : TickRows(C)
    BY DEF Tick
  <1>2. ASSUME NEW j \in Job
        PROVE  /\ status'[j] = "none" => attempts'[j] = 0
               /\ status'[j] = "queued" => attempts'[j] < MaxAttempts
               /\ status'[j] = "rendering" => attempts'[j] > 0 /\ attempts'[j] <= MaxAttempts
    <2>1. attempts[j] \in Nat /\ MaxAttempts \in Nat
      BY LeasedAssumption DEF LeasedInv, LeasedTypeOK
    <2>2. j \in Claimable => attempts[j] < MaxAttempts
      BY <2>1 DEF LeasedInv, Budget, Claimable, GivenUp, IsTerminal
    <2>3. j \in Lapsed /\ j \notin GivenUp => attempts[j] < MaxAttempts
      BY <2>1 DEF GivenUp, IsTerminal
    <2> QED
      BY <1>1, <2>1, <2>2, <2>3, TickJob DEF LeasedInv, Budget
  <1> QED
    BY <1>2 DEF Budget

-----------------------------------------------------------------------------
(* The end of a claim *)

\* The claim that passes the fence is its job's newest attempt.
LEMMA OwnerIsNewest ==
  ASSUME LeasedInv, NEW c \in claims, Owns(c)
  PROVE  /\ c.job \in Job /\ status[c.job] = "rendering"
         /\ c.attempt = attempts[c.job]
         /\ attempts[c.job] \in Nat /\ attempts[c.job] > 0 /\ attempts[c.job] <= MaxAttempts
  <1>1. c.job \in Job
    BY DEF LeasedInv, LeasedTypeOK, Claim
  <1> QED
    BY <1>1 DEF LeasedInv, LeasedTypeOK, Fence, Budget, Owns

LEMMA FinishInv ==
  ASSUME LeasedInv, NEW c \in claims, Attach(c) \/ RenderFails(c) \/ Superseded(c)
  PROVE  Fence' /\ Budget'
  <1>1. c.job \in Job
    BY DEF LeasedInv, LeasedTypeOK, Claim
  <1>2. /\ claims' \subseteq claims /\ issued' = issued /\ attempts' = attempts
        /\ \A j \in Job : token'[j] \in {0, token[j]}
    BY DEF Attach, RenderFails, Superseded, Drop, LeasedInv, LeasedTypeOK
  <1>3. Fence'
    <2>1. ASSUME NEW d \in claims PROVE d.job \in Job
      BY <2>1 DEF LeasedInv, LeasedTypeOK, Claim
    <2> QED
      BY <1>2, <2>1 DEF LeasedInv, LeasedTypeOK, Fence
  <1>4. CASE Attach(c)
    BY <1>1, <1>2, <1>3, <1>4 DEF Attach, Budget, LeasedInv, LeasedTypeOK
  <1>5. CASE RenderFails(c)
    <2>1. c.attempt = attempts[c.job] /\ attempts[c.job] \in Nat /\ MaxAttempts \in Nat
      BY <1>5, OwnerIsNewest, LeasedAssumption DEF RenderFails
    <2> QED
      BY <1>1, <1>2, <1>3, <1>5, <2>1 DEF RenderFails, IsTerminal, Budget, LeasedInv, LeasedTypeOK
  <1>6. CASE Superseded(c)
    BY <1>3, <1>6 DEF Superseded, Budget, LeasedInv
  <1> QED
    BY <1>4, <1>5, <1>6

-----------------------------------------------------------------------------
(* The invariant holds *)

LEMMA InvStep ==
  ASSUME LeasedInv, [LeasedNext]_leasedVars
  PROVE  LeasedInv'
  <1>t. LeasedTypeOK'
    BY TypeStep DEF LeasedInv
  <1>c. \A c \in claims : c.job \in Job
    BY DEF LeasedInv, LeasedTypeOK, Claim
  <1>1. ASSUME NEW j \in Job, Enqueue(j) PROVE Fence' /\ Budget'
    <2>1. MaxAttempts \in Nat /\ MaxAttempts > 0
      BY LeasedAssumption
    <2> QED
      BY <1>1, <2>1 DEF Enqueue, LeasedInv, LeasedTypeOK, Fence, Budget
  <1>2. ASSUME NEW j \in Job, Lapse(j) \/ BackoffEnds(j) PROVE Fence' /\ Budget'
    BY <1>2 DEF Lapse, BackoffEnds, LeasedInv, Fence, Budget
  <1>3. ASSUME NEW w \in Worker, Tick(w) PROVE Fence' /\ Budget'
    BY <1>3, TickFence, TickBudget
  <1>4. ASSUME NEW w \in Worker, Finish(w) PROVE Fence' /\ Budget'
    BY <1>4, FinishInv DEF Finish
  <1>5. ASSUME NEW w \in Worker, Die(w) PROVE Fence' /\ Budget'
    BY <1>5 DEF Die, LeasedInv, Fence, Budget
  <1>6. CASE UNCHANGED leasedVars
    BY <1>t, <1>6 DEF leasedVars, LeasedInv, Fence, Budget
  <1> QED
    BY <1>t, <1>1, <1>2, <1>3, <1>4, <1>5, <1>6 DEF LeasedNext, LeasedInv

LEMMA InvInit == LeasedInit => LeasedInv
  BY LeasedAssumption DEF LeasedInit, LeasedInv, LeasedTypeOK, Fence, Budget, Claim

\* The fence and the attempts boundary hold in every reachable state: the claim
\* whose token a job carries is the newest attempt, and no job is claimed more
\* than video_max_attempts times (claim, complete_error, reclaim_expired).
THEOREM LeasedInvCorrect == LeasedSpec => []LeasedInv
  BY InvInit, InvStep, PTL DEF LeasedSpec

-----------------------------------------------------------------------------
(* The abstract promise *)

LEMMA OnceInit == LeasedInit => Once!Init
  BY DEF LeasedInit, Once!Init, OutcomeOf

\* Steps that change no status, no attempt count and attach nothing are invisible.
LEMMA OnceStutter ==
  ASSUME UNCHANGED <<status, attempts, winner>>
  PROVE  UNCHANGED Once!jobVars
  BY DEF Once!jobVars, OutcomeOf

LEMMA TickOnce ==
  ASSUME LeasedInv, NEW w \in Worker, Tick(w)
  PROVE  Once!Next
  <1>1. PICK C \in SUBSET Claimable : TickRows(C)
    BY DEF Tick
  <1>2. C \in SUBSET Job /\ GivenUp \in SUBSET Job
    BY ClaimableJobs
  <1>3. C \cap GivenUp = {}
    BY DEF Claimable, GivenUp, Lapsed
  <1>4. \A j \in GivenUp : OutcomeOf(j) = "open" /\ attempts[j] > 0
    BY DEF GivenUp, Lapsed, OutcomeOf, LeasedInv, Budget
  <1>5. \A j \in C : OutcomeOf(j) = "open" /\ attempts[j] < MaxAttempts
    <2> SUFFICES ASSUME NEW j \in C PROVE OutcomeOf(j) = "open" /\ attempts[j] < MaxAttempts
      OBVIOUS
    <2>1. j \in Job /\ attempts[j] \in Nat /\ MaxAttempts \in Nat
      BY <1>2, LeasedAssumption DEF LeasedInv, LeasedTypeOK
    <2>2. status[j] \in {"queued", "rendering"}
      BY DEF Claimable, Lapsed
    <2>3. attempts[j] < MaxAttempts
      BY <2>1 DEF Claimable, GivenUp, IsTerminal, LeasedInv, Budget
    <2> QED
      BY <2>2, <2>3 DEF OutcomeOf
  <1>6. \A j \in Job : OutcomeOf(j)' = IF j \in GivenUp THEN "failed" ELSE OutcomeOf(j)
    <2> SUFFICES ASSUME NEW j \in Job
                 PROVE  OutcomeOf(j)' = IF j \in GivenUp THEN "failed" ELSE OutcomeOf(j)
      OBVIOUS
    <2>1. CASE j \in C
      <3>1. j \notin GivenUp /\ OutcomeOf(j) = "open" /\ status'[j] = "rendering"
        BY <1>1, <1>3, <1>5, <2>1 DEF TickRows
      <3> QED
        BY <3>1 DEF OutcomeOf
    <2>2. CASE j \notin C /\ j \in GivenUp
      <3>1. status'[j] = "failed"
        BY <1>1, <2>2, TickJob DEF GivenUp
      <3> QED
        BY <2>2, <3>1 DEF OutcomeOf
    <2>3. CASE j \notin C /\ j \notin GivenUp
      <3>1. status'[j] = status[j] \/ (status'[j] = "queued" /\ status[j] = "rendering")
        BY <1>1, <2>3, TickJob DEF Lapsed
      <3> QED
        BY <2>3, <3>1 DEF OutcomeOf
    <2> QED
      BY <2>1, <2>2, <2>3
  <1>7. attempts' = [j \in Job |-> IF j \in C THEN attempts[j] + 1 ELSE attempts[j]]
    BY <1>1 DEF TickRows
  <1>8. UNCHANGED winner
    BY DEF Tick
  <1>9. Once!Settle(GivenUp, C)
    BY <1>2, <1>3, <1>4, <1>5, <1>6, <1>7, <1>8 DEF Once!Settle
  <1> QED
    BY <1>2, <1>9 DEF Once!Next

LEMMA AttachOnce ==
  ASSUME LeasedInv, NEW c \in claims, Attach(c)
  PROVE  Once!Next
  <1>1. /\ c.job \in Job /\ status[c.job] = "rendering"
        /\ c.attempt = attempts[c.job] /\ attempts[c.job] > 0
    BY OwnerIsNewest DEF Attach
  <1>2. /\ status \in [Job -> {"none", "queued", "rendering", "attached", "failed"}]
        /\ status' = [status EXCEPT ![c.job] = "attached"]
        /\ winner' = [winner EXCEPT ![c.job] = attempts[c.job]] /\ attempts' = attempts
    BY <1>1 DEF Attach, LeasedInv, LeasedTypeOK
  <1>3. \A j \in Job : OutcomeOf(j)' = IF j = c.job THEN "applied" ELSE OutcomeOf(j)
    BY <1>1, <1>2 DEF OutcomeOf
  <1>4. OutcomeOf(c.job) = "open"
    BY <1>1 DEF OutcomeOf
  <1>5. Once!Apply(c.job)
    BY <1>1, <1>2, <1>3, <1>4 DEF Once!Apply
  <1> QED
    BY <1>1, <1>5 DEF Once!Next

LEMMA FailsOnce ==
  ASSUME LeasedInv, NEW c \in claims, RenderFails(c)
  PROVE  [Once!Next]_(Once!jobVars)
  <1>1. c.job \in Job /\ status[c.job] = "rendering" /\ attempts[c.job] > 0
    BY OwnerIsNewest DEF RenderFails
  <1>2. /\ status \in [Job -> {"none", "queued", "rendering", "attached", "failed"}]
        /\ attempts \in [Job -> Nat] /\ attempts' = attempts /\ winner' = winner
    BY DEF RenderFails, LeasedInv, LeasedTypeOK
  <1>3. CASE IsTerminal(c.attempt)
    <2>1. \A j \in Job : OutcomeOf(j)' = IF j \in {c.job} THEN "failed" ELSE OutcomeOf(j)
      BY <1>1, <1>2, <1>3 DEF RenderFails, OutcomeOf
    <2>2. OutcomeOf(c.job) = "open"
      BY <1>1 DEF OutcomeOf
    <2>3. attempts' = [j \in Job |-> IF j \in {} THEN attempts[j] + 1 ELSE attempts[j]]
      BY <1>2
    <2>4. Once!Settle({c.job}, {})
      BY <1>1, <1>2, <2>1, <2>2, <2>3 DEF Once!Settle
    <2> QED
      BY <1>1, <2>4 DEF Once!Next
  <1>4. CASE ~IsTerminal(c.attempt)
    <2>1. \A j \in Job : OutcomeOf(j)' = OutcomeOf(j)
      BY <1>1, <1>2, <1>4 DEF RenderFails, OutcomeOf
    <2> QED
      BY <1>2, <2>1 DEF Once!jobVars
  <1> QED
    BY <1>3, <1>4

LEMMA OnceStep ==
  ASSUME LeasedInv, [LeasedNext]_leasedVars
  PROVE  [Once!Next]_(Once!jobVars)
  <1>1. ASSUME NEW j \in Job, Enqueue(j) PROVE UNCHANGED Once!jobVars
    <2>1. \A k \in Job : OutcomeOf(k)' = OutcomeOf(k)
      BY <1>1 DEF Enqueue, OutcomeOf, LeasedInv, LeasedTypeOK
    <2> QED
      BY <1>1, <2>1 DEF Enqueue, Once!jobVars
  <1>2. ASSUME NEW j \in Job, Lapse(j) \/ BackoffEnds(j) PROVE UNCHANGED Once!jobVars
    BY <1>2, OnceStutter DEF Lapse, BackoffEnds
  <1>3. ASSUME NEW w \in Worker, Tick(w) PROVE Once!Next
    BY <1>3, TickOnce
  <1>4. ASSUME NEW c \in claims, Attach(c) \/ RenderFails(c) \/ Superseded(c)
        PROVE  [Once!Next]_(Once!jobVars)
    <2>1. CASE Superseded(c)
      BY <2>1, OnceStutter DEF Superseded
    <2> QED
      BY <1>4, <2>1, AttachOnce, FailsOnce
  <1>5. ASSUME (\E w \in Worker : Die(w)) \/ UNCHANGED leasedVars PROVE UNCHANGED Once!jobVars
    BY <1>5, OnceStutter DEF Die, leasedVars
  <1> QED
    BY <1>1, <1>2, <1>3, <1>4, <1>5 DEF LeasedNext, Finish

\* The leased jobs implement JobOnce: a job ends once, within its attempts, and
\* a worker whose lease lapsed neither attaches nor fails what its successor
\* holds (worker_tick, render_one, complete_and_attach).
THEOREM LeasedJobsEndOnce == LeasedSpec => JobsEndOnce
  BY OnceInit, OnceStep, LeasedInvCorrect, PTL DEF LeasedSpec, JobsEndOnce, Once!Spec
=============================================================================
