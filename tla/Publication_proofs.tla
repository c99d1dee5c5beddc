-------------------------- MODULE Publication_proofs -------------------------
(***************************************************************************)
(* Proofs about the publication saga, for any number of drafts, executors, *)
(* crashes and commands.  The invariant ties what an executor is about to  *)
(* write to what the draft already has: the stage it read is not ahead of  *)
(* the draft's, and before it advances a stage the stage's effect is made. *)
(***************************************************************************)
EXTENDS Publication, TLAPS

Stages == {"unclaimed", "claimed", "seeded", "live", "jobs_enqueued", "published"}

Effect == [seeded : {0, 1}, question : {0, 1}, live : {0, 1}, jobs : {0, 1}, event : {0, 1}]

Shape ==
    /\ DOMAIN draft = Draft
    /\ \A d \in Draft : /\ DOMAIN draft[d] = {"status", "stage", "slot", "expires", "seed"}
                        /\ draft[d].stage \in Stages
    /\ made \in [Draft -> Effect]
    /\ DOMAIN exec = Executor
    /\ \A e \in Executor : DOMAIN exec[e] = {"draft", "pc", "stage", "no"}

\* SagaSound, of one draft.
Sound(d) ==
    /\ RankOf(draft[d].stage) >= 3 => made[d].seeded = 1 /\ made[d].question = 1
    /\ RankOf(draft[d].stage) >= 4 => made[d].live = 1
    /\ RankOf(draft[d].stage) >= 5 => made[d].jobs = 1
    /\ (draft[d].status = "published") <=> (RankOf(draft[d].stage) = 6)
    /\ (RankOf(draft[d].stage) = 6) <=> (made[d].event = 1)

\* What an executor that is at work knows of its draft.
Works(x) ==
    /\ x.pc \in {"idle", "resume", "act", "question", "advance", "settle"}
    /\ x.pc # "idle" => x.draft \in Draft
    /\ x.pc \in {"act", "question", "advance"} => x.stage \in {"claimed", "seeded", "live", "jobs_enqueued"}
    /\ x.pc \in {"act", "question", "advance"} => RankOf(draft[x.draft].stage) >= RankOf(x.stage)
    /\ x.pc = "question" => x.stage = "claimed" /\ made[x.draft].seeded = 1
    /\ x.pc = "advance" =>
        \/ x.stage = "claimed" /\ made[x.draft].seeded = 1 /\ made[x.draft].question = 1
        \/ x.stage = "seeded" /\ made[x.draft].live = 1
        \/ x.stage = "live" /\ made[x.draft].jobs = 1

SagaInv == Shape /\ (\A d \in Draft : Sound(d)) /\ (\A e \in Executor : Works(exec[e]))

\* No stage goes back and no effect is undone.
Forward ==
    \A d \in Draft :
        /\ RankOf(draft'[d].stage) >= RankOf(draft[d].stage)
        /\ made[d].seeded = 1 => made'[d].seeded = 1
        /\ made[d].question = 1 => made'[d].question = 1
        /\ made[d].live = 1 => made'[d].live = 1
        /\ made[d].jobs = 1 => made'[d].jobs = 1

-----------------------------------------------------------------------------
LEMMA Ranks ==
  /\ RankOf("unclaimed") = 1 /\ RankOf("claimed") = 2 /\ RankOf("seeded") = 3
  /\ RankOf("live") = 4 /\ RankOf("jobs_enqueued") = 5 /\ RankOf("published") = 6
  /\ Stage[3] = "seeded" /\ Stage[4] = "live" /\ Stage[5] = "jobs_enqueued"
  /\ \A s \in Stages : RankOf(s) \in 1..6
  <1>1. RankOf("unclaimed") = 1 /\ RankOf("claimed") = 2 /\ RankOf("seeded") = 3
    BY DEF RankOf, Stage
  <1>2. RankOf("live") = 4 /\ RankOf("jobs_enqueued") = 5 /\ RankOf("published") = 6
    BY DEF RankOf, Stage
  <1>3. Stage[3] = "seeded" /\ Stage[4] = "live" /\ Stage[5] = "jobs_enqueued"
    BY DEF Stage
  <1> QED
    BY <1>1, <1>2, <1>3 DEF Stages

\* A draft and an executor a step leaves alone keep what they have.
LEMMA Kept ==
  ASSUME SagaInv, Forward, Shape'
  PROVE  /\ \A e \in Executor : exec'[e] = exec[e] => Works(exec[e])'
         /\ \A d \in Draft : draft'[d].stage = draft[d].stage /\ draft'[d].status = draft[d].status
                             /\ made'[d] = made[d] => Sound(d)'
  <1>1. ASSUME NEW e \in Executor, exec'[e] = exec[e] PROVE Works(exec[e])'
    <2>1. Works(exec[e])
      BY DEF SagaInv
    <2>2. ASSUME exec[e].pc \in {"act", "question", "advance"}
          PROVE  RankOf(draft'[exec[e].draft].stage) >= RankOf(exec[e].stage)
      <3>1. exec[e].draft \in Draft /\ exec[e].stage \in Stages
        BY <2>1, <2>2 DEF Works, Stages
      <3>2. /\ RankOf(exec[e].stage) \in Nat /\ RankOf(draft[exec[e].draft].stage) \in Nat
            /\ RankOf(draft'[exec[e].draft].stage) \in Nat
        BY <3>1, Ranks DEF SagaInv, Shape
      <3> QED
        BY <2>1, <2>2, <3>1, <3>2, SMTT(90) DEF Works, Forward
    <2> QED
      BY <1>1, <2>1, <2>2 DEF Works, Forward
  <1>2. ASSUME NEW d \in Draft, draft'[d].stage = draft[d].stage, draft'[d].status = draft[d].status,
               made'[d] = made[d]
        PROVE  Sound(d)'
    BY <1>2 DEF SagaInv, Sound
  <1> QED
    BY <1>1, <1>2

\* Steps that touch neither stages, nor publication, nor effects.
LEMMA ReviewInv ==
  ASSUME SagaInv, UNCHANGED <<made, exec>>, DOMAIN draft' = Draft,
         \A d \in Draft : /\ DOMAIN draft'[d] = {"status", "stage", "slot", "expires", "seed"}
                          /\ draft'[d].stage = draft[d].stage
                          /\ (draft'[d].status = "published") <=> (draft[d].status = "published")
  PROVE  SagaInv' /\ Forward
  <1>1. Shape'
    BY DEF SagaInv, Shape
  <1>2. Forward
    BY Ranks DEF SagaInv, Shape, Forward
  <1>3. \A d \in Draft : Sound(d)'
    BY DEF SagaInv, Sound
  <1> QED
    BY <1>1, <1>2, <1>3, Kept DEF SagaInv

LEMMA ReviewSteps ==
  ASSUME SagaInv, ReviewNext
  PROVE  SagaInv' /\ Forward
  <1>0. /\ DOMAIN draft = Draft
        /\ \A d \in Draft : DOMAIN draft[d] = {"status", "stage", "slot", "expires", "seed"}
    BY DEF SagaInv, Shape
  <1>1. ASSUME NEW d \in Draft, CreateDraft(d) PROVE SagaInv' /\ Forward
    <2>1. PICK s \in SeedChoice :
            draft' = [draft EXCEPT ![d] = [NoDraft EXCEPT !.status = "pending", !.seed = s,
                                                          !.expires = hour + DraftLife]]
      BY <1>1 DEF CreateDraft
    <2>2. draft[d] = NoDraft /\ UNCHANGED <<made, exec>>
      BY <1>1 DEF CreateDraft
    <2>3. /\ DOMAIN draft'[d] = {"status", "stage", "slot", "expires", "seed"}
          /\ draft'[d].stage = draft[d].stage /\ draft'[d].status # "published" /\ draft[d].status # "published"
      BY <1>0, <2>1, <2>2 DEF NoDraft, None
    <2>4. DOMAIN draft' = Draft /\ \A x \in Draft \ {d} : draft'[x] = draft[x]
      BY <1>0, <2>1
    <2> QED
      BY <1>0, <2>2, <2>3, <2>4, ReviewInv
  <1>2. ASSUME NEW d \in Draft, EditDraft(d) PROVE SagaInv' /\ Forward
    <2>1. PICK s : draft' = [draft EXCEPT ![d].seed = s]
      BY <1>2 DEF EditDraft
    <2>2. UNCHANGED <<made, exec>>
      BY <1>2 DEF EditDraft
    <2> QED
      BY <1>0, <2>1, <2>2, ReviewInv
  <1>3. ASSUME NEW d \in Draft, RejectDraft(d) \/ ExpireDraft(d) PROVE SagaInv' /\ Forward
    <2>1. /\ draft[d].status = "pending"
          /\ \E s \in {"rejected", "expired"} : draft' = [draft EXCEPT ![d].status = s]
          /\ UNCHANGED <<made, exec>>
      BY <1>3 DEF RejectDraft, ExpireDraft, Fresh
    <2> QED
      BY <1>0, <2>1, ReviewInv
  <1>4. ASSUME NEW d \in Draft, ApproveDraft(d) PROVE SagaInv' /\ Forward
    <2>1. PICK s : draft' = [draft EXCEPT ![d].status = "approved", ![d].slot = s]
      BY <1>4 DEF ApproveDraft
    <2>2. draft[d].status = "pending" /\ UNCHANGED <<made, exec>>
      BY <1>4 DEF ApproveDraft, Fresh
    <2> QED
      BY <1>0, <2>1, <2>2, ReviewInv
  <1>5. ASSUME PassHour \/ \E d \in Draft : PublishNow(d) PROVE SagaInv' /\ Forward
    <2>1. UNCHANGED <<draft, made, exec>>
      BY <1>5 DEF PassHour, PublishNow
    <2> QED
      BY <1>0, <2>1, ReviewInv
  <1> QED
    BY <1>1, <1>2, <1>3, <1>4, <1>5 DEF ReviewNext

-----------------------------------------------------------------------------
(* The saga *)

ExecShape(x) == DOMAIN x = {"draft", "pc", "stage", "no"}

\* One executor moves; drafts and effects only go forward.
LEMMA Moves ==
  ASSUME SagaInv, NEW e \in Executor, NEW x, exec' = [exec EXCEPT ![e] = x], ExecShape(x), Works(x)',
         Forward, DOMAIN draft' = Draft,
         \A d \in Draft : /\ DOMAIN draft'[d] = {"status", "stage", "slot", "expires", "seed"}
                          /\ draft'[d].stage \in Stages /\ Sound(d)',
         made' \in [Draft -> Effect]
  PROVE  SagaInv'
  <1>1. exec'[e] = x /\ DOMAIN exec' = Executor /\ \A f \in Executor \ {e} : exec'[f] = exec[f]
    BY DEF SagaInv, Shape
  <1>2. Shape'
    BY <1>1 DEF SagaInv, Shape, ExecShape
  <1>3. \A f \in Executor : Works(exec[f])'
    <2>1. ASSUME NEW f \in Executor, f # e PROVE Works(exec[f])'
      BY <1>1, <1>2, <2>1, Kept
    <2>2. Works(exec[e])'
      BY <1>1 DEF Works
    <2> QED
      BY <2>1, <2>2
  <1> QED
    BY <1>2, <1>3 DEF SagaInv

\* The executor alone moves.
LEMMA MovesAlone ==
  ASSUME SagaInv, NEW e \in Executor, NEW x, exec' = [exec EXCEPT ![e] = x], ExecShape(x), Works(x),
         UNCHANGED <<draft, made>>
  PROVE  SagaInv' /\ Forward
  <1>1. Forward
    BY Ranks DEF SagaInv, Shape, Forward
  <1>2. Works(x)' /\ \A d \in Draft : Sound(d)'
    BY DEF Works, SagaInv, Sound
  <1> QED
    BY <1>1, <1>2, Moves DEF SagaInv, Shape

LEMMA StartInv ==
  ASSUME SagaInv, NEW e \in Executor, NEW d \in Draft, StartDue(e, d) \/ StartCommand(e, d)
  PROVE  SagaInv' /\ Forward
  <1>1. PICK n : StartSaga(e, d, n)
    BY DEF StartDue, StartCommand
  <1> DEFINE x == [draft |-> d, pc |-> "resume", stage |-> "unclaimed", no |-> n]
  <1>2. exec' = [exec EXCEPT ![e] = x] /\ UNCHANGED <<draft, made>>
    BY <1>1 DEF StartSaga, StartDue, StartCommand
  <1>3. ExecShape(x) /\ Works(x)
    BY DEF ExecShape, Works
  <1> HIDE DEF x
  <1> QED
    BY <1>2, <1>3, MovesAlone

LEMMA StopInv ==
  ASSUME SagaInv, NEW e \in Executor, SettleDone(e) \/ SeedRefused(e) \/ SagaFails(e) \/ ExecutorDies(e)
  PROVE  SagaInv' /\ Forward
  <1>1. exec' = [exec EXCEPT ![e] = IdleExec] /\ UNCHANGED <<draft, made>>
    BY DEF SettleDone, SeedRefused, SagaFails, ExecutorDies
  <1>2. ExecShape(IdleExec) /\ Works(IdleExec)
    BY DEF ExecShape, Works, IdleExec
  <1> QED
    BY <1>1, <1>2, MovesAlone

LEMMA ResumeInv ==
  ASSUME SagaInv, NEW e \in Executor, Resume(e)
  PROVE  SagaInv' /\ Forward
  <1> DEFINE d == exec[e].draft
  <1>0. /\ ExecShape(exec[e]) /\ exec[e].pc = "resume" /\ d \in Draft /\ made' = made
        /\ Sound(d) /\ draft[d].stage \in Stages
        /\ DOMAIN draft[d] = {"status", "stage", "slot", "expires", "seed"}
    BY DEF Resume, SagaInv, Shape, ExecShape, Works
  <1>1. CASE draft' = draft /\ exec' = [exec EXCEPT ![e] = [exec[e] EXCEPT !.pc = "settle"]]
    <2> DEFINE x == [exec[e] EXCEPT !.pc = "settle"]
    <2>1. ExecShape(x) /\ Works(x)
      BY <1>0 DEF ExecShape, Works
    <2> HIDE DEF x
    <2> QED
      BY <1>0, <1>1, <2>1, MovesAlone DEF x
  <1>2. CASE /\ draft[d].stage = "unclaimed"
             /\ draft' = [draft EXCEPT ![d] = [draft[d] EXCEPT !.stage = "claimed"]]
             /\ exec' = exec
    <2>1. /\ draft'[d].stage = "claimed" /\ draft'[d].status = draft[d].status
          /\ DOMAIN draft'[d] = {"status", "stage", "slot", "expires", "seed"}
          /\ DOMAIN draft' = Draft /\ \A y \in Draft \ {d} : draft'[y] = draft[y]
      BY <1>0, <1>2 DEF SagaInv, Shape
    <2>2. Shape'
      BY <1>0, <1>2, <2>1 DEF SagaInv, Shape, Stages
    <2>3. Forward
      BY <1>0, <1>2, <2>1, Ranks DEF SagaInv, Shape, Forward
    <2>4. Sound(d)'
      BY <1>0, <1>2, <2>1, Ranks, SMTT(90) DEF Sound
    <2> QED
      BY <1>0, <1>2, <2>1, <2>2, <2>3, <2>4, Kept DEF SagaInv
  <1>3. CASE /\ draft[d].status = "approved" /\ draft[d].stage # "unclaimed" /\ draft' = draft
             /\ exec' = [exec EXCEPT ![e] = [exec[e] EXCEPT !.pc = "act", !.stage = draft[d].stage]]
    <2> DEFINE x == [exec[e] EXCEPT !.pc = "act", !.stage = draft[d].stage]
    <2>1. ExecShape(x) /\ x.pc = "act" /\ x.draft = d /\ x.stage = draft[d].stage
      BY <1>0 DEF ExecShape
    <2>2. draft[d].stage \in {"claimed", "seeded", "live", "jobs_enqueued"}
      BY <1>0, <1>3, Ranks DEF Sound, Stages
    <2>3. RankOf(draft[d].stage) \in Nat
      BY <1>0, Ranks
    <2> HIDE DEF x
    <2>4. Works(x)
      BY <1>0, <2>1, <2>2, <2>3, SMTT(90) DEF Works
    <2> QED
      BY <1>0, <1>3, <2>1, <2>4, MovesAlone DEF x
  <1> QED
    BY <1>1, <1>2, <1>3 DEF Resume, Goto

\* An effect of the executor's draft is made and the executor goes on.
LEMMA EffectInv ==
  ASSUME SagaInv, NEW e \in Executor, NEW x, exec' = [exec EXCEPT ![e] = x], ExecShape(x), Works(x)',
         NEW d \in Draft, NEW m \in Effect, made' = [made EXCEPT ![d] = m], UNCHANGED draft,
         made[d].seeded = 1 => m.seeded = 1,
         made[d].question = 1 => m.question = 1,
         made[d].live = 1 => m.live = 1,
         made[d].jobs = 1 => m.jobs = 1,
         m.event = made[d].event
  PROVE  SagaInv' /\ Forward
  <1>1. made'[d] = m /\ \A y \in Draft \ {d} : made'[y] = made[y]
    BY DEF SagaInv, Shape
  <1>2. Forward
    BY <1>1, Ranks DEF SagaInv, Shape, Forward
  <1>3. \A y \in Draft : Sound(y)'
    BY <1>1 DEF SagaInv, Sound
  <1>4. made' \in [Draft -> Effect]
    BY DEF SagaInv, Shape
  <1> QED
    BY <1>2, <1>3, <1>4, Moves DEF SagaInv, Shape

\* The key draft:<id>:seed replays, so the market is seeded once.
LEMMA SeedInv ==
  ASSUME SagaInv, NEW e \in Executor, SeedMarket(e)
  PROVE  SagaInv' /\ Forward
  <1>0. PICK d, m, x :
          /\ d = exec[e].draft
          /\ m = [made[d] EXCEPT !.seeded = IF made[d].seeded = 0 THEN 1 ELSE made[d].seeded]
          /\ x = [exec[e] EXCEPT !.pc = "question"]
    OBVIOUS
  <1>1. /\ ExecShape(exec[e]) /\ exec[e].pc = "act" /\ exec[e].stage = "claimed" /\ d \in Draft /\ Works(exec[e])
        /\ made[d] \in Effect
    BY <1>0 DEF SeedMarket, Acting, SagaInv, Shape, ExecShape, Works
  <1>2. made' = [made EXCEPT ![d] = m] /\ exec' = [exec EXCEPT ![e] = x] /\ UNCHANGED draft
    BY <1>0 DEF SeedMarket, Goto, SeedOnce
  <1>3. m \in Effect
    BY <1>0, <1>1 DEF Effect
  <1>4. /\ made[d].seeded = 1 => m.seeded = 1
        /\ made[d].question = 1 => m.question = 1
        /\ made[d].live = 1 => m.live = 1
        /\ made[d].jobs = 1 => m.jobs = 1
        /\ m.event = made[d].event
        /\ m.seeded = 1
    BY <1>0, <1>1 DEF Effect
  <1>5. ExecShape(x) /\ x.pc = "question" /\ x.draft = d /\ x.stage = exec[e].stage
    BY <1>0, <1>1 DEF ExecShape
  <1>6. made'[d] = m
    BY <1>1, <1>2 DEF SagaInv, Shape
  <1>7. Works(x)'
    BY <1>0, <1>1, <1>2, <1>4, <1>5, <1>6, ZenonT(90) DEF Works
  <1> QED
    BY <1>1, <1>2, <1>3, <1>4, <1>5, <1>7, EffectInv

\* The question is written before the stage is advanced.
LEMMA QuestionInv ==
  ASSUME SagaInv, NEW e \in Executor, SetQuestion(e)
  PROVE  SagaInv' /\ Forward
  <1>0. PICK d, m, x :
          /\ d = exec[e].draft
          /\ m = [made[d] EXCEPT !.question = 1]
          /\ x = [exec[e] EXCEPT !.pc = "advance"]
    OBVIOUS
  <1>1. /\ ExecShape(exec[e]) /\ exec[e].pc = "question" /\ d \in Draft /\ Works(exec[e])
        /\ made[d] \in Effect
    BY <1>0 DEF SetQuestion, Acting, SagaInv, Shape, ExecShape, Works
  <1>2. made' = [made EXCEPT ![d] = m] /\ exec' = [exec EXCEPT ![e] = x] /\ UNCHANGED draft
    BY <1>0 DEF SetQuestion, Goto
  <1>3. m \in Effect
    BY <1>0, <1>1 DEF Effect
  <1>4. /\ made[d].seeded = 1 => m.seeded = 1
        /\ made[d].question = 1 => m.question = 1
        /\ made[d].live = 1 => m.live = 1
        /\ made[d].jobs = 1 => m.jobs = 1
        /\ m.event = made[d].event
        /\ m.seeded = 1 /\ m.question = 1
    BY <1>0, <1>1 DEF Works, Effect
  <1>5. ExecShape(x) /\ x.pc = "advance" /\ x.draft = d /\ x.stage = exec[e].stage
    BY <1>0, <1>1 DEF ExecShape
  <1>6. made'[d] = m
    BY <1>1, <1>2 DEF SagaInv, Shape
  <1>7. Works(x)'
    BY <1>0, <1>1, <1>2, <1>4, <1>5, <1>6, ZenonT(90) DEF Works
  <1> QED
    BY <1>1, <1>2, <1>3, <1>4, <1>5, <1>7, EffectInv

\* The key draft:<id>:golive replays.
LEMMA GoLiveInv ==
  ASSUME SagaInv, NEW e \in Executor, GoLive(e)
  PROVE  SagaInv' /\ Forward
  <1>0. PICK d, m, x :
          /\ d = exec[e].draft
          /\ m = [made[d] EXCEPT !.live = IF made[d].live = 0 THEN 1 ELSE made[d].live]
          /\ x = [exec[e] EXCEPT !.pc = "advance"]
    OBVIOUS
  <1>1. /\ ExecShape(exec[e]) /\ exec[e].pc = "act" /\ exec[e].stage = "seeded" /\ d \in Draft /\ Works(exec[e])
        /\ made[d] \in Effect
    BY <1>0 DEF GoLive, Acting, SagaInv, Shape, ExecShape, Works
  <1>2. made' = [made EXCEPT ![d] = m] /\ exec' = [exec EXCEPT ![e] = x] /\ UNCHANGED draft
    BY <1>0 DEF GoLive, Goto
  <1>3. m \in Effect
    BY <1>0, <1>1 DEF Effect
  <1>4. /\ made[d].seeded = 1 => m.seeded = 1
        /\ made[d].question = 1 => m.question = 1
        /\ made[d].live = 1 => m.live = 1
        /\ made[d].jobs = 1 => m.jobs = 1
        /\ m.event = made[d].event
        /\ m.live = 1
    BY <1>0, <1>1 DEF Effect
  <1>5. ExecShape(x) /\ x.pc = "advance" /\ x.draft = d /\ x.stage = exec[e].stage
    BY <1>0, <1>1 DEF ExecShape
  <1>6. made'[d] = m
    BY <1>1, <1>2 DEF SagaInv, Shape
  <1>7. Works(x)'
    BY <1>0, <1>1, <1>2, <1>4, <1>5, <1>6, ZenonT(90) DEF Works
  <1> QED
    BY <1>1, <1>2, <1>3, <1>4, <1>5, <1>7, EffectInv

\* An executor that finds the draft past "live" inserts nothing: the jobs are there.
LEMMA EnqueueInv ==
  ASSUME SagaInv, NEW e \in Executor, EnqueueJobs(e)
  PROVE  SagaInv' /\ Forward
  <1>0. PICK d, m, x :
          /\ d = exec[e].draft
          /\ m = [made[d] EXCEPT !.jobs = 1]
          /\ x = [exec[e] EXCEPT !.pc = "advance"]
    OBVIOUS
  <1>1. /\ ExecShape(exec[e]) /\ exec[e].pc = "act" /\ exec[e].stage = "live"
        /\ d \in Draft /\ Works(exec[e]) /\ Sound(d) /\ draft[d].stage \in Stages
        /\ made \in [Draft -> Effect]
    BY <1>0 DEF EnqueueJobs, Acting, SagaInv, Shape, ExecShape, Works
  <1>2. RankOf(draft[d].stage) >= 4 /\ RankOf(draft[d].stage) \in 1..6
    BY <1>0, <1>1, Ranks DEF Works
  <1>3. draft[d].stage = "live" \/ made[d].jobs = 1
    BY <1>1, <1>2, Ranks DEF Sound, Stages
  <1>4. exec' = [exec EXCEPT ![e] = x] /\ UNCHANGED draft /\ made' = [made EXCEPT ![d] = m]
    <2>1. made' = IF draft[d].stage = "live" /\ made[d].jobs = 0 THEN [made EXCEPT ![d] = m] ELSE made
      BY <1>0 DEF EnqueueJobs
    <2>2. made[d].jobs \in {0, 1} /\ (made[d].jobs = 1 => m = made[d])
      BY <1>0, <1>1 DEF Effect
    <2>3. made[d].jobs = 1 => made = [made EXCEPT ![d] = m]
      BY <1>1, <2>2
    <2> QED
      BY <1>0, <1>3, <2>1, <2>2, <2>3 DEF EnqueueJobs, Goto
  <1>5. /\ m \in Effect
        /\ m.seeded = made[d].seeded /\ m.question = made[d].question /\ m.live = made[d].live
        /\ m.jobs = 1 /\ m.event = made[d].event
    BY <1>0, <1>1, SMTT(90) DEF Effect
  <1>6. ExecShape(x) /\ x.pc = "advance" /\ x.draft = d /\ x.stage = "live"
    BY <1>0, <1>1 DEF ExecShape
  <1>7. made'[d] = m
    BY <1>1, <1>4
  <1>8. Works(x)'
    BY <1>0, <1>1, <1>4, <1>5, <1>6, <1>7 DEF Works
  <1> QED
    BY <1>1, <1>4, <1>5, <1>6, <1>8, EffectInv

\* advance_stage: from the stage the executor read, whose effect is made, or not at all.
LEMMA AdvanceInv ==
  ASSUME SagaInv, NEW e \in Executor, AdvanceStage(e)
  PROVE  SagaInv' /\ Forward
  <1>0. PICK d, x :
          /\ d = exec[e].draft
          /\ x = [exec[e] EXCEPT !.pc = "resume"]
    OBVIOUS
  <1>1. /\ ExecShape(exec[e]) /\ exec[e].pc = "advance" /\ d \in Draft /\ Works(exec[e])
        /\ Sound(d) /\ draft[d].stage \in Stages
        /\ DOMAIN draft[d] = {"status", "stage", "slot", "expires", "seed"}
    BY <1>0 DEF AdvanceStage, SagaInv, Shape, ExecShape, Works
  <1>2. exec' = [exec EXCEPT ![e] = x] /\ made' = made
    BY <1>0 DEF AdvanceStage, Goto
  <1>3. ExecShape(x) /\ x.pc = "resume" /\ x.draft = d
    BY <1>0, <1>1 DEF ExecShape
  <1>4. Works(x) /\ Works(x)'
    BY <1>0, <1>1, <1>3 DEF Works
  <1>5. CASE draft[d].stage # exec[e].stage
    BY <1>0, <1>2, <1>3, <1>4, <1>5, MovesAlone DEF AdvanceStage
  <1>6. CASE draft[d].stage = exec[e].stage
    <2> DEFINE s == Stage[RankOf(draft[d].stage) + 1]
    <2>1. draft' = [draft EXCEPT ![d] = [draft[d] EXCEPT !.stage = s]]
      BY <1>0, <1>6 DEF AdvanceStage
    <2>2. \/ draft[d].stage = "claimed" /\ s = "seeded" /\ made[d].seeded = 1 /\ made[d].question = 1
          \/ draft[d].stage = "seeded" /\ s = "live" /\ made[d].live = 1
          \/ draft[d].stage = "live" /\ s = "jobs_enqueued" /\ made[d].jobs = 1
      BY <1>0, <1>1, <1>6, Ranks, SMTT(90) DEF Works
    <2> HIDE DEF s
    <2>3. /\ draft'[d].stage = s /\ draft'[d].status = draft[d].status
          /\ DOMAIN draft'[d] = {"status", "stage", "slot", "expires", "seed"}
          /\ DOMAIN draft' = Draft /\ \A y \in Draft \ {d} : draft'[y] = draft[y]
      BY <1>1, <2>1 DEF SagaInv, Shape
    <2>4. Forward
      BY <1>2, <2>2, <2>3, Ranks, SMTT(90) DEF SagaInv, Shape, Forward
    <2>5. Sound(d)'
      BY <1>1, <1>2, <2>2, <2>3, Ranks, SMTT(90) DEF Sound
    <2>6. \A y \in Draft \ {d} : Sound(y)'
      BY <1>2, <2>3, SMTT(90) DEF SagaInv, Sound
    <2>7. \A y \in Draft : /\ DOMAIN draft'[y] = {"status", "stage", "slot", "expires", "seed"}
                           /\ draft'[y].stage \in Stages
      BY <2>2, <2>3, SMTT(90) DEF SagaInv, Shape, Stages
    <2> QED
      BY <1>2, <1>3, <1>4, <2>3, <2>4, <2>5, <2>6, <2>7, Moves DEF SagaInv, Shape
  <1> QED
    BY <1>5, <1>6

\* finish: the event and the published stage in one transaction, once.
LEMMA FinishInv ==
  ASSUME SagaInv, NEW e \in Executor, FinishDraft(e)
  PROVE  SagaInv' /\ Forward
  <1>0. PICK d, x :
          /\ d = exec[e].draft
          /\ x = [exec[e] EXCEPT !.pc = "resume"]
    OBVIOUS
  <1>1. /\ ExecShape(exec[e]) /\ exec[e].pc = "act" /\ d \in Draft
        /\ Sound(d) /\ DOMAIN draft[d] = {"status", "stage", "slot", "expires", "seed"}
        /\ made \in [Draft -> Effect]
    BY <1>0 DEF FinishDraft, Acting, SagaInv, Shape, ExecShape, Works
  <1>2. exec' = [exec EXCEPT ![e] = x]
    BY <1>0 DEF FinishDraft, Goto
  <1>3. ExecShape(x) /\ x.pc = "resume" /\ x.draft = d
    BY <1>0, <1>1 DEF ExecShape
  <1>4. Works(x) /\ Works(x)'
    BY <1>0, <1>1, <1>3 DEF Works
  <1>5. CASE draft[d].stage # "jobs_enqueued"
    BY <1>0, <1>2, <1>3, <1>4, <1>5, MovesAlone DEF FinishDraft
  <1>6. CASE draft[d].stage = "jobs_enqueued"
    <2>1. /\ draft' = [draft EXCEPT ![d] = [draft[d] EXCEPT !.status = "published", !.stage = "published"]]
          /\ made' = [made EXCEPT ![d] = [made[d] EXCEPT !.event = made[d].event + 1]]
      BY <1>0, <1>6 DEF FinishDraft
    <2>2. /\ made[d].seeded = 1 /\ made[d].question = 1 /\ made[d].live = 1 /\ made[d].jobs = 1
          /\ made[d].event = 0
      <3>1. RankOf(draft[d].stage) = 5 /\ made[d].event \in {0, 1}
        BY <1>1, <1>6, Ranks DEF Effect
      <3> QED
        BY <1>1, <3>1, SMTT(90) DEF Sound
    <2>3. /\ draft'[d].stage = "published" /\ draft'[d].status = "published"
          /\ DOMAIN draft'[d] = {"status", "stage", "slot", "expires", "seed"}
          /\ DOMAIN draft' = Draft /\ \A y \in Draft \ {d} : draft'[y] = draft[y]
      BY <1>1, <2>1 DEF SagaInv, Shape
    <2>4. /\ made' \in [Draft -> Effect]
          /\ made'[d] = [made[d] EXCEPT !.event = 1] /\ \A y \in Draft \ {d} : made'[y] = made[y]
      BY <1>1, <2>1, <2>2 DEF Effect
    <2>5. /\ made'[d].seeded = 1 /\ made'[d].question = 1 /\ made'[d].live = 1 /\ made'[d].jobs = 1
          /\ made'[d].event = 1
      BY <1>1, <2>2, <2>4 DEF Effect
    <2>6. Forward
      <3>1. RankOf(draft'[d].stage) >= RankOf(draft[d].stage)
        BY <1>6, <2>3, Ranks, SMTT(90)
      <3>2. \A y \in Draft \ {d} : RankOf(draft'[y].stage) >= RankOf(draft[y].stage)
        BY <2>3, Ranks, SMTT(90) DEF SagaInv, Shape
      <3> QED
        BY <2>4, <2>5, <3>1, <3>2 DEF Forward
    <2>7. Sound(d)'
      BY <2>3, <2>5, Ranks DEF Sound
    <2>8. \A y \in Draft \ {d} : Sound(y)'
      BY <2>3, <2>4 DEF SagaInv, Sound
    <2>9. \A y \in Draft : /\ DOMAIN draft'[y] = {"status", "stage", "slot", "expires", "seed"}
                           /\ draft'[y].stage \in Stages
      BY <2>3 DEF SagaInv, Shape, Stages
    <2> QED
      BY <1>2, <1>3, <1>4, <2>3, <2>4, <2>6, <2>7, <2>8, <2>9, Moves, ZenonT(90)
  <1> QED
    BY <1>5, <1>6

-----------------------------------------------------------------------------
LEMMA SagaInit == PublicationInit => SagaInv
  <1> SUFFICES ASSUME PublicationInit PROVE SagaInv
    OBVIOUS
  <1>1. Shape
    BY DEF PublicationInit, Shape, NoDraft, NoEffect, IdleExec, Stages, Effect
  <1>2. \A d \in Draft : Sound(d)
    BY Ranks, SMTT(90) DEF PublicationInit, Sound, NoDraft, NoEffect, None
  <1>3. \A e \in Executor : Works(exec[e])
    BY DEF PublicationInit, Works, IdleExec
  <1> QED
    BY <1>1, <1>2, <1>3 DEF SagaInv

LEMMA SagaSteps ==
  ASSUME SagaInv, [PublicationNext]_pubVars
  PROVE  SagaInv' /\ Forward
  <1>1. ASSUME UNCHANGED <<draft, made, exec>> PROVE SagaInv' /\ Forward
    BY <1>1, ReviewInv DEF SagaInv, Shape
  <1>2. ASSUME NEW d \in Draft, CommandLapses(d) PROVE SagaInv' /\ Forward
    BY <1>1, <1>2 DEF CommandLapses
  <1>3. CASE UNCHANGED pubVars
    BY <1>1, <1>3 DEF pubVars
  <1> QED
    BY <1>2, <1>3, ReviewSteps, StartInv, StopInv, ResumeInv, SeedInv, QuestionInv, GoLiveInv, EnqueueInv,
       AdvanceInv, FinishInv DEF PublicationNext, SagaNext, SagaStep

\* The inductive invariant of the saga holds in every reachable state
\* (publish_draft.rs, resume_once).
THEOREM SagaInvCorrect == PublicationSpec => []SagaInv
  BY SagaInit, SagaSteps, PTL DEF PublicationSpec

\* No stage is persisted before its effect, no effect happens twice and a
\* published draft has them all, with any number of executors and crashes
\* (publish_draft.rs).
THEOREM SagaSoundCorrect == PublicationSpec => []SagaSound
  <1>1. SagaInv => SagaSound
    BY DEF SagaInv, Shape, Sound, SagaSound, Effect
  <1> QED
    BY <1>1, SagaInvCorrect, PTL

\* A persisted stage never goes back, whatever stage a slow executor read
\* (advance_stage).
THEOREM StageForwardCorrect == PublicationSpec => StageForward
  <1>1. ASSUME SagaInv, [PublicationNext]_pubVars
        PROVE  \A d \in Draft : RankOf(draft'[d].stage) >= RankOf(draft[d].stage)
    BY <1>1, SagaSteps DEF Forward
  <1> QED
    BY <1>1, SagaInvCorrect, PTL DEF PublicationSpec, StageForward
=============================================================================
