----------------------------- MODULE Publication -----------------------------
(***************************************************************************)
(* Drafts and their publication: application/src/content over              *)
(* pg/content_tx.rs.  A curator approves a draft into a slot and a day's   *)
(* seed budget; the publisher tick of each process and publish-now         *)
(* commands run the one saga, which commits each stage on its own and is   *)
(* re-entered at the persisted stage after a crash.  Two executors may     *)
(* work on the same draft, each acting on the stage it read last.          *)
(***************************************************************************)
EXTENDS Naturals, FiniteSets, FiniteSetsExt

CONSTANTS
    Draft,
    TierOf,        \* draft -> its tier
    SeedChoice,    \* seeds a spec may ask for
    SeedFloor,     \* seed_floor_micro of the tier
    LpPaused,      \* the hours in which the window's LP loss is at its limit
    Executor,      \* publisher ticks that may run at the same time
    MaxPending,    \* max_pending_drafts
    SeedBudget,    \* daily_seed_budget_micro
    DayHours,      \* slots per day
    Horizon,       \* max_slot_horizon
    DraftLife,     \* draft_ttl
    MaxHour,       \* bound on the clock
    MaxCommands,   \* bound on the publish-now commands of a draft
    MaxStumbles    \* bound on crashes and saga errors

ASSUME PublicationAssumption ==
    /\ DayHours \in Nat \ {0} /\ Horizon \in Nat \ {0}
    /\ MaxHour \in Nat /\ MaxCommands \in Nat /\ MaxStumbles \in Nat
    /\ SeedBudget \in Nat /\ SeedFloor \in Nat /\ LpPaused \subseteq Nat

VARIABLES
    hour,      \* the clock, in slots
    draft,     \* draft -> [status, stage, slot, expires, seed]
    made,      \* draft -> the effects so far: [seeded, question, live, jobs, event]
    pubcmd,    \* draft -> its newest publish-now command: [status, lease, no]
    exec,      \* executor -> [draft, pc, stage, no]; no = 0: not for a command
    stumbles

pubVars == <<hour, draft, made, pubcmd, exec, stumbles>>

None == "none"
Stage == <<"unclaimed", "claimed", "seeded", "live", "jobs_enqueued", "published">>
RankOf(s) == CHOOSE i \in 1..6 : Stage[i] = s

NoDraft == [status |-> None, stage |-> "unclaimed", slot |-> 0, expires |-> 0, seed |-> 0]
NoEffect == [seeded |-> 0, question |-> 0, live |-> 0, jobs |-> 0, event |-> 0]
IdleExec == [draft |-> None, pc |-> "idle", stage |-> "unclaimed", no |-> 0]

PublicationInit ==
    /\ hour = 0
    /\ draft = [d \in Draft |-> NoDraft]
    /\ made = [d \in Draft |-> NoEffect]
    /\ pubcmd = [d \in Draft |-> [status |-> None, lease |-> None, no |-> 0]]
    /\ exec = [e \in Executor |-> IdleExec]
    /\ stumbles = 0

WithStatus(S) == {d \in Draft : draft[d].status \in S}

-----------------------------------------------------------------------------
\* Admission and review.

CreateDraft(d) ==
    /\ draft[d] = NoDraft
    /\ Cardinality(WithStatus({"pending"})) < MaxPending
    /\ \E s \in SeedChoice :
        draft' = [draft EXCEPT ![d] = [NoDraft EXCEPT !.status = "pending", !.seed = s,
                                                      !.expires = hour + DraftLife]]
    /\ UNCHANGED <<hour, made, pubcmd, exec, stumbles>>

Fresh(d) == draft[d].status = "pending" /\ hour < draft[d].expires

EditDraft(d) ==
    /\ Fresh(d)
    /\ \E s \in SeedChoice \ {draft[d].seed} : draft' = [draft EXCEPT ![d].seed = s]
    /\ UNCHANGED <<hour, made, pubcmd, exec, stumbles>>

RejectDraft(d) ==
    /\ Fresh(d)
    /\ draft' = [draft EXCEPT ![d].status = "rejected"]
    /\ UNCHANGED <<hour, made, pubcmd, exec, stumbles>>

\* expire_locked: by the sweep arm, or by a review that meets an expired draft.
ExpireDraft(d) ==
    /\ draft[d].status = "pending" /\ hour >= draft[d].expires
    /\ draft' = [draft EXCEPT ![d].status = "expired"]
    /\ UNCHANGED <<hour, made, pubcmd, exec, stumbles>>

\* reserve_slot: the next slot of the tier no draft has.
FreeSlots(t) ==
    {s \in (hour + 1)..(hour + Horizon) : \A d \in Draft : TierOf[d] = t => draft[d].slot # s}

DayOf(s) == s \div DayHours
ReservedForDay(y) ==
    MapThenSumSet(LAMBDA d : draft[d].seed,
                  {d \in WithStatus({"approved", "published"}) : DayOf(draft[d].slot) = y})

\* validate_for_publish, the LP kill switch, the slot and the day's budget.  A
\* draft below the floor can be made and edited, and is refused here.
ApproveDraft(d) ==
    /\ Fresh(d)
    /\ draft[d].seed >= SeedFloor
    /\ hour \notin LpPaused
    /\ FreeSlots(TierOf[d]) # {}
    /\ LET s == Min(FreeSlots(TierOf[d]))
       IN  /\ ReservedForDay(DayOf(s)) + draft[d].seed <= SeedBudget
           /\ draft' = [draft EXCEPT ![d].status = "approved", ![d].slot = s]
    /\ UNCHANGED <<hour, made, pubcmd, exec, stumbles>>

\* PublishNow: one open command per draft.
PublishNow(d) ==
    /\ draft[d].status = "approved"
    /\ pubcmd[d].status \notin {"pending", "executing"}
    /\ pubcmd[d].no < MaxCommands
    /\ pubcmd' = [pubcmd EXCEPT ![d] = [status |-> "pending", lease |-> None, no |-> @.no + 1]]
    /\ UNCHANGED <<hour, draft, made, exec, stumbles>>

PassHour ==
    /\ hour < MaxHour
    /\ hour' = hour + 1
    /\ UNCHANGED <<draft, made, pubcmd, exec, stumbles>>

-----------------------------------------------------------------------------
\* Executors: publisher_tick and consume_due_commands start the saga.

StartSaga(e, d, no) ==
    exec' = [exec EXCEPT ![e] = [draft |-> d, pc |-> "resume", stage |-> "unclaimed", no |-> no]]

\* due_drafts, in the order of their slots; a mutant that skips claimed ones.
DueDrafts_Unclaimed == {d \in WithStatus({"approved"}) : draft[d].slot <= hour /\ draft[d].stage = "unclaimed"}

DueDrafts == {d \in WithStatus({"approved"}) : draft[d].slot <= hour}

StartDue(e, d) ==
    /\ exec[e] = IdleExec
    /\ d \in DueDrafts
    /\ \A x \in DueDrafts : draft[d].slot <= draft[x].slot
    /\ StartSaga(e, d, 0)
    /\ UNCHANGED <<hour, draft, made, pubcmd, stumbles>>

CommandDue(d) ==
    \/ pubcmd[d].status = "pending"
    \/ pubcmd[d].status = "executing" /\ pubcmd[d].lease # "held"

StartCommand(e, d) ==
    /\ exec[e] = IdleExec
    /\ CommandDue(d)
    /\ pubcmd' = [pubcmd EXCEPT ![d].status = "executing", ![d].lease = "held"]
    /\ StartSaga(e, d, pubcmd[d].no)
    /\ UNCHANGED <<hour, draft, made, stumbles>>

CommandLapses(d) ==
    /\ pubcmd[d].lease = "held"
    /\ pubcmd' = [pubcmd EXCEPT ![d].lease = "lapsed"]
    /\ UNCHANGED <<hour, draft, made, exec, stumbles>>

\* resume_once: an unclaimed draft is claimed, another stage is read for its step.
Goto(e, pc) == exec' = [exec EXCEPT ![e].pc = pc]

Resume(e) ==
    LET d == exec[e].draft IN
    /\ exec[e].pc = "resume"
    /\ \/ /\ draft[d].status = "published"
          /\ Goto(e, "settle")
          /\ UNCHANGED draft
       \/ /\ draft[d].status = "approved" /\ draft[d].stage = "unclaimed"
          /\ draft' = [draft EXCEPT ![d].stage = "claimed"]
          /\ UNCHANGED exec
       \/ /\ draft[d].status = "approved" /\ draft[d].stage # "unclaimed"
          /\ exec' = [exec EXCEPT ![e].pc = "act", ![e].stage = draft[d].stage]
          /\ UNCHANGED draft
    /\ UNCHANGED <<hour, made, pubcmd, stumbles>>

Acting(e, s) == exec[e].pc = "act" /\ exec[e].stage = s

\* SeedMarket: the key draft:<id>:seed replays; a mutant that seeds again.
SeedOnce_NoReplay(d) == made' = [made EXCEPT ![d].seeded = @ + 1]

SeedOnce(d) == made' = [made EXCEPT ![d].seeded = IF @ = 0 THEN 1 ELSE @]

\* The kill switch again, behind the replay.
SeedBarred(d) == made[d].seeded = 0 /\ hour \in LpPaused

SeedMarket(e) ==
    /\ Acting(e, "claimed")
    /\ ~SeedBarred(exec[e].draft)
    /\ SeedOnce(exec[e].draft)
    /\ Goto(e, "question")
    /\ UNCHANGED <<hour, draft, pubcmd, stumbles>>

SetQuestion(e) ==
    /\ exec[e].pc = "question"
    /\ made' = [made EXCEPT ![exec[e].draft].question = 1]
    /\ Goto(e, "advance")
    /\ UNCHANGED <<hour, draft, pubcmd, stumbles>>

\* AdvanceMarket(GoLive) under the key draft:<id>:golive.
GoLive(e) ==
    /\ Acting(e, "seeded")
    /\ made' = [made EXCEPT ![exec[e].draft].live = IF @ = 0 THEN 1 ELSE @]
    /\ Goto(e, "advance")
    /\ UNCHANGED <<hour, draft, pubcmd, stumbles>>

\* enqueue_jobs: only while the draft still is at that stage; (draft, kind) is unique.
EnqueueJobs(e) ==
    LET d == exec[e].draft IN
    /\ Acting(e, "live")
    /\ made' = IF draft[d].stage = "live" /\ made[d].jobs = 0
               THEN [made EXCEPT ![d].jobs = 1] ELSE made
    /\ Goto(e, "advance")
    /\ UNCHANGED <<hour, draft, pubcmd, stumbles>>

\* advance_stage compares the stage it expects; a mutant that does not.
AdvanceStage_NoCompare(e) ==
    LET d == exec[e].draft IN
    /\ exec[e].pc = "advance"
    /\ draft' = [draft EXCEPT ![d].stage = Stage[RankOf(exec[e].stage) + 1]]
    /\ Goto(e, "resume")
    /\ UNCHANGED <<hour, made, pubcmd, stumbles>>

AdvanceStage(e) ==
    LET d == exec[e].draft IN
    /\ exec[e].pc = "advance"
    /\ draft' = IF draft[d].stage # exec[e].stage THEN draft
                ELSE [draft EXCEPT ![d].stage = Stage[RankOf(@) + 1]]
    /\ Goto(e, "resume")
    /\ UNCHANGED <<hour, made, pubcmd, stumbles>>

\* finish: status, stage and DraftPublished in one transaction.
FinishDraft(e) ==
    LET d == exec[e].draft IN
    /\ Acting(e, "jobs_enqueued")
    /\ IF draft[d].stage = "jobs_enqueued"
       THEN /\ draft' = [draft EXCEPT ![d].status = "published", ![d].stage = "published"]
            /\ made' = [made EXCEPT ![d].event = @ + 1]
       ELSE UNCHANGED <<draft, made>>
    /\ Goto(e, "resume")
    /\ UNCHANGED <<hour, pubcmd, stumbles>>

\* The command the saga ran for is written back, by id, whatever its row is now.
SettleCommand(e, result) ==
    LET d == exec[e].draft IN
    pubcmd' = IF exec[e].no = 0 \/ exec[e].no # pubcmd[d].no THEN pubcmd
              ELSE [pubcmd EXCEPT ![d].status = result, ![d].lease = None]

\* The saga returned a receipt.
SettleDone(e) ==
    /\ exec[e].pc = "settle"
    /\ SettleCommand(e, "done")
    /\ exec' = [exec EXCEPT ![e] = IdleExec]
    /\ UNCHANGED <<hour, draft, made, stumbles>>

\* LpPaused ends the saga: the sweep's tick ends, a command is written back as
\* failed.
SeedRefused(e) ==
    /\ Acting(e, "claimed")
    /\ SeedBarred(exec[e].draft)
    /\ SettleCommand(e, "failed")
    /\ exec' = [exec EXCEPT ![e] = IdleExec]
    /\ UNCHANGED <<hour, draft, made, stumbles>>

\* So does a store error or InsufficientFunds.
SagaFails(e) ==
    /\ exec[e].pc \notin {"idle", "settle"}
    /\ stumbles < MaxStumbles
    /\ stumbles' = stumbles + 1
    /\ SettleCommand(e, "failed")
    /\ exec' = [exec EXCEPT ![e] = IdleExec]
    /\ UNCHANGED <<hour, draft, made>>

ExecutorDies(e) ==
    /\ exec[e] # IdleExec
    /\ stumbles < MaxStumbles
    /\ stumbles' = stumbles + 1
    /\ exec' = [exec EXCEPT ![e] = IdleExec]
    /\ UNCHANGED <<hour, draft, made, pubcmd>>

SagaStep(e) ==
    \/ Resume(e) \/ SeedMarket(e) \/ SeedRefused(e) \/ SetQuestion(e) \/ GoLive(e)
    \/ EnqueueJobs(e) \/ AdvanceStage(e) \/ FinishDraft(e) \/ SettleDone(e)

ReviewNext ==
    \/ PassHour
    \/ \E d \in Draft :
        \/ CreateDraft(d) \/ EditDraft(d) \/ RejectDraft(d) \/ ExpireDraft(d) \/ ApproveDraft(d)
        \/ PublishNow(d)

SagaNext ==
    \/ \E d \in Draft : CommandLapses(d)
    \/ \E e \in Executor :
        \/ \E d \in Draft : StartDue(e, d) \/ StartCommand(e, d)
        \/ SagaStep(e) \/ SagaFails(e) \/ ExecutorDies(e)

PublicationNext == ReviewNext \/ SagaNext

PublicationSpec == PublicationInit /\ [][PublicationNext]_pubVars

-----------------------------------------------------------------------------
\* The saga under two executors and crashes between any two commits: no stage
\* is persisted before its effect, no effect happens twice (one market, one
\* go-live, one set of jobs, one DraftPublished), and a published draft has all
\* of them (publish_draft.rs: "re-entry resumes rather than repeating a
\* non-idempotent effect").
SagaSound ==
    \A d \in Draft :
        LET m == made[d]
            r == RankOf(draft[d].stage)
        IN  /\ m.seeded \in {0, 1} /\ m.live \in {0, 1} /\ m.jobs \in {0, 1} /\ m.event \in {0, 1}
            /\ r >= 3 => m.seeded = 1 /\ m.question = 1
            /\ r >= 4 => m.live = 1
            /\ r >= 5 => m.jobs = 1
            /\ (draft[d].status = "published") <=> (r = 6)
            /\ (r = 6) <=> (m.event = 1)

\* A persisted stage never goes back, whatever stage a slow executor read
\* (advance_stage compares before it writes).
StageForward ==
    [][\A d \in Draft : RankOf(draft'[d].stage) >= RankOf(draft[d].stage)]_pubVars

\* An approved draft whose slot came is published, crashes, failed commands and
\* an LP pause that ends notwithstanding (publisher_tick, due_drafts).
DueIsPublished ==
    \A d \in Draft :
        (draft[d].status = "approved" /\ draft[d].slot <= hour) ~> draft[d].status = "published"
=============================================================================
