----------------------------- MODULE MCServices ------------------------------
(***************************************************************************)
(* The services around the books, checked side by side.  They share no     *)
(* table, so a behaviour exercises one of them, chosen at the start; the   *)
(* others stay in their initial state.  The fairness of each is that of    *)
(* the loops main.rs spawns: the loops keep ticking and the clock keeps    *)
(* going; faults are bounded.                                              *)
(***************************************************************************)
EXTENDS Outbox, ConfigPlane, Alerts, LeasedJobs, OpsJobs, Publication, Comments, Compliance, Feed

CONSTANT Parts   \* the services a run exercises

VARIABLE part

othersVars == <<outboxVars, configVars, alertVars, leasedVars, opsJobVars, pubVars, commentVars,
                complianceVars, feedVars>>
serviceVars == <<part, othersVars>>

MCSeed == [fee |-> 3, discount |-> 2, floor |-> 1, threshold |-> 3, paused |-> 0]
MCAsked == [p |-> [floor |-> 2], q |-> [threshold |-> 2], r |-> [revert |-> 2],
            s |-> [paused |-> 1, floor |-> 2]]
\* A lower fee proposed on its own.
MCAskedFees == [p |-> [fee |-> 1], q |-> [threshold |-> 2], r |-> [revert |-> 2],
                s |-> [paused |-> 1, floor |-> 2]]
MCDirectPatch == {[paused |-> 1], [paused |-> 0], [paused |-> 1, floor |-> 2]}
MCSlot == [j \in Job |-> j]
MCTier == [d \in Draft |-> "daily"]
MCNews == [trade |-> 1, vote |-> 1, advance |-> 1]
MCNewsTwo == [trade |-> 2, vote |-> 0, advance |-> 1]
MCNewsStage == [trade |-> 0, vote |-> 0, advance |-> 2]
MCParent == [c \in Comment |-> IF c = "c1" THEN "top" ELSE "c1"]

ServicesInit ==
    /\ part \in Parts
    /\ OutboxInit /\ ConfigInit /\ AlertsInit /\ LeasedInit
    /\ OpsJobsInit /\ PublicationInit /\ CommentsInit /\ ComplianceInit /\ FeedInit

OutboxPart ==
    /\ part = "outbox" /\ OutboxNext
    /\ UNCHANGED <<configVars, alertVars, leasedVars, opsJobVars, pubVars, commentVars, complianceVars,
                   feedVars>>

\* Two operators with proposals, one of them also patching pauses directly;
\* and one patching while the replicas reload.
ConfigPart ==
    /\ \/ part = "govern" /\ (DirectNext \/ ProposalNext)
          /\ ~(ctx'["b"].phase # "none" /\ ctx'["b"].kind = "set")
       \/ part = "watch" /\ (DirectNext \/ WatchNext) /\ ctx'["b"].phase = "none"
    /\ UNCHANGED <<outboxVars, alertVars, leasedVars, opsJobVars, pubVars, commentVars, complianceVars,
                   feedVars>>

AlertsPart ==
    /\ part = "alerts" /\ AlertsNext
    /\ UNCHANGED <<outboxVars, configVars, leasedVars, opsJobVars, pubVars, commentVars, complianceVars,
                   feedVars>>

LeasedPart ==
    /\ part = "leased" /\ LeasedNext
    /\ UNCHANGED <<outboxVars, configVars, alertVars, opsJobVars, pubVars, commentVars, complianceVars,
                   feedVars>>

OpsJobsPart ==
    /\ part = "opsjobs" /\ OpsJobsNext
    /\ UNCHANGED <<outboxVars, configVars, alertVars, leasedVars, pubVars, commentVars, complianceVars,
                   feedVars>>

\* Two drafts under review, and one draft under its executors.
PublicationPart ==
    /\ \/ part = "review" /\ ReviewNext
       \/ part = "saga" /\ PublicationNext /\ draft'["d2"] = NoDraft
    /\ UNCHANGED <<outboxVars, configVars, alertVars, leasedVars, opsJobVars, commentVars, complianceVars,
                   feedVars>>

\* Two comments among the users, and one comment under the runners too.
CommentsPart ==
    /\ \/ part = "talk" /\ TalkNext
       \/ part = "screen" /\ CommentsNext /\ shown'["c2"] = "none"
    /\ UNCHANGED <<outboxVars, configVars, alertVars, leasedVars, opsJobVars, pubVars, complianceVars,
                   feedVars>>

\* The families of compliance commands: one user, but two for the telephone.
CompliancePart ==
    /\ \/ part = "standing" /\ (StatusNext({"u1"}) \/ ConfirmNext \/ ClockNext)
       \/ part = "exclusion" /\ (ExclusionNext({"u1"}) \/ ConfirmNext \/ ClockNext)
       \/ part = "holds" /\ (HoldNext \/ ConfirmNext \/ ClockNext)
       \/ part = "limits" /\ (LimitNext({"u1"}) \/ ClockNext)
       \/ part = "kyc" /\ (KycNext({"u1"}) \/ ClockNext)
       \/ part = "phone" /\ (PhoneNext(Person) \/ ClockNext)
    /\ UNCHANGED <<outboxVars, configVars, alertVars, leasedVars, opsJobVars, pubVars, commentVars,
                   feedVars>>

\* One browser on one market.
FeedPart ==
    /\ part = "feed" /\ FeedNext
    /\ UNCHANGED <<outboxVars, configVars, alertVars, leasedVars, opsJobVars, pubVars, commentVars,
                   complianceVars>>

ServicesNext ==
    /\ UNCHANGED part
    /\ \/ OutboxPart \/ ConfigPart \/ AlertsPart \/ LeasedPart
       \/ OpsJobsPart \/ PublicationPart \/ CommentsPart \/ CompliancePart \/ FeedPart

ServicesSafety == ServicesInit /\ [][ServicesNext]_serviceVars

-----------------------------------------------------------------------------
OutboxFairness ==
    /\ \A q \in Seq1 : WF_outboxVars(part = "outbox" /\ EndWriter(q))
    /\ \A s \in Server : WF_outboxVars(part = "outbox" /\ Relay(s))

ConfigFairness ==
    \A r \in Replica :
        /\ WF_configVars(part = "watch" /\ HealTick(r))
        /\ WF_configVars(part = "watch" /\ FinishLoad(r))

AlertsFairness ==
    /\ \A w \in Sweeper : WF_alertVars(part = "alerts" /\ SweepStep(w))
    /\ \A w \in Deliverer : WF_alertVars(part = "alerts" /\ DeliverStep(w))

LeasedFairness ==
    /\ \A j \in Job : WF_leasedVars(part = "leased" /\ (Lapse(j) \/ BackoffEnds(j)))
    /\ \A w \in Worker : WF_leasedVars(part = "leased" /\ (Tick(w) \/ Finish(w)))

OpsJobsFairness ==
    /\ \A k \in Command : WF_opsJobVars(part = "opsjobs" /\ RunLeaseLapses(k))
    /\ \A r \in Runner : WF_opsJobVars(part = "opsjobs" /\ RunStep(r))

PublicationFairness ==
    /\ WF_pubVars(part = "saga" /\ PassHour)
    /\ \A d \in Draft : WF_pubVars(part = "saga" /\ CommandLapses(d))
    /\ \A e \in Executor :
        WF_pubVars(part = "saga" /\
                   (SagaStep(e) \/ \E d \in Draft : StartDue(e, d) \/ StartCommand(e, d)))

CommentsFairness ==
    /\ WF_commentVars(part = "screen" /\ Materialize)
    /\ \A c \in Comment : WF_commentVars(part = "screen" /\ ScreeningLapses(c))
    /\ \A r \in Moderator : WF_commentVars(part = "screen" /\ ModeratorStep(r))

FeedFairness ==
    /\ WF_feedVars(part = "feed" /\ RelayAirs) /\ WF_feedVars(part = "feed" /\ RelayMarks)
    /\ WF_feedVars(part = "feed" /\ ServeNext) /\ WF_feedVars(part = "feed" /\ ClientNext)

ServicesSpec ==
    /\ ServicesSafety
    /\ OutboxFairness /\ ConfigFairness /\ AlertsFairness /\ LeasedFairness
    /\ OpsJobsFairness /\ PublicationFairness /\ CommentsFairness /\ FeedFairness

-----------------------------------------------------------------------------
\* WatchCatchesUp, for the behaviours in which the replicas run: once the
\* operators stop, every process ends up serving the newest configuration,
\* although the wake-up cursor is shared and a load may fail (reconciler.rs).
ReplicasCatchUp == part = "watch" => WatchCatchesUp
=============================================================================
