------------------------------ MODULE Comments -------------------------------
(***************************************************************************)
(* Comments and their moderation: application/src/comments.rs and          *)
(* moderation_escalate.rs over pg/comment_tx.rs and pg/video_tx.rs.  Users *)
(* post, vote and report; an operator restores, shadows or blocks; each    *)
(* process runs a moderation runner that screens new comments with a       *)
(* remote call, outside any transaction, under a leased job.               *)
(***************************************************************************)
EXTENDS Naturals, FiniteSets

CONSTANTS
    Comment,
    ParentOf,          \* comment -> the comment it replies to, or "top"
    Voter,             \* users who vote
    Reader,            \* users who report
    Qualified,         \* those above the reporter floor
    ShadowThreshold,   \* report_shadow_threshold
    MaxReports,        \* max_reports_per_window (the window is the whole behaviour)
    Moderator,         \* moderation runners
    MaxScreens,        \* attempts of a moderation job
    MaxDecisions,      \* bound on operator decisions
    MaxMishaps         \* bound on runner deaths and failed screens

ASSUME CommentsAssumption ==
    /\ ShadowThreshold \in Nat \ {0} /\ MaxReports \in Nat \ {0} /\ MaxScreens \in Nat \ {0}
    /\ MaxDecisions \in Nat /\ MaxMishaps \in Nat

VARIABLES
    shown,      \* comment -> "none", "visible", "shadow", "blocked"
    reports,    \* comment -> the users with a comment_reports row
    filed,      \* reader -> reports filed (history)
    voted,      \* comment -> the users with a comment_votes row
    restored,   \* the comments whose last operator decision was to restore (history)
    screening,  \* comment -> its moderation job: [status, token, tries, lease]
    held,       \* runner -> the claims of its batch not taken up yet: [of, token, tries]
    work,       \* runner -> the claim in hand, with pc and verdict
    decisions, mishaps

commentVars == <<shown, reports, filed, voted, restored, screening, held, work, decisions, mishaps>>

NoScreening == [status |-> "none", token |-> 0, tries |-> 0, lease |-> "none"]
NoWork == [pc |-> "idle"]

CommentsInit ==
    /\ shown = [c \in Comment |-> "none"]
    /\ reports = [c \in Comment |-> {}]
    /\ filed = [u \in Reader |-> 0]
    /\ voted = [c \in Comment |-> {}]
    /\ restored = {}
    /\ screening = [c \in Comment |-> NoScreening]
    /\ held = [r \in Moderator |-> {}]
    /\ work = [r \in Moderator |-> NoWork]
    /\ decisions = 0 /\ mishaps = 0

Severity(s) == IF s = "visible" THEN 1 ELSE IF s = "shadow" THEN 2 ELSE IF s = "blocked" THEN 3 ELSE 0

-----------------------------------------------------------------------------
\* Users

\* The deterministic screen shows the comment, shadows it, or refuses the post;
\* a reply needs a visible parent.
PostComment(c) ==
    /\ shown[c] = "none"
    /\ ParentOf[c] # "top" => shown[ParentOf[c]] = "visible"
    /\ \E s \in {"visible", "shadow"} : shown' = [shown EXCEPT ![c] = s]
    /\ UNCHANGED <<reports, filed, voted, restored, screening, held, work, decisions, mishaps>>

VoteComment(c, u) ==
    /\ shown[c] = "visible" /\ u \notin voted[c]
    /\ voted' = [voted EXCEPT ![c] = @ \cup {u}]
    /\ UNCHANGED <<shown, reports, filed, restored, screening, held, work, decisions, mishaps>>

\* reporter_reports_since counts the rows the reporter has.
ReportsBy(u) == Cardinality({c \in Comment : u \in reports[c]})

ReportComment(c, u) ==
    /\ u \in Qualified
    /\ ReportsBy(u) < MaxReports
    /\ shown[c] = "visible" /\ u \notin reports[c]
    /\ reports' = [reports EXCEPT ![c] = @ \cup {u}]
    /\ filed' = [filed EXCEPT ![u] = @ + 1]
    /\ shown' = IF Cardinality(reports[c] \cup {u}) >= ShadowThreshold
                THEN [shown EXCEPT ![c] = "shadow"] ELSE shown
    /\ UNCHANGED <<voted, restored, screening, held, work, decisions, mishaps>>

-----------------------------------------------------------------------------
\* ModerateComment: restore also deletes the reports; a mutant that keeps them.
Moderate_KeepReports(c, status) ==
    /\ shown[c] # "none" /\ decisions < MaxDecisions
    /\ decisions' = decisions + 1
    /\ shown' = [shown EXCEPT ![c] = status]
    /\ restored' = IF status = "visible" THEN restored \cup {c} ELSE restored \ {c}
    /\ UNCHANGED <<reports, filed, voted, screening, held, work, mishaps>>

Moderate(c, status) ==
    /\ shown[c] # "none" /\ decisions < MaxDecisions
    /\ decisions' = decisions + 1
    /\ shown' = [shown EXCEPT ![c] = status]
    /\ restored' = IF status = "visible" THEN restored \cup {c} ELSE restored \ {c}
    /\ reports' = IF status = "visible" THEN [reports EXCEPT ![c] = {}] ELSE reports
    /\ UNCHANGED <<filed, voted, screening, held, work, mishaps>>

-----------------------------------------------------------------------------
\* The runner

\* materialize_stage: one job per posted comment.
Unscreened == {c \in Comment : shown[c] # "none" /\ screening[c] = NoScreening}

Materialize ==
    /\ Unscreened # {}
    /\ screening' = [c \in Comment |-> IF c \in Unscreened
                                       THEN [screening[c] EXCEPT !.status = "queued"] ELSE screening[c]]
    /\ UNCHANGED <<shown, reports, filed, voted, restored, held, work, decisions, mishaps>>

\* reclaim_moderation_expired, then claim_moderation: what a tick makes of a job.
\* (A mutant never reclaims.)
Expired_Never(c) == c \notin Comment

Expired(c) == screening[c].status = "running" /\ screening[c].lease = "lapsed"
Exhausted(c) == Expired(c) /\ screening[c].tries >= MaxScreens
Queued(c) ==
    \/ screening[c].status = "queued" /\ screening[c].lease # "backoff"
    \/ Expired(c) /\ ~Exhausted(c)

Claimed(c) == [status |-> "running", token |-> screening[c].tries + 1,
               tries |-> screening[c].tries + 1, lease |-> "held"]

ClaimScreenings(r) ==
    /\ held[r] = {} /\ work[r] = NoWork
    /\ \E c \in Comment : Queued(c) \/ Exhausted(c)
    /\ screening' = [c \in Comment |->
                        IF Queued(c) THEN Claimed(c)
                        ELSE IF Exhausted(c)
                        THEN [screening[c] EXCEPT !.status = "failed", !.token = 0, !.lease = "none"]
                        ELSE screening[c]]
    /\ held' = [held EXCEPT ![r] = {[of |-> c, token |-> Claimed(c).token, tries |-> Claimed(c).tries] :
                                      c \in {x \in Comment : Queued(x)}}]
    /\ UNCHANGED <<shown, reports, filed, voted, restored, work, decisions, mishaps>>

\* job_work reads the row without a lock; a hidden comment needs no screen.
ReadComment(r) ==
    /\ work[r] = NoWork
    /\ \E h \in held[r] :
        /\ held' = [held EXCEPT ![r] = @ \ {h}]
        /\ work' = [work EXCEPT ![r] = [pc |-> IF shown[h.of] = "visible" THEN "screen" ELSE "done", claim |-> h]]
    /\ UNCHANGED <<shown, reports, filed, voted, restored, screening, decisions, mishaps>>

\* The remote verdict; only a tightening one goes on to be applied.
Screen(r) ==
    /\ work[r].pc = "screen"
    /\ \E pc \in {"apply", "done"} : work' = [work EXCEPT ![r].pc = pc]
    /\ UNCHANGED <<shown, reports, filed, voted, restored, screening, held, decisions, mishaps>>

ScreenFails(r) ==
    /\ work[r].pc = "screen" /\ mishaps < MaxMishaps
    /\ mishaps' = mishaps + 1
    /\ work' = [work EXCEPT ![r].pc = "error"]
    /\ UNCHANGED <<shown, reports, filed, voted, restored, screening, held, decisions>>

\* apply_escalation: the join again, under the row lock; a mutant that trusts the read.
ApplyEscalation_NoRecheck(r) ==
    /\ work[r].pc = "apply"
    /\ shown' = [shown EXCEPT ![work[r].claim.of] = "shadow"]
    /\ work' = [work EXCEPT ![r].pc = "done"]
    /\ UNCHANGED <<reports, filed, voted, restored, screening, held, decisions, mishaps>>

ApplyEscalation(r) ==
    /\ work[r].pc = "apply"
    /\ shown' = [shown EXCEPT ![work[r].claim.of] = IF @ = "visible" THEN "shadow" ELSE @]
    /\ work' = [work EXCEPT ![r].pc = "done"]
    /\ UNCHANGED <<reports, filed, voted, restored, screening, held, decisions, mishaps>>

\* complete_moderation, fenced by the token.
Completed(h, failed) ==
    [screening[h.of] EXCEPT
        !.status = IF ~failed THEN "done" ELSE IF h.tries >= MaxScreens THEN "failed" ELSE "queued",
        !.token = 0,
        !.lease = IF failed /\ h.tries < MaxScreens THEN "backoff" ELSE "none"]

CompleteScreening(r) ==
    /\ work[r].pc \in {"done", "error"}
    /\ LET h == work[r].claim IN
       screening' = IF screening[h.of].status = "running" /\ screening[h.of].token = h.token
                    THEN [screening EXCEPT ![h.of] = Completed(h, work[r].pc = "error")]
                    ELSE screening
    /\ work' = [work EXCEPT ![r] = NoWork]
    /\ UNCHANGED <<shown, reports, filed, voted, restored, held, decisions, mishaps>>

ModeratorDies(r) ==
    /\ mishaps < MaxMishaps
    /\ held[r] # {} \/ work[r] # NoWork
    /\ mishaps' = mishaps + 1
    /\ held' = [held EXCEPT ![r] = {}]
    /\ work' = [work EXCEPT ![r] = NoWork]
    /\ UNCHANGED <<shown, reports, filed, voted, restored, screening, decisions>>

\* Time: a lease lapses, or a backoff ends.
ScreeningLapses(c) ==
    /\ screening[c].lease \in {"held", "backoff"}
    /\ screening' = [screening EXCEPT ![c].lease = IF @ = "held" THEN "lapsed" ELSE "none"]
    /\ UNCHANGED <<shown, reports, filed, voted, restored, held, work, decisions, mishaps>>

ModeratorStep(r) ==
    \/ ClaimScreenings(r) \/ ReadComment(r) \/ Screen(r)
    \/ ApplyEscalation(r) \/ CompleteScreening(r)

TalkNext ==
    \E c \in Comment :
        \/ PostComment(c)
        \/ \E u \in Voter : VoteComment(c, u)
        \/ \E u \in Reader : ReportComment(c, u)
        \/ \E s \in {"visible", "shadow", "blocked"} : Moderate(c, s)

ScreenNext ==
    \/ Materialize
    \/ \E c \in Comment : ScreeningLapses(c)
    \/ \E r \in Moderator : ModeratorStep(r) \/ ScreenFails(r) \/ ModeratorDies(r)

CommentsNext == TalkNext \/ ScreenNext

CommentsSpec == CommentsInit /\ [][CommentsNext]_commentVars

-----------------------------------------------------------------------------
\* Only an operator loosens a comment or blocks it: reports and verdicts,
\* however late they are applied, take a visible comment to shadow and never a
\* blocked one back to shadow (ReportComment, apply_escalation).
OnlyTightens ==
    [][\A c \in Comment : shown[c] # "none" /\ decisions' = decisions =>
          /\ Severity(shown'[c]) >= Severity(shown[c])
          /\ shown'[c] = "blocked" => shown[c] = "blocked"]_commentVars

\* A comment others can see has fewer reports than the threshold, also after an
\* operator restored it: the restore starts a new count (ReportComment,
\* ModerateComment).
VisibleBelowThreshold ==
    \A c \in Comment : shown[c] = "visible" => Cardinality(reports[c]) < ShadowThreshold

\* Every posted comment's screening ends, runner deaths and failed screens
\* notwithstanding (materialize_stage, reclaim_moderation_expired).
ScreeningEnds ==
    \A c \in Comment : shown[c] # "none" ~> screening[c].status \in {"done", "failed"}

\* docs/plans/phase4-social-notifications.md, on restore: "a second shadow
\* requires threshold NEW reports".
SecondShadowNeedsReports ==
    \A c \in Comment :
        c \in restored /\ shown[c] = "shadow" => Cardinality(reports[c]) >= ShadowThreshold

\* docs/plans/phase4-social-notifications.md: "per-reporter velocity
\* max_reports_per_window".
ReportVelocity == \A u \in Reader : filed[u] <= MaxReports
=============================================================================
