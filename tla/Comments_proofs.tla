--------------------------- MODULE Comments_proofs ---------------------------
(***************************************************************************)
(* Proofs about comment moderation, for any number of comments, users,     *)
(* runners and late verdicts.                                              *)
(***************************************************************************)
EXTENDS Comments, FiniteSetTheorems, TLAPS

\* A comment that was not posted has no reports, and a report table is finite.
ReportsInv ==
    /\ shown \in [Comment -> {"none", "visible", "shadow", "blocked"}]
    /\ DOMAIN reports = Comment
    /\ decisions \in Nat
    /\ \A c \in Comment : IsFiniteSet(reports[c]) /\ (shown[c] = "none" => reports[c] = {})

CommentsInv == ReportsInv /\ VisibleBelowThreshold

-----------------------------------------------------------------------------
LEMMA EmptyReports == IsFiniteSet({}) /\ Cardinality({}) = 0
  BY FS_EmptySet

LEMMA CommentsInvInit == CommentsInit => CommentsInv
  BY EmptyReports DEF CommentsInit, CommentsInv, ReportsInv, VisibleBelowThreshold

LEMMA PostInv ==
  ASSUME CommentsInv, NEW c \in Comment, PostComment(c)
  PROVE  CommentsInv'
  <1>1. PICK s \in {"visible", "shadow"} : shown' = [shown EXCEPT ![c] = s]
    BY DEF PostComment
  <1>2. shown[c] = "none" /\ reports[c] = {} /\ UNCHANGED <<reports, decisions>>
    BY DEF PostComment, CommentsInv, ReportsInv
  <1>3. ReportsInv'
    BY <1>1, <1>2 DEF CommentsInv, ReportsInv
  <1>4. Cardinality(reports[c]) < ShadowThreshold
    BY <1>2, EmptyReports, CommentsAssumption
  <1>5. VisibleBelowThreshold'
    BY <1>1, <1>2, <1>4 DEF CommentsInv, ReportsInv, VisibleBelowThreshold
  <1> QED
    BY <1>3, <1>5 DEF CommentsInv

\* The report that reaches the threshold hides the comment in the same step.
LEMMA ReportInv ==
  ASSUME CommentsInv, NEW c \in Comment, NEW u \in Reader, ReportComment(c, u)
  PROVE  CommentsInv'
  <1> DEFINE R == reports[c] \cup {u}
  <1>1. IsFiniteSet(R) /\ Cardinality(R) \in Nat
    BY FS_AddElement, FS_CardinalityType DEF CommentsInv, ReportsInv
  <1>2. /\ shown[c] = "visible" /\ reports' = [reports EXCEPT ![c] = R]
        /\ shown' = IF Cardinality(R) >= ShadowThreshold
                    THEN [shown EXCEPT ![c] = "shadow"] ELSE shown
        /\ UNCHANGED decisions
    BY DEF ReportComment
  <1> HIDE DEF R
  <1>3. ReportsInv'
    BY <1>1, <1>2 DEF CommentsInv, ReportsInv
  <1>4. shown'[c] = "visible" => Cardinality(R) < ShadowThreshold
    BY <1>1, <1>2, CommentsAssumption DEF CommentsInv, ReportsInv
  <1>5. reports'[c] = R /\ \A d \in Comment \ {c} : shown'[d] = shown[d] /\ reports'[d] = reports[d]
    BY <1>2 DEF CommentsInv, ReportsInv
  <1>6. VisibleBelowThreshold'
    BY <1>4, <1>5 DEF CommentsInv, VisibleBelowThreshold
  <1> QED
    BY <1>3, <1>6 DEF CommentsInv

\* Only restoring shows a comment again, and it deletes the reports.
LEMMA ModerateInv ==
  ASSUME CommentsInv, NEW c \in Comment, NEW s \in {"visible", "shadow", "blocked"}, Moderate(c, s)
  PROVE  CommentsInv'
  <1>1. /\ shown[c] # "none" /\ shown' = [shown EXCEPT ![c] = s]
        /\ reports' = IF s = "visible" THEN [reports EXCEPT ![c] = {}] ELSE reports
        /\ decisions' = decisions + 1
    BY DEF Moderate
  <1>2. ReportsInv'
    BY <1>1, EmptyReports DEF CommentsInv, ReportsInv
  <1>3. shown'[c] = "visible" => Cardinality(reports'[c]) < ShadowThreshold
    BY <1>1, EmptyReports, CommentsAssumption DEF CommentsInv, ReportsInv
  <1>4. \A d \in Comment \ {c} : shown'[d] = shown[d] /\ reports'[d] = reports[d]
    BY <1>1 DEF CommentsInv, ReportsInv
  <1>5. VisibleBelowThreshold'
    BY <1>3, <1>4 DEF CommentsInv, VisibleBelowThreshold
  <1> QED
    BY <1>2, <1>5 DEF CommentsInv

LEMMA EscalateInv ==
  ASSUME CommentsInv, NEW r \in Moderator, ApplyEscalation(r)
  PROVE  CommentsInv'
  <1> DEFINE c == work[r].claim.of
  <1>1. /\ shown' = [shown EXCEPT ![c] = IF shown[c] = "visible" THEN "shadow" ELSE shown[c]]
        /\ UNCHANGED <<reports, decisions>>
    BY DEF ApplyEscalation
  <1> HIDE DEF c
  <1>2. \A d \in Comment : shown'[d] = shown[d] \/ (shown[d] = "visible" /\ shown'[d] = "shadow")
    BY <1>1 DEF CommentsInv, ReportsInv
  <1>3. shown' \in [Comment -> {"none", "visible", "shadow", "blocked"}]
    BY <1>1 DEF CommentsInv, ReportsInv
  <1> QED
    BY <1>1, <1>2, <1>3 DEF CommentsInv, ReportsInv, VisibleBelowThreshold

\* Every other step leaves what is shown and what was reported alone.
Elsewhere ==
    \/ \E c \in Comment : \E u \in Voter : VoteComment(c, u)
    \/ Materialize
    \/ \E c \in Comment : ScreeningLapses(c)
    \/ \E r \in Moderator :
        \/ ClaimScreenings(r) \/ ReadComment(r) \/ Screen(r) \/ CompleteScreening(r)
        \/ ScreenFails(r) \/ ModeratorDies(r)
    \/ UNCHANGED commentVars

LEMMA Untouched == Elsewhere => UNCHANGED <<shown, reports, decisions>>
  BY DEF Elsewhere, VoteComment, Materialize, ScreeningLapses, ClaimScreenings, ReadComment, Screen,
         CompleteScreening, ScreenFails, ModeratorDies, commentVars

LEMMA StepKinds ==
  ASSUME [CommentsNext]_commentVars
  PROVE  \/ \E c \in Comment : PostComment(c)
         \/ \E c \in Comment, u \in Reader : ReportComment(c, u)
         \/ \E c \in Comment, s \in {"visible", "shadow", "blocked"} : Moderate(c, s)
         \/ \E r \in Moderator : ApplyEscalation(r)
         \/ Elsewhere
  BY DEF CommentsNext, TalkNext, ScreenNext, ModeratorStep, Elsewhere

LEMMA CommentsInvStep ==
  ASSUME CommentsInv, [CommentsNext]_commentVars
  PROVE  CommentsInv'
  <1>1. CASE Elsewhere
    BY <1>1, Untouched DEF CommentsInv, ReportsInv, VisibleBelowThreshold
  <1> QED
    BY <1>1, StepKinds, PostInv, ReportInv, ModerateInv, EscalateInv

\* The inductive invariant of comments and their reports holds in every
\* reachable state (ReportComment, ModerateComment, apply_escalation).
THEOREM CommentsInvCorrect == CommentsSpec => []CommentsInv
  BY CommentsInvInit, CommentsInvStep, PTL DEF CommentsSpec

\* A comment others can see has fewer reports than the threshold, also after it
\* was restored (ReportComment, ModerateComment).
THEOREM VisibleBelowThresholdCorrect == CommentsSpec => []VisibleBelowThreshold
  <1>1. CommentsInv => VisibleBelowThreshold
    BY DEF CommentsInv
  <1> QED
    BY <1>1, CommentsInvCorrect, PTL

\* Only an operator's decision loosens a comment or blocks one, however late a
\* report or a verdict is applied (ReportComment, apply_escalation).
THEOREM OnlyTightensCorrect == CommentsSpec => OnlyTightens
  <1> DEFINE Tightens ==
        \A c \in Comment : shown[c] # "none" /\ decisions' = decisions =>
            /\ Severity(shown'[c]) >= Severity(shown[c])
            /\ shown'[c] = "blocked" => shown[c] = "blocked"
  <1>1. ASSUME CommentsInv, [CommentsNext]_commentVars PROVE Tightens
    <2> SUFFICES ASSUME NEW c \in Comment, shown[c] # "none", decisions' = decisions
                 PROVE  shown'[c] = shown[c] \/ (shown[c] = "visible" /\ shown'[c] = "shadow")
      BY DEF Severity
    <2>0. shown \in [Comment -> {"none", "visible", "shadow", "blocked"}]
      BY <1>1 DEF CommentsInv, ReportsInv
    <2>1. ASSUME NEW d \in Comment, PostComment(d)
          PROVE  shown'[c] = shown[c] \/ (shown[c] = "visible" /\ shown'[c] = "shadow")
      BY <2>0, <2>1 DEF PostComment
    <2>2. ASSUME NEW d \in Comment, NEW u \in Reader, ReportComment(d, u)
          PROVE  shown'[c] = shown[c] \/ (shown[c] = "visible" /\ shown'[c] = "shadow")
      BY <2>0, <2>2 DEF ReportComment
    <2>3. ASSUME NEW d \in Comment, NEW s \in {"visible", "shadow", "blocked"}, Moderate(d, s)
          PROVE  FALSE
      <3>1. decisions \in Nat /\ decisions' = decisions + 1
        BY <1>1, <2>3 DEF Moderate, CommentsInv, ReportsInv
      <3> QED
        BY <3>1
    <2>4. ASSUME NEW r \in Moderator, ApplyEscalation(r)
          PROVE  shown'[c] = shown[c] \/ (shown[c] = "visible" /\ shown'[c] = "shadow")
      BY <2>0, <2>4 DEF ApplyEscalation
    <2>5. CASE Elsewhere
      BY <2>5, Untouched
    <2> QED
      BY <1>1, <2>1, <2>2, <2>3, <2>4, <2>5, StepKinds
  <1> QED
    BY <1>1, CommentsInvCorrect, PTL DEF CommentsSpec, OnlyTightens
=============================================================================
