--------------------------- MODULE OutboundAttempt ---------------------------
(* The landing states of a signed attempt, shared by withdrawals and       *)
(* deposit refunds (adapters/src/pg/outbound_tx.rs).                       *)

LandingState ==
    {"prepared", "broadcast", "unknown", "finalized", "definitive_failed"}

\* LandingState::is_live
LiveState == {"prepared", "broadcast", "unknown"}

\* Mutant: an attempt once unknown can no longer be finalized.
LegalAttemptEdge_UnknownStuck(from, to) ==
    \/ from = to
    \/ from = "prepared" /\ to \in {"broadcast", "unknown", "finalized", "definitive_failed"}
    \/ from = "broadcast" /\ to \in {"unknown", "finalized"}
    \/ from = "unknown" /\ to = "definitive_failed"

\* legal_attempt_edge
LegalAttemptEdge(from, to) ==
    \/ from = to
    \/ from = "prepared" /\ to \in {"broadcast", "unknown", "finalized", "definitive_failed"}
    \/ from = "broadcast" /\ to \in {"unknown", "finalized"}
    \/ from = "unknown" /\ to \in {"finalized", "definitive_failed"}
=============================================================================
