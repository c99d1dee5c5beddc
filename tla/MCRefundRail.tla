---------------------------- MODULE MCRefundRail ----------------------------
(* Model-checking instances of RefundRail: two workers, each in a process  *)
(* of its own, three archival endpoints of which one may lie.              *)
EXTENDS RefundRail, TLC

CONSTANTS w1, w2, p1, p2, e1, e2, e3

MCHost == (w1 :> p1) @@ (w2 :> p2)
=============================================================================
