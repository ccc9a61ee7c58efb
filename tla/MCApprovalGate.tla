---------------------------- MODULE MCApprovalGate ----------------------------
(* ApprovalGate on small instances. *)
EXTENDS ApprovalGate, TLC
=============================================================================
