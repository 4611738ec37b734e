---------------------------- MODULE MCApprovals ----------------------------
(* Instances of Approvals for TLC.                                         *)
EXTENDS Approvals, TLC

CONSTANTS s1, s2, left, right
=============================================================================
