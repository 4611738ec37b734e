----------------------------- MODULE MCTransfer -----------------------------
(* Instances of Transfer for TLC. *)
EXTENDS Claims

(* Two files: one that takes a full Data frame and a shorter one, and an   *)
(* empty one.                                                              *)
LongThenEmpty == <<3, 0>>

(* One file of one unit. *)
OneUnit == <<1>>
=============================================================================
