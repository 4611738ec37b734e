----------------------------- MODULE MCFraming -----------------------------
(* Instances of Framing for TLC: bytes are 0 to 2 and a length has two of  *)
(* them; a command, Data of the same bytes, empty Data, Data of the        *)
(* largest size and beyond.                                                *)
EXTENDS Framing, TLC

Command  == {<<2, 1>>}
Content  == {<<>>, <<2, 1>>, <<0, 2, 0>>, <<1, 1, 1, 1>>}
=============================================================================
