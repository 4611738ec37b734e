----------------------------- MODULE FrameQueue -----------------------------
(***************************************************************************)
(* What one direction of a connection promises those who send and read     *)
(* whole frames over it: each frame is handed out once, in the order they  *)
(* were sent; the end comes when the sender has hung up and every frame it *)
(* sent is there, with an error or without; and after the end nothing      *)
(* comes.  Once a byte is altered on the way, only what was handed out     *)
(* before is promised.                                                     *)
(***************************************************************************)
EXTENDS Naturals, Sequences, SequencesExt

CONSTANT Frames

VARIABLES
  sent,     \* the frames that have left the sender
  read,     \* the frames handed out
  hungUp,   \* the sender has hung up
  end,      \* "none", "clean" or "error"
  spoilt    \* a byte was altered

vars == <<sent, read, hungUp, end, spoilt>>

Init ==
  /\ sent = <<>> /\ read = <<>>
  /\ hungUp = FALSE /\ end = "none" /\ spoilt = FALSE

Put(f) ==
  /\ ~hungUp
  /\ sent' = Append(sent, f)
  /\ UNCHANGED <<read, hungUp, end, spoilt>>

HangUp ==
  /\ ~hungUp /\ hungUp' = TRUE
  /\ UNCHANGED <<sent, read, end, spoilt>>

(* The next frame that was not handed out yet.                             *)
Get ==
  /\ ~spoilt /\ end = "none" /\ Len(read) < Len(sent)
  /\ read' = Append(read, sent[Len(read) + 1])
  /\ UNCHANGED <<sent, hungUp, end, spoilt>>

Finish ==
  /\ ~spoilt /\ end = "none" /\ hungUp /\ read = sent
  /\ end' \in {"clean", "error"}
  /\ UNCHANGED <<sent, read, hungUp, spoilt>>

Spoil == spoilt' = TRUE /\ UNCHANGED <<sent, read, hungUp, end>>

(* Something or other is read, or reading ends.                            *)
Garble ==
  /\ spoilt /\ end = "none"
  /\ \/ IsPrefix(read, read') /\ UNCHANGED end
     \/ end' \in {"clean", "error"} /\ UNCHANGED read
  /\ UNCHANGED <<sent, hungUp, spoilt>>

Next == (\E f \in Frames : Put(f)) \/ HangUp \/ Get \/ Finish \/ Spoil \/ Garble

Spec == Init /\ [][Next]_vars
=============================================================================
