------------------------------ MODULE Protocol ------------------------------
(***************************************************************************)
(* The frames a session exchanges over its TCP connection                  *)
(* (src/src/protocol.rs, framed by src/src/codec.rs).  A session is        *)
(*                                                                         *)
(*   PrepareTransfer -> TransferResponse                                   *)
(*     -> (StartFile, Data*, FileComplete)* -> SessionComplete             *)
(*                                                                         *)
(* with CancelTransfer allowed from either end.  Identifiers and tokens    *)
(* are one uuid per session or file and never collide, so a file is its    *)
(* position in the manifest.  File contents are counted in units: a Data   *)
(* frame says whose bytes it carries, how many, and whether they arrived   *)
(* as they were sent; a SHA-256 is the file and the number of units it     *)
(* was computed over.                                                      *)
(***************************************************************************)
EXTENDS Naturals, Sequences

CONSTANTS NFiles,     \* how many files the manifest announces
          Size        \* units of content of each file

Files == 1 .. NFiles

ASSUME FilesAssumption == NFiles \in Nat \ {0} /\ Size \in [Files -> Nat]

(* The two hosts of a session: the one that sends files, the one that      *)
(* receives them.                                                          *)
End == {"snd", "rcv"}

Other(e) == IF e = "snd" THEN "rcv" ELSE "snd"

PrepareTransfer(safe)    == [type |-> "PrepareTransfer", safe |-> safe]
TransferResponse(ok)     == [type |-> "TransferResponse", accepted |-> ok]
StartFile(f)             == [type |-> "StartFile", file |-> f]
Data(f, n)               == [type |-> "Data", file |-> f, units |-> n, intact |-> TRUE]
FileComplete(f, n)       == [type |-> "FileComplete", file |-> f, units |-> n]
SessionComplete          == [type |-> "SessionComplete"]
CancelTransfer           == [type |-> "CancelTransfer"]

(* What is left on the wire of a frame whose sender stopped half-way       *)
(* through writing it: the decoder reports bytes remaining on the stream.  *)
CutFrame                 == [type |-> "CutFrame"]

Frame ==
  [type : {"PrepareTransfer"}, safe : BOOLEAN]
    \cup [type : {"TransferResponse"}, accepted : BOOLEAN]
    \cup [type : {"StartFile"}, file : Files]
    \cup [type : {"Data"}, file : Files, units : Nat, intact : BOOLEAN]
    \cup [type : {"FileComplete"}, file : Files, units : Nat]
    \cup [type : {"SessionComplete", "CancelTransfer", "CutFrame"}]
=============================================================================
