------------------------------- MODULE Framing -------------------------------
(***************************************************************************)
(* One direction of a connection, byte by byte: TransferCodec              *)
(* (src/src/codec.rs) at both ends and between them a TCP stream, which    *)
(* may hand over any number of bytes at a time and stop anywhere.  What is *)
(* read at the one end is what tokio's Framed makes of decode: it reads    *)
(* when decode wants more, and an end of the stream with bytes left over   *)
(* is an error.  Tcp takes the result for granted: a queue of whole        *)
(* frames, at its end perhaps a CutFrame.                                  *)
(*                                                                         *)
(* A byte is a number below Base and the length has LengthDigits of them   *)
(* (256 and 4).                                                            *)
(***************************************************************************)
EXTENDS Integers, Sequences, SequencesExt

CONSTANTS
  Base,
  LengthDigits,
  MaxFrame,       \* MAX_FRAME_SIZE
  Commands,       \* the payloads that parse as a TransferCommand
  Contents,       \* the payloads of Data frames, of any size
  MaxSent,        \* frames sent
  MaxAltered      \* bytes altered on the way

(* n without its last k digits, n >> 8 * k in bytes.                       *)
Upper(n) ==
  LET upper[k \in 0 .. LengthDigits] == IF k = 0 THEN n ELSE upper[k - 1] \div Base
  IN  upper

(* The length of the largest frame has no more than LengthDigits digits.   *)
ASSUME FramingAssumption ==
  /\ Base \in Nat \ {0, 1} /\ LengthDigits \in Nat \ {0}
  /\ MaxFrame \in Nat /\ Upper(MaxFrame)[LengthDigits] = 0
  /\ Commands \cup Contents \subseteq Seq(0 .. Base - 1)
  /\ MaxSent \in Nat /\ MaxAltered \in Nat

VARIABLES
  sent,       \* the frames the sender has got rid of
  now,        \* the frame it is sending, with out what is left of its bytes
  out,
  closed,     \* the sender has dropped the stream
  wire,       \* bytes on their way
  altered,    \* how many bytes were altered
  buffer,     \* src of decode
  poll,       \* whether Framed is to decode or to read, or how it has ended
  eof,        \* a read has come back empty
  read        \* the frames it has handed out

sendVars == <<sent, now, out, closed>>
readVars == <<buffer, poll, eof, read>>
vars == <<sendVars, wire, altered, readVars>>

Byte   == 0 .. Base - 1
Header == 1 + LengthDigits

Message(cmd) == [kind |-> 0, payload |-> cmd]
Data(bytes)  == [kind |-> 1, payload |-> bytes]
Frames == {Message(c) : c \in Commands} \cup {Data(c) : c \in Contents}

TypeOK ==
  /\ sent \in Seq(Frames) /\ read \in Seq([kind : {0, 1}, payload : Seq(Byte)])
  /\ now \in Frames \cup {<<>>}
  /\ out \in Seq(Byte) /\ wire \in Seq(Byte) /\ buffer \in Seq(Byte)
  /\ Len(sent) <= MaxSent
  /\ closed \in BOOLEAN /\ eof \in BOOLEAN
  /\ altered \in 0 .. MaxAltered
  /\ poll \in {"decode", "read", "end", "error"}

Init ==
  /\ sent = <<>> /\ now = <<>> /\ out = <<>> /\ closed = FALSE
  /\ wire = <<>> /\ altered = 0
  /\ buffer = <<>> /\ poll = "read" /\ eof = FALSE /\ read = <<>>

---------------------------------------------------------------------------
(* put_u32 and from_be_bytes: the length, its first digit the highest.     *)
Digits(n) == [i \in 1 .. LengthDigits |-> Upper(n)[LengthDigits - i] % Base]
Number(ds) ==
  LET value[i \in 0 .. Len(ds)] == IF i = 0 THEN 0 ELSE value[i - 1] * Base + ds[i]
  IN  value[Len(ds)]

Fits(f) == Len(f.payload) <= MaxFrame

(* encode                                                                  *)
Encoded(f) == <<f.kind>> \o Digits(Len(f.payload)) \o f.payload

(* framed.send: encoded into the write buffer, if it is not too large ...  *)
Send(f) ==
  /\ ~closed /\ now = <<>> /\ Len(sent) < MaxSent
  /\ Fits(f)
  /\ now' = f /\ out' = Encoded(f)
  /\ UNCHANGED <<sent, closed, wire, altered, readVars>>

(* ... and flushed, as the socket takes it.                                *)
Flush(n) ==
  /\ ~closed /\ now # <<>> /\ n \in 1 .. Len(out)
  /\ wire' = wire \o SubSeq(out, 1, n)
  /\ out' = SubSeq(out, n + 1, Len(out))
  /\ IF n = Len(out) THEN sent' = Append(sent, now) /\ now' = <<>>
                     ELSE UNCHANGED <<sent, now>>
  /\ UNCHANGED <<closed, altered, readVars>>

(* The sender is done or gives up, perhaps half-way through a frame.       *)
Close ==
  /\ ~closed /\ closed' = TRUE
  /\ UNCHANGED <<sent, now, out, wire, altered, readVars>>

Alter ==
  /\ altered < MaxAltered /\ altered' = altered + 1
  /\ \E i \in DOMAIN wire, b \in Byte : b # wire[i] /\ wire' = [wire EXCEPT ![i] = b]
  /\ UNCHANGED <<sendVars, readVars>>

(* A read of the socket: some bytes, or none at the end of the stream.     *)
Read(n) ==
  /\ poll = "read" /\ n \in 1 .. Len(wire)
  /\ buffer' = buffer \o SubSeq(wire, 1, n)
  /\ wire' = SubSeq(wire, n + 1, Len(wire))
  /\ poll' = "decode"
  /\ UNCHANGED <<sendVars, altered, eof, read>>

ReadNothing ==
  /\ poll = "read" /\ wire = <<>> /\ closed
  /\ eof' = TRUE /\ poll' = "decode"
  /\ UNCHANGED <<sendVars, wire, altered, buffer, read>>

Length == Number(SubSeq(buffer, 2, Header))
Payload == SubSeq(buffer, Header + 1, Header + Length)

(* Variant for the runs to refute, not the code: any length is believed.   *)
Believed == FALSE

TooLarge == Length > MaxFrame

(* Variant for the runs to refute, not the code: a frame waits for the     *)
(* first byte of the next one.                                             *)
WantsOneMore ==
  IF Len(buffer) < Header THEN TRUE
  ELSE ~TooLarge /\ Len(buffer) <= Header + Length

(* decode has not got a whole frame yet.                                   *)
WantsMore ==
  IF Len(buffer) < Header THEN TRUE
  ELSE ~TooLarge /\ Len(buffer) < Header + Length

Kind == buffer[1]

(* Variants for the runs to refute, not the code: whatever is no message   *)
(* is data; and the kind is guessed from the payload, as the old codec did *)
(* (codec.rs:3).                                                           *)
NotAMessage == Kind # 0 \/ Payload \in Commands
Guessed == IF Payload \in Commands THEN Message(Payload) ELSE Data(Payload)

(* Data is anything; a message parses as a command.                        *)
Valid == Kind = 1 \/ (Kind = 0 /\ Payload \in Commands)
Decoded == [kind |-> Kind, payload |-> Payload]

DecodeFrame ==
  /\ poll = "decode" /\ ~WantsMore /\ (~TooLarge /\ Valid)
  /\ read' = Append(read, Decoded)
  /\ buffer' = SubSeq(buffer, Header + Length + 1, Len(buffer))
  /\ UNCHANGED <<sendVars, wire, altered, poll, eof>>

DecodeFails ==
  /\ poll = "decode" /\ ~WantsMore /\ ~(~TooLarge /\ Valid)
  /\ poll' = "error"
  /\ UNCHANGED <<sendVars, wire, altered, buffer, eof, read>>

(* Variant for the runs to refute, not the code: an end of the stream is   *)
(* taken for a read that had nothing yet.                                  *)
ReadsOn ==
  /\ poll = "decode" /\ WantsMore
  /\ poll' = "read"
  /\ UNCHANGED <<sendVars, wire, altered, buffer, eof, read>>

(* Nothing to hand out: Framed reads on, or at the end of the stream       *)
(* reports whether bytes remain.                                           *)
DecodeNothing ==
  /\ poll = "decode" /\ WantsMore
  /\ poll' = CASE ~eof -> "read" [] eof /\ buffer = <<>> -> "end" [] OTHER -> "error"
  /\ UNCHANGED <<sendVars, wire, altered, buffer, eof, read>>

Next ==
  \/ \E f \in Frames : Send(f)
  \/ \E n \in 1 .. Len(out) : Flush(n)
  \/ Close \/ Alter
  \/ \E n \in 1 .. Len(wire) : Read(n)
  \/ ReadNothing \/ DecodeFrame \/ DecodeFails \/ DecodeNothing

Spec == Init /\ [][Next]_vars

(* The receiving task is polled as long as there is something for it.      *)
FairSpec ==
  /\ Spec
  /\ WF_vars(\E n \in 1 .. Len(wire) : Read(n)) /\ WF_vars(ReadNothing)
  /\ WF_vars(DecodeFrame) /\ WF_vars(DecodeFails) /\ WF_vars(DecodeNothing)

---------------------------------------------------------------------------
(* However the stream is split and wherever it stops, the frames handed    *)
(* out are those sent, kind and content, in their order -- Data that looks *)
(* like a command too (codec.rs:137) -- and the stream is only over        *)
(* without an error when all of them are there: an error means a cut frame *)
(* (what Tcp takes for granted).                                           *)
Cut == closed /\ now # <<>> /\ Len(out) < Len(Encoded(now))

FramesAsSent ==
  altered = 0 =>
    /\ IsPrefix(read, sent)
    /\ poll = "end" => read = sent /\ ~Cut
    /\ poll = "error" => read = sent /\ Cut

(* The stream seen as a queue of whole frames, as sessions use it.         *)
QueueEnd == CASE poll = "end" -> "clean" [] poll = "error" -> "error" [] OTHER -> "none"

Queue == INSTANCE FrameQueue
  WITH hungUp <- closed, end <- QueueEnd, spoilt <- altered > 0

(* Every step of the two codecs, their buffers and the socket is a step of *)
(* the queue or leaves it alone: each frame comes out once and in its turn *)
(* (codec.rs:24-88), and nothing comes after the end.                      *)
KeepsFrames == Queue!Spec

(* While it waits for more, the decoder holds less than one frame of the   *)
(* largest size, whatever length the stream announces (codec.rs:34).       *)
BufferBounded == poll = "read" => Len(buffer) < Header + MaxFrame

(* Each frame that has left the sender is handed out, as soon as its last  *)
(* byte is there: none waits for the next one (codec.rs:41).               *)
AllHandedOut == <>[](altered = 0 => read = sent)

(* Altered bytes or not, when the sender has hung up the reading ends.     *)
ReadingEnds == closed ~> poll \in {"end", "error"}
=============================================================================
