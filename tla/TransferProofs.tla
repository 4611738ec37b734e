--------------------------- MODULE TransferProofs ---------------------------
(***************************************************************************)
(* What holds of a session for any number of files of any size, any        *)
(* buffer and chunk sizes, and any misfortunes: it is well typed           *)
(* (TypeCorrect), nothing is written without approval (ApprovalRequired),  *)
(* the prompt is answered as if in one step (DecideIsAtomic), and what     *)
(* lands is whole (LandedFilesAreWhole).  Each part starts with the        *)
(* invariant that is inductive, and why it has to say more than the        *)
(* property does; then one lemma for each of the two hosts and the         *)
(* environment, with a step per action.                                    *)
(***************************************************************************)
EXTENDS Transfer, SequenceTheorems, TLAPS

---------------------------------------------------------------------------
(* What the operations of the connection preserve: cited for every step    *)
(* that touches the wire.  F is any set that the frames on the wire belong *)
(* to, be it the frames of the protocol or those that are as an honest     *)
(* sender writes them.                                                     *)

(* The other end is an end (two hosts per session).                        *)
LEMMA OtherEnd == ASSUME NEW e \in End PROVE Other(e) \in End
  BY DEF End, Other

(* The two ends by name.                                                   *)
LEMMA Ends == "snd" \in End /\ "rcv" \in End
  BY DEF End

---------------------------------------------------------------------------
(* The frames on the wire                                                  *)

(* A write adds the frame written, or nothing (transfer.rs, framed.send).  *)
LEMMA SendOkFrames ==
  ASSUME NEW F, wire \in [End -> Seq(F)], NEW e \in End, NEW m \in F, SendOk(e, m)
  PROVE  wire' \in [End -> Seq(F)]
<1>1. CASE Queued(e, m)
  <2>1. Other(e) \in End /\ wire[Other(e)] \in Seq(F)
    BY OtherEnd
  <2>2. Append(wire[Other(e)], m) \in Seq(F)
    BY <2>1
  <2> QED
    BY <1>1, <2>1, <2>2 DEF Queued
<1>2. CASE Swallowed(e)
  BY <1>2 DEF Swallowed
<1> QED
  BY <1>1, <1>2 DEF SendOk

(* A write whose error is discarded (let _ = framed.send).                 *)
LEMMA SendIgnoringErrorsFrames ==
  ASSUME NEW F, wire \in [End -> Seq(F)], NEW e \in End, NEW m \in F,
         SendIgnoringErrors(e, m)
  PROVE  wire' \in [End -> Seq(F)]
  BY SendOkFrames DEF SendIgnoringErrors, SendFails, tcpVars

(* A read takes one of the frames on the wire (framed.next).               *)
LEMMA TakeFrames ==
  ASSUME NEW F, wire \in [End -> Seq(F)], NEW e \in End, Readable(e), Take(e)
  PROVE  wire' \in [End -> Seq(F)] /\ NextFrame(e) \in F
<1>1. wire[e] \in Seq(F) /\ wire[e] # <<>>
  BY DEF Readable
<1>2. Head(wire[e]) \in F /\ Tail(wire[e]) \in Seq(F)
  BY <1>1
<1> QED
  BY <1>2 DEF Take, NextFrame

(* Dropping the stream, in the middle of a frame or not.                   *)
LEMMA CloseAfterFrames ==
  ASSUME NEW F, wire \in [End -> Seq(F)], NEW e \in End, NEW pushed \in Seq(F),
         CloseAfter(e, pushed)
  PROVE  wire' \in [End -> Seq(F)]
<1> DEFINE p       == Other(e)
           reaches == up /\ e \notin fin /\ e \notin reset
           out     == IF reaches THEN wire[p] \o pushed ELSE wire[p]
           rst     == reaches /\ Readable(e)
<1>1. p \in End /\ wire[p] \in Seq(F)
  BY OtherEnd
<1>2. wire[p] \o pushed \in Seq(F)
  BY <1>1
<1>3. out \in Seq(F) /\ <<>> \in Seq(F)
  BY <1>1, <1>2
<1>4. PICK left \in (IF rst THEN {out, <<>>} ELSE {out}) :
        wire' = [wire EXCEPT ![e] = <<>>, ![p] = left]
  BY DEF CloseAfter
<1>5. left \in Seq(F)
  BY <1>3, <1>4
<1> QED
  BY <1>1, <1>3, <1>4, <1>5

(* Dropping the stream between two frames.                                 *)
LEMMA CloseFrames ==
  ASSUME NEW F, wire \in [End -> Seq(F)], NEW e \in End, Close(e)
  PROVE  wire' \in [End -> Seq(F)]
<1>1. <<>> \in Seq(F)
  OBVIOUS
<1> QED
  BY <1>1, CloseAfterFrames DEF Close

(* The network fails and a prefix of what was in flight is left.           *)
LEMMA NetworkFailsFrames ==
  ASSUME NEW F, wire \in [End -> Seq(F)], NetworkFails
  PROVE  wire' \in [End -> Seq(F)]
<1>1. PICK kept \in [End -> 0 .. Window + 1] :
        /\ \A e \in End : kept[e] <= Len(wire[e])
        /\ wire' = [e \in End |-> SubSeq(wire[e], 1, kept[e])]
  BY DEF NetworkFails
<1>2. ASSUME NEW e \in End PROVE SubSeq(wire[e], 1, kept[e]) \in Seq(F)
  <2>1. wire[e] \in Seq(F) /\ kept[e] \in 0 .. Len(wire[e])
    BY <1>1, WindowAssumption, LenProperties
  <2> QED
    BY <2>1, SubSeqProperties
<1> QED
  BY <1>1, <1>2

(* A Data frame is altered in flight; the others are as they were.         *)
LEMMA DataAlteredFrames ==
  ASSUME NEW F, wire \in [End -> Seq(F)], DataAltered,
         \A m \in F : m.type = "Data" => [m EXCEPT !.intact = FALSE] \in F
  PROVE  wire' \in [End -> Seq(F)]
<1> DEFINE w == wire["rcv"]
<1>1. PICK i \in DOMAIN w :
        /\ w[i].type = "Data"
        /\ wire' = [wire EXCEPT !["rcv"][i].intact = FALSE]
  BY DEF DataAltered
<1>2. w \in Seq(F) /\ w[i] \in F
  BY <1>1, Ends
<1>3. [w[i] EXCEPT !.intact = FALSE] \in F
  BY <1>1, <1>2
<1>4. [w EXCEPT ![i] = [w[i] EXCEPT !.intact = FALSE]] \in Seq(F)
  BY <1>1, <1>2, <1>3
<1>5. wire' = [wire EXCEPT !["rcv"] = [w EXCEPT ![i] = [w[i] EXCEPT !.intact = FALSE]]]
  BY <1>1
<1> QED
  BY <1>4, <1>5

---------------------------------------------------------------------------
(* What each operation does to either direction, for proofs that follow    *)
(* the order of the frames.                                                *)

(* The other end of each, by name.                                         *)
LEMMA Others == Other("snd") = "rcv" /\ Other("rcv") = "snd"
  BY DEF Other

(* A write that returns Ok appends to what the peer has still to read, or  *)
(* is swallowed; it says nothing about the other direction.                *)
LEMMA SendOkEffect ==
  ASSUME wire \in [End -> Seq(Frame)], NEW e \in End, NEW m, SendOk(e, m)
  PROVE  /\ wire'[e] = wire[e] /\ UNCHANGED <<fin, up>> /\ reset \subseteq reset'
         /\ \/ up /\ e \notin fin /\ wire'[Other(e)] = Append(wire[Other(e)], m)
            \/ ~(up /\ e \notin fin) /\ wire'[Other(e)] = wire[Other(e)]
<1>1. Other(e) \in End /\ Other(e) # e
  BY DEF Other, End
<1>2. CASE Queued(e, m)
  BY <1>1, <1>2 DEF Queued
<1>3. CASE Swallowed(e)
  BY <1>1, <1>3 DEF Swallowed
<1> QED
  BY <1>2, <1>3 DEF SendOk

(* Dropping the stream throws away what its owner has not read; the peer   *)
(* still reads what was on its way, or a RST takes that with it.           *)
LEMMA CloseAfterEffect ==
  ASSUME wire \in [End -> Seq(Frame)], NEW e \in End, NEW pushed, CloseAfter(e, pushed)
  PROVE  /\ wire'[e] = <<>> /\ UNCHANGED up
         /\ fin' = IF up THEN fin \cup {Other(e)} ELSE fin
         /\ reset \subseteq reset' /\ reset' \subseteq reset \cup {Other(e)}
         /\ \/ wire'[Other(e)] = wire[Other(e)]
            \/ wire'[Other(e)] = wire[Other(e)] \o pushed
            \/ wire'[Other(e)] = <<>> /\ Other(e) \in reset'
<1>1. Other(e) \in End /\ Other(e) # e
  BY DEF Other, End
<1> QED
  BY <1>1 DEF CloseAfter

(* Between two frames nothing is pushed after them.                        *)
LEMMA CloseEffect ==
  ASSUME wire \in [End -> Seq(Frame)], NEW e \in End, Close(e)
  PROVE  /\ wire'[e] = <<>> /\ UNCHANGED up
         /\ fin' = IF up THEN fin \cup {Other(e)} ELSE fin
         /\ reset \subseteq reset' /\ reset' \subseteq reset \cup {Other(e)}
         /\ \/ wire'[Other(e)] = wire[Other(e)]
            \/ wire'[Other(e)] = <<>> /\ Other(e) \in reset'
<1>1. wire[Other(e)] \in Seq(Frame)
  BY OtherEnd
<1>2. wire[Other(e)] \o <<>> = wire[Other(e)]
  BY <1>1
<1> QED
  BY <1>2, CloseAfterEffect DEF Close

(* The failing network leaves each end a prefix of what was on its way; an *)
(* end that still reads the end of the stream reads all of it before.      *)
LEMMA NetworkFailsEffect ==
  ASSUME wire \in [End -> Seq(Frame)], NetworkFails, NEW e \in End
  PROVE  /\ ~up' /\ fin' \subseteq fin /\ reset \subseteq reset'
         /\ \E n \in 0 .. Len(wire[e]) : wire'[e] = SubSeq(wire[e], 1, n)
         /\ e \in fin' => wire'[e] = wire[e]
<1>1. PICK kept \in [End -> 0 .. Window + 1] :
        /\ \A d \in End : kept[d] <= Len(wire[d])
        /\ wire' = [d \in End |-> SubSeq(wire[d], 1, kept[d])]
        /\ fin' = {d \in fin : kept[d] = Len(wire[d])}
  BY DEF NetworkFails
<1>2. wire[e] \in Seq(Frame) /\ kept[e] \in 0 .. Len(wire[e])
  BY <1>1, WindowAssumption, LenProperties
<1>3. SubSeq(wire[e], 1, Len(wire[e])) = wire[e]
  BY <1>2
<1> QED
  BY <1>1, <1>2, <1>3 DEF NetworkFails

(* An altered Data frame keeps its place, its type and its file.           *)
LEMMA DataAlteredEffect ==
  ASSUME wire \in [End -> Seq(Frame)], DataAltered
  PROVE  /\ wire'["snd"] = wire["snd"] /\ UNCHANGED <<fin, reset, up>>
         /\ Len(wire'["rcv"]) = Len(wire["rcv"])
         /\ \A i \in 1 .. Len(wire["rcv"]) :
              \/ wire'["rcv"][i] = wire["rcv"][i]
              \/ /\ wire["rcv"][i].type = "Data" /\ wire'["rcv"][i].type = "Data"
                 /\ wire'["rcv"][i].file = wire["rcv"][i].file
<1> DEFINE w == wire["rcv"]
<1>1. PICK i \in DOMAIN w :
        w[i].type = "Data" /\ wire' = [wire EXCEPT !["rcv"][i].intact = FALSE]
  BY DEF DataAltered
<1>2. w \in Seq(Frame) /\ w[i] \in Frame
  BY <1>1, Ends
<1>3. wire'["rcv"] = [w EXCEPT ![i] = [w[i] EXCEPT !.intact = FALSE]]
  BY <1>1, Ends
<1>4. /\ [w[i] EXCEPT !.intact = FALSE].type = "Data"
      /\ [w[i] EXCEPT !.intact = FALSE].file = w[i].file
  BY <1>1, <1>2 DEF Frame
<1>5. Len(wire'["rcv"]) = Len(w)
  BY <1>2, <1>3
<1>6. wire'["snd"] = wire["snd"] /\ UNCHANGED <<fin, reset, up>>
  BY <1>1, Ends DEF DataAltered
<1> QED
  BY <1>1, <1>2, <1>3, <1>4, <1>5, <1>6

(* A read takes the first frame of its own direction.                      *)
LEMMA TakeEffect ==
  ASSUME wire \in [End -> Seq(Frame)], NEW e \in End, Take(e)
  PROVE  /\ wire'[e] = Tail(wire[e]) /\ wire'[Other(e)] = wire[Other(e)]
         /\ UNCHANGED <<fin, reset, up>>
  BY DEF Take, Other, End

---------------------------------------------------------------------------
(* The type of the connection                                              *)

(* It depends on the variables of the connection only.                     *)
LEMMA TcpUnchanged == TcpTypeOK /\ UNCHANGED tcpVars => TcpTypeOK'
  BY DEF TcpTypeOK, tcpVars

(* A write that returns Ok keeps the connection well typed.                *)
LEMMA SendOkType ==
  ASSUME TcpTypeOK, NEW e \in End, NEW m \in Frame, SendOk(e, m)
  PROVE  TcpTypeOK'
<1>1. wire' \in [End -> Seq(Frame)]
  BY SendOkFrames DEF TcpTypeOK
<1> QED
  BY <1>1 DEF TcpTypeOK, SendOk, Queued, Swallowed

(* So does one whose error is discarded.                                   *)
LEMMA SendIgnoringErrorsType ==
  ASSUME TcpTypeOK, NEW e \in End, NEW m \in Frame, SendIgnoringErrors(e, m)
  PROVE  TcpTypeOK'
  BY SendOkType, TcpUnchanged DEF SendIgnoringErrors, SendFails

(* A read keeps it well typed and yields a frame of the protocol.          *)
LEMMA TakeType ==
  ASSUME TcpTypeOK, NEW e \in End, Readable(e), Take(e)
  PROVE  TcpTypeOK' /\ NextFrame(e) \in Frame
<1>1. wire' \in [End -> Seq(Frame)] /\ NextFrame(e) \in Frame
  BY TakeFrames DEF TcpTypeOK
<1> QED
  BY <1>1 DEF TcpTypeOK, Take

(* Dropping the stream, even half-way through a frame, keeps it well       *)
(* typed.                                                                  *)
LEMMA CloseAfterType ==
  ASSUME TcpTypeOK, NEW e \in End, NEW pushed \in Seq(Frame), CloseAfter(e, pushed)
  PROVE  TcpTypeOK'
<1>1. wire' \in [End -> Seq(Frame)]
  BY CloseAfterFrames DEF TcpTypeOK
<1>2. fin' \subseteq End /\ reset' \subseteq End /\ up' \in BOOLEAN
  BY OtherEnd DEF TcpTypeOK, CloseAfter
<1> QED
  BY <1>1, <1>2 DEF TcpTypeOK

(* Dropping the stream between two frames keeps it well typed.             *)
LEMMA CloseType ==
  ASSUME TcpTypeOK, NEW e \in End, Close(e)
  PROVE  TcpTypeOK'
<1>1. <<>> \in Seq(Frame)
  OBVIOUS
<1> QED
  BY <1>1, CloseAfterType DEF Close

(* The failure of the network keeps the connection well typed.             *)
LEMMA NetworkFailsType ==
  ASSUME TcpTypeOK, NetworkFails
  PROVE  TcpTypeOK'
<1>1. wire' \in [End -> Seq(Frame)]
  BY NetworkFailsFrames DEF TcpTypeOK
<1> QED
  BY <1>1 DEF TcpTypeOK, NetworkFails

(* An altered Data frame is still a frame of the protocol.                 *)
LEMMA DataAlteredType ==
  ASSUME TcpTypeOK, DataAltered
  PROVE  TcpTypeOK'
<1>1. ASSUME NEW m \in Frame, m.type = "Data" PROVE [m EXCEPT !.intact = FALSE] \in Frame
  BY <1>1 DEF Frame
<1>2. wire' \in [End -> Seq(Frame)]
  BY <1>1, DataAlteredFrames DEF TcpTypeOK
<1> QED
  BY <1>2 DEF TcpTypeOK, DataAltered

---------------------------------------------------------------------------
(* Type correctness.  A handler indexes the manifest only while it is at a *)
(* file of it, and takes a chunk out of its buffer only when one is there: *)
(* TypeOK is inductive together with that.                                 *)
AtFile == {"start", "stream", "push", "flush", "complete", "filed"}

SenderInv ==
  /\ spc \in {"connect", "prepare", "list", "await"} => cur = 0
  /\ spc \in AtFile => cur \in Files
  /\ spc = "field" => cur < NFiles
  /\ spc = "push" => buf >= ChunkSize

TypeInv == TypeOK /\ SenderInv

(* The type of each part depends on the variables of that part only.       *)
LEMMA StateUnchanged == StateTypeOK /\ UNCHANGED stateVars => StateTypeOK'
  BY DEF StateTypeOK, stateVars, tokenVars, approvalVars

(* So it is for the handler that sends.                                    *)
LEMMA SenderUnchanged ==
  SenderTypeOK /\ SenderInv /\ UNCHANGED senderVars => SenderTypeOK' /\ SenderInv'
  BY DEF SenderTypeOK, SenderInv, senderVars

(* And for the task that receives.                                         *)
LEMMA ReceiverUnchanged == ReceiverTypeOK /\ UNCHANGED receiverVars => ReceiverTypeOK'
  BY DEF ReceiverTypeOK, receiverVars


(* The frames the program sends are frames of the protocol.                *)
LEMMA FrameTypes ==
  /\ \A b \in BOOLEAN : PrepareTransfer(b) \in Frame /\ TransferResponse(b) \in Frame
  /\ \A f \in Files, n \in Nat :
       StartFile(f) \in Frame /\ Data(f, n) \in Frame /\ FileComplete(f, n) \in Frame
  /\ SessionComplete \in Frame /\ CancelTransfer \in Frame /\ CutFrame \in Frame
  BY DEF Frame, PrepareTransfer, TransferResponse, StartFile, Data, FileComplete,
         SessionComplete, CancelTransfer, CutFrame

(* So is what is left of a frame cut short.                                *)
LEMMA CutSeq == <<CutFrame>> \in Seq(Frame)
  BY FrameTypes

(* The session's own task changes its host's entry in these ways only.     *)
LEMMA SetStatusType ==
  ASSUME StateTypeOK, NEW e \in End, NEW s \in TransferStatus \cup {"None"}, SetStatus(e, s),
         UNCHANGED <<files, tokenVars, approvalVars>>
  PROVE  StateTypeOK'
  BY DEF StateTypeOK, SetStatus, tokenVars, approvalVars

(* finish_file marks one file of the manifest, done or with its error.     *)
LEMMA FinishFileType ==
  ASSUME StateTypeOK, NEW e \in End, NEW f, NEW r \in FileProgress, FinishFile(e, f, r),
         UNCHANGED <<status, tokenVars, approvalVars>>
  PROVE  StateTypeOK'
<1>1. files[e] \in [Files -> FileProgress]
  BY DEF StateTypeOK
<1>2. files' = [files EXCEPT ![e] = [files[e] EXCEPT ![f] = r]]
  BY DEF FinishFile
<1>3. [files[e] EXCEPT ![f] = r] \in [Files -> FileProgress]
  BY <1>1
<1>4. files' \in [End -> [Files -> FileProgress]]
  BY <1>2, <1>3 DEF StateTypeOK
<1> QED
  BY <1>4 DEF StateTypeOK, tokenVars, approvalVars


(* The handler's own steps.                                                *)
LEMMA SenderKeepsTypes ==
  ASSUME TypeInv, NEW safe \in Manifests, SenderOwnStep(safe)
  PROVE  TcpTypeOK' /\ StateTypeOK' /\ SenderTypeOK' /\ SenderInv'
<1> USE TransferAssumption, SenderAssumption, FilesAssumption
<1>0. TcpTypeOK /\ StateTypeOK /\ SenderTypeOK /\ SenderInv
  BY DEF TypeInv, TypeOK
<1>1. CASE Connect
  <2>1. TcpTypeOK'
    BY <1>0, <1>1, TcpUnchanged DEF Connect
  <2>2. StateTypeOK'
    BY <1>0, <1>1 DEF Connect, StateTypeOK, RegisterCancellable, approvalVars, End
  <2>3. SenderTypeOK' /\ SenderInv'
    BY <1>0, <1>1 DEF Connect, SenderTypeOK, SenderInv, SenderPhase, Writing, AtFile,
       Goto
  <2> QED
    BY <2>1, <2>2, <2>3
<1>2. CASE SendPrepare(safe)
  <2>1. TcpTypeOK'
    BY <1>0, <1>2, SendOkType, FrameTypes, Ends DEF SendPrepare
  <2>2. StateTypeOK'
    BY <1>0, <1>2, StateUnchanged DEF SendPrepare
  <2>3. SenderTypeOK' /\ SenderInv'
    BY <1>0, <1>2 DEF SendPrepare, SenderTypeOK, SenderInv, SenderPhase, Writing, AtFile,
       Goto
  <2> QED
    BY <2>1, <2>2, <2>3
<1>3. CASE ListTransfer
  <2>1. TcpTypeOK'
    BY <1>0, <1>3, TcpUnchanged DEF ListTransfer
  <2>2. StateTypeOK'
    BY <1>0, <1>3, Ends DEF ListTransfer, StateTypeOK, AddTransfer, TransferStatus, tokenVars,
       approvalVars
  <2>3. SenderTypeOK' /\ SenderInv'
    BY <1>0, <1>3 DEF ListTransfer, SenderTypeOK, SenderInv, SenderPhase, Writing, AtFile,
       Goto
  <2> QED
    BY <2>1, <2>2, <2>3
<1>4. CASE CancelledWhileWaiting
  <2>1. TcpTypeOK'
    BY <1>0, <1>4, TcpUnchanged DEF CancelledWhileWaiting
  <2>2. StateTypeOK'
    BY <1>0, <1>4, StateUnchanged DEF CancelledWhileWaiting
  <2>3. SenderTypeOK' /\ SenderInv'
    BY <1>0, <1>4 DEF CancelledWhileWaiting, SenderTypeOK, SenderInv, SenderPhase, Writing,
       AtFile,
       Goto, SettleAs, Finished, TransferStatus
  <2> QED
    BY <2>1, <2>2, <2>3
<1>5. CASE PeerAccepts
  <2>1. TcpTypeOK'
    BY <1>0, <1>5, TakeType, FrameTypes, Ends DEF PeerAccepts
  <2>2. StateTypeOK'
    BY <1>0, <1>5, SetStatusType, Ends DEF PeerAccepts, TransferStatus
  <2>3. SenderTypeOK' /\ SenderInv'
    BY <1>0, <1>5 DEF PeerAccepts, SenderTypeOK, SenderInv, SenderPhase, Writing, AtFile,
       Goto
  <2> QED
    BY <2>1, <2>2, <2>3
<1>6. CASE PeerRejects
  <2>1. TcpTypeOK'
    BY <1>0, <1>6, TakeType, FrameTypes, Ends DEF PeerRejects
  <2>2. StateTypeOK'
    BY <1>0, <1>6, StateUnchanged DEF PeerRejects
  <2>3. SenderTypeOK' /\ SenderInv'
    BY <1>0, <1>6 DEF PeerRejects, SenderTypeOK, SenderInv, SenderPhase, Writing, AtFile,
       Goto, SettleAs, Finished, TransferStatus
  <2> QED
    BY <2>1, <2>2, <2>3
<1>7. CASE PeerGivesNoVerdict
  <2>1. TcpTypeOK'
    BY <1>0, <1>7, TakeType, TcpUnchanged, FrameTypes, Ends DEF PeerGivesNoVerdict
  <2>2. StateTypeOK'
    BY <1>0, <1>7, StateUnchanged DEF PeerGivesNoVerdict
  <2>3. SenderTypeOK' /\ SenderInv'
    BY <1>0, <1>7 DEF PeerGivesNoVerdict, SenderTypeOK, SenderInv, SenderPhase, Writing, AtFile,
       Goto
  <2> QED
    BY <2>1, <2>2, <2>3
<1>8. CASE SendStartFile
  <2>1. TcpTypeOK'
    BY <1>0, <1>8, SendOkType, FrameTypes, Ends DEF SendStartFile, SenderInv, AtFile, Goto
  <2>2. StateTypeOK'
    BY <1>0, <1>8, StateUnchanged DEF SendStartFile
  <2>3. SenderTypeOK' /\ SenderInv'
    BY <1>0, <1>8 DEF SendStartFile, SenderTypeOK, SenderInv, SenderPhase, Writing, AtFile,
       Goto, Files
  <2> QED
    BY <2>1, <2>2, <2>3
<1>9. CASE PushData
  <2>1. TcpTypeOK'
    BY <1>0, <1>9, SendOkType, FrameTypes, Ends DEF PushData, SenderInv, AtFile
  <2>2. StateTypeOK'
    BY <1>0, <1>9, StateUnchanged DEF PushData
  <2>3. SenderTypeOK' /\ SenderInv'
    BY <1>0, <1>9 DEF PushData, SenderTypeOK, SenderInv, SenderPhase, Writing, AtFile,
       Goto, AfterWrite
  <2> QED
    BY <2>1, <2>2, <2>3
<1>10. CASE FlushBuffer
  <2>1. TcpTypeOK'
    BY <1>0, <1>10, SendOkType, FrameTypes, Ends DEF FlushBuffer, SenderInv, AtFile,
       SenderTypeOK, Goto
  <2>2. StateTypeOK'
    BY <1>0, <1>10, StateUnchanged DEF FlushBuffer
  <2>3. SenderTypeOK' /\ SenderInv'
    BY <1>0, <1>10 DEF FlushBuffer, SenderTypeOK, SenderInv, SenderPhase, Writing, AtFile,
       Goto
  <2> QED
    BY <2>1, <2>2, <2>3
<1>11. CASE SendFileComplete
  <2>1. TcpTypeOK'
    BY <1>0, <1>11, SendOkType, FrameTypes, Ends DEF SendFileComplete, SenderInv, AtFile,
       SenderTypeOK, Goto
  <2>2. StateTypeOK'
    BY <1>0, <1>11, StateUnchanged DEF SendFileComplete
  <2>3. SenderTypeOK' /\ SenderInv'
    BY <1>0, <1>11 DEF SendFileComplete, SenderTypeOK, SenderInv, SenderPhase, Writing, AtFile,
       Goto
  <2> QED
    BY <2>1, <2>2, <2>3
<1>12. CASE FileSent
  <2>1. TcpTypeOK'
    BY <1>0, <1>12, TcpUnchanged DEF FileSent
  <2>2. StateTypeOK'
    BY <1>0, <1>12, FinishFileType, Ends DEF FileSent, FileProgress
  <2>3. SenderTypeOK' /\ SenderInv'
    BY <1>0, <1>12 DEF FileSent, SenderTypeOK, SenderInv, SenderPhase, Writing, AtFile,
       Goto, Files
  <2> QED
    BY <2>1, <2>2, <2>3
<1>13. CASE SendSessionComplete
  <2>1. TcpTypeOK'
    BY <1>0, <1>13, SendOkType, FrameTypes, Ends DEF SendSessionComplete
  <2>2. StateTypeOK'
    BY <1>0, <1>13, StateUnchanged DEF SendSessionComplete
  <2>3. SenderTypeOK' /\ SenderInv'
    BY <1>0, <1>13 DEF SendSessionComplete, SenderTypeOK, SenderInv, SenderPhase, Writing,
       AtFile,
       Goto, SettleAs, Finished, TransferStatus
  <2> QED
    BY <2>1, <2>2, <2>3
<1>14. CASE WriteFails
  <2>1. TcpTypeOK'
    BY <1>0, <1>14, TcpUnchanged, FrameTypes, Ends DEF WriteFails, SendFails
  <2>2. StateTypeOK'
    BY <1>0, <1>14, StateUnchanged DEF WriteFails
  <2>3. SenderTypeOK' /\ SenderInv'
    BY <1>0, <1>14 DEF WriteFails, SenderTypeOK, SenderInv, SenderPhase, Writing, AtFile,
       Goto
  <2> QED
    BY <2>1, <2>2, <2>3
<1>15. CASE HandleError
  <2>1. TcpTypeOK'
    BY <1>0, <1>15, TcpUnchanged DEF HandleError
  <2>2. StateTypeOK'
    BY <1>0, <1>15, StateUnchanged DEF HandleError
  <2>3. SenderTypeOK' /\ SenderInv'
    BY <1>0, <1>15 DEF HandleError, SenderTypeOK, SenderInv, SenderPhase, Writing, AtFile,
       Goto, Finished, TransferStatus
  <2> QED
    BY <2>1, <2>2, <2>3
<1>16. CASE NotifyPeer
  <2>1. TcpTypeOK'
    BY <1>0, <1>16, SendIgnoringErrorsType, TcpUnchanged, FrameTypes, Ends DEF NotifyPeer
  <2>2. StateTypeOK'
    BY <1>0, <1>16, StateUnchanged DEF NotifyPeer
  <2>3. SenderTypeOK' /\ SenderInv'
    BY <1>0, <1>16 DEF NotifyPeer, SenderTypeOK, SenderInv, SenderPhase, Writing, AtFile,
       Goto
  <2> QED
    BY <2>1, <2>2, <2>3
<1>17. CASE SettleSender
  <2>1. TcpTypeOK'
    BY <1>0, <1>17, TcpUnchanged DEF SettleSender
  <2>2. StateTypeOK'
    BY <1>0, <1>17, SetStatusType, Ends DEF SettleSender, SenderTypeOK, Finished, TransferStatus
  <2>3. SenderTypeOK' /\ SenderInv'
    BY <1>0, <1>17 DEF SettleSender, SenderTypeOK, SenderInv, SenderPhase, Writing, AtFile,
       Goto
  <2> QED
    BY <2>1, <2>2, <2>3
<1>18. CASE LeaveSender
  <2>1. TcpTypeOK'
    BY <1>0, <1>18, TcpUnchanged DEF LeaveSender
  <2>2. StateTypeOK'
    BY <1>0, <1>18, Ends DEF LeaveSender, StateTypeOK, DropToken, approvalVars
  <2>3. SenderTypeOK' /\ SenderInv'
    BY <1>0, <1>18 DEF LeaveSender, SenderTypeOK, SenderInv, SenderPhase, Writing, AtFile,
       Goto
  <2> QED
    BY <2>1, <2>2, <2>3
<1>19. CASE Respond
  <2>1. TcpTypeOK'
    BY <1>0, <1>19, CloseType, FrameTypes, Ends DEF Respond
  <2>2. StateTypeOK'
    BY <1>0, <1>19, StateUnchanged DEF Respond
  <2>3. SenderTypeOK' /\ SenderInv'
    BY <1>0, <1>19 DEF Respond, SenderTypeOK, SenderInv, SenderPhase, Writing, AtFile,
       Goto
  <2> QED
    BY <2>1, <2>2, <2>3
<1> QED
  BY <1>1, <1>2, <1>3, <1>4, <1>5, <1>6, <1>7, <1>8, <1>9, <1>10, <1>11, <1>12, <1>13, <1>14,
     <1>15, <1>16, <1>17, <1>18, <1>19 DEF SenderOwnStep

(* What the browser does to the handler, and the timer of its wait.        *)
LEMMA BrowserKeepsTypes ==
  ASSUME TypeInv,
       UploadStep \/ ConnectFails \/ UploadFails \/ HandlerDropped \/ ResponseTimesOut
  PROVE  TcpTypeOK' /\ StateTypeOK' /\ SenderTypeOK' /\ SenderInv'
<1> USE TransferAssumption, SenderAssumption, FilesAssumption
<1>0. TcpTypeOK /\ StateTypeOK /\ SenderTypeOK /\ SenderInv
  BY DEF TypeInv, TypeOK
<1>1. CASE NextField
  <2>1. TcpTypeOK'
    BY <1>0, <1>1, TcpUnchanged DEF NextField
  <2>2. StateTypeOK'
    BY <1>0, <1>1, StateUnchanged DEF NextField
  <2>3. SenderTypeOK' /\ SenderInv'
    BY <1>0, <1>1 DEF NextField, SenderTypeOK, SenderInv, SenderPhase, Writing, AtFile,
       Goto, Files
  <2> QED
    BY <2>1, <2>2, <2>3
<1>2. CASE \E n \in 1 .. MaxRead : WriteChunk(n)
  <2>1. TcpTypeOK'
    BY <1>0, <1>2, TakeType, TcpUnchanged, FrameTypes, Ends DEF WriteChunk
  <2>2. StateTypeOK'
    BY <1>0, <1>2, StateUnchanged DEF WriteChunk
  <2>3. SenderTypeOK' /\ SenderInv'
    BY <1>0, <1>2 DEF WriteChunk, SenderTypeOK, SenderInv, SenderPhase, Writing, AtFile,
       Goto, AfterWrite
  <2> QED
    BY <2>1, <2>2, <2>3
<1>3. CASE WriteRefused
  <2>1. TcpTypeOK'
    BY <1>0, <1>3, TakeType, TcpUnchanged, FrameTypes, Ends DEF WriteRefused, CheckLive
  <2>2. StateTypeOK'
    BY <1>0, <1>3, StateUnchanged DEF WriteRefused
  <2>3. SenderTypeOK' /\ SenderInv'
    BY <1>0, <1>3 DEF WriteRefused, SenderTypeOK, SenderInv, SenderPhase, Writing, AtFile,
       Goto, CheckLive
  <2> QED
    BY <2>1, <2>2, <2>3
<1>4. CASE FieldEnds
  <2>1. TcpTypeOK'
    BY <1>0, <1>4, TcpUnchanged DEF FieldEnds
  <2>2. StateTypeOK'
    BY <1>0, <1>4, StateUnchanged DEF FieldEnds
  <2>3. SenderTypeOK' /\ SenderInv'
    BY <1>0, <1>4 DEF FieldEnds, SenderTypeOK, SenderInv, SenderPhase, Writing, AtFile,
       Goto
  <2> QED
    BY <2>1, <2>2, <2>3
<1>5. CASE ConnectFails
  <2>1. TcpTypeOK'
    BY <1>0, <1>5, TcpUnchanged DEF ConnectFails
  <2>2. StateTypeOK'
    BY <1>0, <1>5, StateUnchanged DEF ConnectFails
  <2>3. SenderTypeOK' /\ SenderInv'
    BY <1>0, <1>5 DEF ConnectFails, SenderTypeOK, SenderInv, SenderPhase, Writing, AtFile,
       Goto
  <2> QED
    BY <2>1, <2>2, <2>3
<1>6. CASE UploadFails
  <2>1. TcpTypeOK'
    BY <1>0, <1>6, TcpUnchanged DEF UploadFails
  <2>2. StateTypeOK'
    BY <1>0, <1>6, StateUnchanged DEF UploadFails
  <2>3. SenderTypeOK' /\ SenderInv'
    BY <1>0, <1>6 DEF UploadFails, SenderTypeOK, SenderInv, SenderPhase, Writing, AtFile,
       Goto
  <2> QED
    BY <2>1, <2>2, <2>3
<1>7. CASE HandlerDropped
  <2>1. TcpTypeOK'
    BY <1>0, <1>7, CloseType, CloseAfterType, CutSeq, FrameTypes, Ends DEF HandlerDropped
  <2>2. StateTypeOK'
    BY <1>0, <1>7, StateUnchanged DEF HandlerDropped
  <2>3. SenderTypeOK' /\ SenderInv'
    BY <1>0, <1>7 DEF HandlerDropped, SenderTypeOK, SenderInv, SenderPhase, Writing, AtFile,
       Goto
  <2> QED
    BY <2>1, <2>2, <2>3
<1>8. CASE ResponseTimesOut
  <2>1. TcpTypeOK'
    BY <1>0, <1>8, TcpUnchanged DEF ResponseTimesOut
  <2>2. StateTypeOK'
    BY <1>0, <1>8, StateUnchanged DEF ResponseTimesOut
  <2>3. SenderTypeOK' /\ SenderInv'
    BY <1>0, <1>8 DEF ResponseTimesOut, SenderTypeOK, SenderInv, SenderPhase, Writing, AtFile,
       Goto
  <2> QED
    BY <2>1, <2>2, <2>3
<1> QED
  BY <1>1, <1>2, <1>3, <1>4, <1>5, <1>6, <1>7, <1>8 DEF UploadStep

(* The steps of the receiving task.                                        *)
LEMMA ReceiverKeepsTypes ==
  ASSUME TypeInv, ReceiverOwnStep \/ DiskFailure
  PROVE  TcpTypeOK' /\ StateTypeOK' /\ ReceiverTypeOK'
<1> USE FilesAssumption
<1>0. TcpTypeOK /\ StateTypeOK /\ ReceiverTypeOK
  BY DEF TypeInv, TypeOK
<1>1. CASE ReceivePrepare
  <2>1. TcpTypeOK'
    BY <1>0, <1>1, TakeType, FrameTypes, Ends DEF ReceivePrepare, FirstFrame
  <2>2. StateTypeOK'
    BY <1>0, <1>1, Ends DEF ReceivePrepare, StateTypeOK, AddTransfer, TransferStatus,
       tokenVars, approvalVars
  <2>3. ReceiverTypeOK'
    BY <1>0, <1>1 DEF ReceivePrepare, ReceiverTypeOK, ReceiverPhase, Outcome, Move,
       transferring, storage
  <2> QED
    BY <2>1, <2>2, <2>3
<1>2. CASE PrepareUnsafe
  <2>1. TcpTypeOK'
    BY <1>0, <1>2, TakeType, FrameTypes, Ends DEF PrepareUnsafe, FirstFrame
  <2>2. StateTypeOK'
    BY <1>0, <1>2, StateUnchanged DEF PrepareUnsafe
  <2>3. ReceiverTypeOK'
    BY <1>0, <1>2 DEF PrepareUnsafe, ReceiverTypeOK, ReceiverPhase, Outcome, Move,
       transferring, storage
  <2> QED
    BY <2>1, <2>2, <2>3
<1>3. CASE RefusePaths
  <2>1. TcpTypeOK'
    BY <1>0, <1>3, SendIgnoringErrorsType, FrameTypes, Ends DEF RefusePaths
  <2>2. StateTypeOK'
    BY <1>0, <1>3, StateUnchanged DEF RefusePaths
  <2>3. ReceiverTypeOK'
    BY <1>0, <1>3 DEF RefusePaths, ReceiverTypeOK, ReceiverPhase, Outcome, Move, transferring,
       storage
  <2> QED
    BY <2>1, <2>2, <2>3
<1>4. CASE NoPrepare
  <2>1. TcpTypeOK'
    BY <1>0, <1>4, TakeType, TcpUnchanged, FrameTypes, Ends DEF NoPrepare, FirstFrame
  <2>2. StateTypeOK'
    BY <1>0, <1>4, StateUnchanged DEF NoPrepare
  <2>3. ReceiverTypeOK'
    BY <1>0, <1>4 DEF NoPrepare, ReceiverTypeOK, ReceiverPhase, Outcome, Move, transferring,
       storage
  <2> QED
    BY <2>1, <2>2, <2>3
<1>5. CASE RegisterSession
  <2>1. TcpTypeOK'
    BY <1>0, <1>5, TcpUnchanged DEF RegisterSession
  <2>2. StateTypeOK'
    BY <1>0, <1>5 DEF RegisterSession, StateTypeOK, RegisterCancellable, approvalVars, End
  <2>3. ReceiverTypeOK'
    BY <1>0, <1>5 DEF RegisterSession, ReceiverTypeOK, ReceiverPhase, Outcome, Move,
       transferring, storage
  <2> QED
    BY <2>1, <2>2, <2>3
<1>6. CASE EmitIncoming
  <2>1. TcpTypeOK'
    BY <1>0, <1>6, TcpUnchanged DEF EmitIncoming
  <2>2. StateTypeOK'
    BY <1>0, <1>6, StateUnchanged DEF EmitIncoming
  <2>3. ReceiverTypeOK'
    BY <1>0, <1>6 DEF EmitIncoming, ReceiverTypeOK, ReceiverPhase, Outcome, Move,
       transferring, storage
  <2> QED
    BY <2>1, <2>2, <2>3
<1>7. CASE StartAsking
  <2>1. TcpTypeOK'
    BY <1>0, <1>7, TcpUnchanged DEF StartAsking
  <2>2. StateTypeOK'
    BY <1>0, <1>7 DEF StartAsking, StateTypeOK, AskForDecision, tokenVars
  <2>3. ReceiverTypeOK'
    BY <1>0, <1>7 DEF StartAsking, ReceiverTypeOK, ReceiverPhase, Outcome, Move, transferring,
       storage
  <2> QED
    BY <2>1, <2>2, <2>3
<1>8. CASE VerdictArrives
  <2>1. TcpTypeOK'
    BY <1>0, <1>8, TcpUnchanged DEF VerdictArrives
  <2>2. StateTypeOK'
    BY <1>0, <1>8 DEF VerdictArrives, StateTypeOK, DropReceiver, tokenVars
  <2>3. ReceiverTypeOK'
    BY <1>0, <1>8 DEF VerdictArrives, ReceiverTypeOK, ReceiverPhase, Outcome, Move,
       transferring, storage
  <2> QED
    BY <2>1, <2>2, <2>3
<1>9. CASE DecisionTimesOut
  <2>1. TcpTypeOK'
    BY <1>0, <1>9, TcpUnchanged DEF DecisionTimesOut
  <2>2. StateTypeOK'
    BY <1>0, <1>9, StateUnchanged DEF DecisionTimesOut
  <2>3. ReceiverTypeOK'
    BY <1>0, <1>9 DEF DecisionTimesOut, ReceiverTypeOK, ReceiverPhase, Outcome, Move,
       transferring, storage
  <2> QED
    BY <2>1, <2>2, <2>3
<1>10. CASE GiveUpAsking
  <2>1. TcpTypeOK'
    BY <1>0, <1>10, TcpUnchanged DEF GiveUpAsking
  <2>2. StateTypeOK'
    BY <1>0, <1>10 DEF GiveUpAsking, StateTypeOK, DropReceiver, tokenVars
  <2>3. ReceiverTypeOK'
    BY <1>0, <1>10 DEF GiveUpAsking, ReceiverTypeOK, ReceiverPhase, Outcome, Move,
       transferring, storage
  <2> QED
    BY <2>1, <2>2, <2>3
<1>11. CASE StopAsking
  <2>1. TcpTypeOK'
    BY <1>0, <1>11, TcpUnchanged DEF StopAsking
  <2>2. StateTypeOK'
    BY <1>0, <1>11 DEF StopAsking, StateTypeOK, ForgetDecision, tokenVars
  <2>3. ReceiverTypeOK'
    BY <1>0, <1>11 DEF StopAsking, ReceiverTypeOK, ReceiverPhase, Outcome, Move, transferring,
       storage
  <2> QED
    BY <2>1, <2>2, <2>3
<1>12. CASE SendVerdict
  <2>1. TcpTypeOK'
    BY <1>0, <1>12, SendOkType, FrameTypes, Ends DEF SendVerdict, ReceiverTypeOK
  <2>2. StateTypeOK'
    BY <1>0, <1>12, StateUnchanged DEF SendVerdict
  <2>3. ReceiverTypeOK'
    BY <1>0, <1>12 DEF SendVerdict, ReceiverTypeOK, ReceiverPhase, Outcome, Move,
       transferring, storage
  <2> QED
    BY <2>1, <2>2, <2>3
<1>13. CASE SendVerdictFails
  <2>1. TcpTypeOK'
    BY <1>0, <1>13, TcpUnchanged, FrameTypes, Ends DEF SendVerdictFails, SendFails
  <2>2. StateTypeOK'
    BY <1>0, <1>13, StateUnchanged DEF SendVerdictFails
  <2>3. ReceiverTypeOK'
    BY <1>0, <1>13 DEF SendVerdictFails, ReceiverTypeOK, ReceiverPhase, Outcome, Move,
       transferring, storage
  <2> QED
    BY <2>1, <2>2, <2>3
<1>14. CASE StartReceiving
  <2>1. TcpTypeOK'
    BY <1>0, <1>14, TcpUnchanged DEF StartReceiving, Activate
  <2>2. StateTypeOK'
    BY <1>0, <1>14, SetStatusType, Ends DEF StartReceiving, Activate, TransferStatus
  <2>3. ReceiverTypeOK'
    BY <1>0, <1>14 DEF StartReceiving, Activate, ReceiverTypeOK, ReceiverPhase, Outcome, Move,
       transferring, storage
  <2> QED
    BY <2>1, <2>2, <2>3
<1>15. CASE CancelNoticed
  <2>1. TcpTypeOK'
    BY <1>0, <1>15, TcpUnchanged DEF CancelNoticed
  <2>2. StateTypeOK'
    BY <1>0, <1>15, StateUnchanged DEF CancelNoticed
  <2>3. ReceiverTypeOK'
    BY <1>0, <1>15 DEF CancelNoticed, ReceivingEnds, ReceiverTypeOK, ReceiverPhase, Outcome,
       Move, transferring, storage
  <2> QED
    BY <2>1, <2>2, <2>3
<1>16. CASE OpenFile
  <2>1. TcpTypeOK'
    BY <1>0, <1>16, TakeType, FrameTypes, Ends DEF OpenFile, Reads
  <2>2. StateTypeOK'
    BY <1>0, <1>16, StateUnchanged DEF OpenFile
  <2>3. NextFrame("rcv") \in Frame
    BY <1>0, <1>16, TakeType, Ends DEF OpenFile, Reads
  <2>4. NextFrame("rcv").file \in Files
    BY <1>16, <2>3 DEF OpenFile, Reads, Frame
  <2>5. ReceiverTypeOK'
    BY <1>0, <1>16, <2>4 DEF OpenFile, StaysReceiving, Files, ReceiverTypeOK, ReceiverPhase,
       Outcome, Move, transferring, storage
  <2> QED
    BY <2>1, <2>2, <2>5
<1>17. CASE StoreData
  <2>1. TcpTypeOK'
    BY <1>0, <1>17, TakeType, FrameTypes, Ends DEF StoreData, Reads
  <2>2. StateTypeOK'
    BY <1>0, <1>17, StateUnchanged DEF StoreData
  <2>3. NextFrame("rcv") \in Frame
    BY <1>0, <1>17, TakeType, Ends DEF StoreData, Reads
  <2>4. NextFrame("rcv").units \in Nat /\ NextFrame("rcv").intact \in BOOLEAN
    BY <1>17, <2>3 DEF StoreData, Reads, Frame
  <2>5. got' \in Nat /\ active' \in 0 .. NFiles
    BY <1>0, <1>17, <2>4 DEF StoreData, ReceivingEnds, ReceiverTypeOK, transferring
  <2>6. clean' \in BOOLEAN
    BY <1>0, <1>17 DEF StoreData, ReceiverTypeOK, transferring
  <2>7. rpc' \in ReceiverPhase /\ rout' \in Outcome
    BY <1>0, <1>17 DEF StoreData, StaysReceiving, ReceivingEnds, ReceiverTypeOK,
       ReceiverPhase, Outcome
  <2>8. ReceiverTypeOK'
    BY <1>0, <1>17, <2>5, <2>6, <2>7 DEF StoreData, ReceiverTypeOK, storage
  <2> QED
    BY <2>1, <2>2, <2>8
<1>18. CASE CompleteFile
  <2>1. TcpTypeOK'
    BY <1>0, <1>18, TakeType, FrameTypes, Ends DEF CompleteFile, Reads
  <2>2. StateTypeOK'
    BY <1>0, <1>18, FinishFileType, StateUnchanged, Ends DEF CompleteFile, KeepFile,
       DiscardFile,
       FileProgress, stateVars, tokenVars, approvalVars
  <2>3. disk' \in [Files -> {"None", "Part", "Final"}]
    BY <1>0, <1>18 DEF CompleteFile, KeepFile, DiscardFile, ReceiverTypeOK, storage
  <2>4. whole' \in [Files -> BOOLEAN]
    <3>1. (got = Size[active] /\ clean) \in BOOLEAN
      OBVIOUS
    <3>2. whole' \in {whole, [whole EXCEPT ![active] = (got = Size[active] /\ clean)]}
      BY <1>18 DEF CompleteFile, KeepFile, DiscardFile, storage
    <3>3. whole \in [Files -> BOOLEAN]
      BY <1>0 DEF ReceiverTypeOK
    <3> QED
      BY <3>1, <3>2, <3>3
  <2>5. rpc' \in ReceiverPhase /\ rout' \in Outcome /\ active' \in 0 .. NFiles
    BY <1>0, <1>18 DEF CompleteFile, StaysReceiving, ReceivingEnds, ReceiverTypeOK,
       ReceiverPhase, Outcome
  <2>6. ReceiverTypeOK'
    BY <1>0, <1>18, <2>3, <2>4, <2>5 DEF CompleteFile, ReceiverTypeOK
  <2> QED
    BY <2>1, <2>2, <2>6
<1>19. CASE StreamEnds
  <2>1. TcpTypeOK'
    BY <1>0, <1>19, TakeType, TcpUnchanged, FrameTypes, Ends DEF StreamEnds, Reads
  <2>2. StateTypeOK'
    BY <1>0, <1>19, StateUnchanged DEF StreamEnds
  <2>3. ReceiverTypeOK'
    BY <1>0, <1>19 DEF StreamEnds, ReceivingEnds, Reads, ReceiverTypeOK, ReceiverPhase,
       Outcome, Move, transferring, storage
  <2> QED
    BY <2>1, <2>2, <2>3
<1>20. CASE PeerCancels
  <2>1. TcpTypeOK'
    BY <1>0, <1>20, TakeType, FrameTypes, Ends DEF PeerCancels, Reads
  <2>2. StateTypeOK'
    BY <1>0, <1>20, StateUnchanged DEF PeerCancels
  <2>3. ReceiverTypeOK'
    BY <1>0, <1>20 DEF PeerCancels, ReceivingEnds, Reads, ReceiverTypeOK, ReceiverPhase,
       Outcome, Move, transferring, storage
  <2> QED
    BY <2>1, <2>2, <2>3
<1>21. CASE StreamBreaks
  <2>1. TcpTypeOK'
    BY <1>0, <1>21, TakeType, TcpUnchanged, FrameTypes, Ends DEF StreamBreaks, Reads
  <2>2. StateTypeOK'
    BY <1>0, <1>21, StateUnchanged DEF StreamBreaks
  <2>3. ReceiverTypeOK'
    BY <1>0, <1>21 DEF StreamBreaks, ReceivingEnds, Reads, ReceiverTypeOK, ReceiverPhase,
       Outcome, Move, transferring, storage
  <2> QED
    BY <2>1, <2>2, <2>3
<1>22. CASE CleanUp
  <2>1. TcpTypeOK'
    BY <1>0, <1>22, TcpUnchanged DEF CleanUp
  <2>2. StateTypeOK'
    BY <1>0, <1>22, FinishFileType, StateUnchanged, Ends DEF CleanUp, FileProgress,
       stateVars, tokenVars, approvalVars
  <2>3. ReceiverTypeOK'
    BY <1>0, <1>22 DEF CleanUp, ReceiverTypeOK, ReceiverPhase, Outcome, Move, transferring,
       storage
  <2> QED
    BY <2>1, <2>2, <2>3
<1>23. CASE NotifySender
  <2>1. TcpTypeOK'
    BY <1>0, <1>23, SendIgnoringErrorsType, FrameTypes, Ends DEF NotifySender
  <2>2. StateTypeOK'
    BY <1>0, <1>23, StateUnchanged DEF NotifySender
  <2>3. ReceiverTypeOK'
    BY <1>0, <1>23 DEF NotifySender, ReceiverTypeOK, ReceiverPhase, Outcome, Move,
       transferring, storage
  <2> QED
    BY <2>1, <2>2, <2>3
<1>24. CASE Drain
  <2>1. TcpTypeOK'
    BY <1>0, <1>24, TakeType, FrameTypes, Ends DEF Drain
  <2>2. StateTypeOK'
    BY <1>0, <1>24, StateUnchanged DEF Drain
  <2>3. ReceiverTypeOK'
    BY <1>0, <1>24 DEF Drain, ReceiverTypeOK, ReceiverPhase, Outcome, Move, transferring,
       storage
  <2> QED
    BY <2>1, <2>2, <2>3
<1>25. CASE DrainEnds
  <2>1. TcpTypeOK'
    BY <1>0, <1>25, TcpUnchanged DEF DrainEnds
  <2>2. StateTypeOK'
    BY <1>0, <1>25, StateUnchanged DEF DrainEnds
  <2>3. ReceiverTypeOK'
    BY <1>0, <1>25 DEF DrainEnds, ReceiverTypeOK, ReceiverPhase, Outcome, Move, transferring,
       storage
  <2> QED
    BY <2>1, <2>2, <2>3
<1>26. CASE SettleReceiver
  <2>1. TcpTypeOK'
    BY <1>0, <1>26, TcpUnchanged DEF SettleReceiver
  <2>2. StateTypeOK'
    BY <1>0, <1>26, SetStatusType, Ends DEF SettleReceiver, FinalStatus, TransferStatus
  <2>3. ReceiverTypeOK'
    BY <1>0, <1>26 DEF SettleReceiver, ReceiverTypeOK, ReceiverPhase, Outcome, Move,
       transferring, storage
  <2> QED
    BY <2>1, <2>2, <2>3
<1>27. CASE LeaveReceiver
  <2>1. TcpTypeOK'
    BY <1>0, <1>27, TcpUnchanged DEF LeaveReceiver
  <2>2. StateTypeOK'
    BY <1>0, <1>27, Ends DEF LeaveReceiver, StateTypeOK, DropToken, approvalVars
  <2>3. ReceiverTypeOK'
    BY <1>0, <1>27 DEF LeaveReceiver, ReceiverTypeOK, ReceiverPhase, Outcome, Move,
       transferring, storage
  <2> QED
    BY <2>1, <2>2, <2>3
<1>28. CASE EndReceive
  <2>1. TcpTypeOK'
    BY <1>0, <1>28, CloseType, FrameTypes, Ends DEF EndReceive
  <2>2. StateTypeOK'
    BY <1>0, <1>28, StateUnchanged DEF EndReceive
  <2>3. ReceiverTypeOK'
    BY <1>0, <1>28 DEF EndReceive, ReceiverTypeOK, ReceiverPhase, Outcome, Move, transferring,
       storage
  <2> QED
    BY <2>1, <2>2, <2>3
<1>29. CASE NoDownloadDir
  <2>1. TcpTypeOK'
    BY <1>0, <1>29, TcpUnchanged DEF NoDownloadDir, Activate
  <2>2. StateTypeOK'
    BY <1>0, <1>29, SetStatusType, Ends DEF NoDownloadDir, Activate, TransferStatus
  <2>3. ReceiverTypeOK'
    BY <1>0, <1>29 DEF NoDownloadDir, Activate, ReceiverTypeOK, ReceiverPhase, Outcome, Move,
       transferring, storage
  <2> QED
    BY <2>1, <2>2, <2>3
<1>30. CASE OpenFails
  <2>1. TcpTypeOK'
    BY <1>0, <1>30, TakeType, FrameTypes, Ends DEF OpenFails, Reads
  <2>2. StateTypeOK'
    BY <1>0, <1>30, StateUnchanged DEF OpenFails
  <2>3. ReceiverTypeOK'
    BY <1>0, <1>30 DEF OpenFails, ReceivingEnds, ReceiverTypeOK, ReceiverPhase, Outcome, Move,
       transferring, storage
  <2> QED
    BY <2>1, <2>2, <2>3
<1>31. CASE StoreFails
  <2>1. TcpTypeOK'
    BY <1>0, <1>31, TakeType, FrameTypes, Ends DEF StoreFails, Reads
  <2>2. StateTypeOK'
    BY <1>0, <1>31, StateUnchanged DEF StoreFails
  <2>3. ReceiverTypeOK'
    BY <1>0, <1>31 DEF StoreFails, ReceivingEnds, ReceiverTypeOK, ReceiverPhase, Outcome,
       Move, transferring, storage
  <2> QED
    BY <2>1, <2>2, <2>3
<1>32. CASE CompleteFails
  <2>1. TcpTypeOK'
    BY <1>0, <1>32, TakeType, FrameTypes, Ends DEF CompleteFails, Reads
  <2>2. StateTypeOK'
    BY <1>0, <1>32, StateUnchanged DEF CompleteFails
  <2>3. ReceiverTypeOK'
    BY <1>0, <1>32 DEF CompleteFails, ReceivingEnds, ReceiverTypeOK, ReceiverPhase, Outcome,
       Move, transferring, storage
  <2> QED
    BY <2>1, <2>2, <2>3
<1>33. CASE DiscardFails
  <2>1. TcpTypeOK'
    BY <1>0, <1>33, TakeType, FrameTypes, Ends DEF DiscardFails, Reads
  <2>2. StateTypeOK'
    BY <1>0, <1>33, FinishFileType, Ends DEF DiscardFails, FileProgress
  <2>3. ReceiverTypeOK'
    BY <1>0, <1>33 DEF DiscardFails, StaysReceiving, ReceiverTypeOK, storage
  <2> QED
    BY <2>1, <2>2, <2>3
<1>34. CASE CleanUpFails
  <2>1. TcpTypeOK'
    BY <1>0, <1>34, TcpUnchanged DEF CleanUpFails
  <2>2. StateTypeOK'
    BY <1>0, <1>34, FinishFileType, StateUnchanged, Ends DEF CleanUpFails, FileProgress,
       stateVars, tokenVars, approvalVars
  <2>3. ReceiverTypeOK'
    BY <1>0, <1>34 DEF CleanUpFails, ReceiverTypeOK, ReceiverPhase, Outcome, storage
  <2> QED
    BY <2>1, <2>2, <2>3
<1> QED
  BY <1>1, <1>2, <1>3, <1>4, <1>5, <1>6, <1>7, <1>8, <1>9, <1>10, <1>11, <1>12, <1>13, <1>14,
     <1>15, <1>16, <1>17, <1>18, <1>19, <1>20, <1>21, <1>22, <1>23, <1>24, <1>25, <1>26,
     <1>27, <1>28, <1>29, <1>30, <1>31, <1>32, <1>33, <1>34 DEF ReceiverOwnStep, DiskFailure

(* The web handlers, and the clicks they serve.                            *)
LEMMA HandlersKeepTypes ==
  ASSUME TypeInv, UserDecides \/ UserCancels \/ HandlersRun
  PROVE  StateTypeOK'
<1> USE TransferAssumption
<1>0. StateTypeOK
  BY DEF TypeInv, TypeOK
<1>1. CASE UserDecides
  BY <1>0, <1>1 DEF UserDecides, DecideTakes, StateTypeOK, tokenVars
<1>2. CASE UserCancels
  <2>1. PICK e \in End : CancelFires(e)
    BY <1>2 DEF UserCancels
  <2> QED
    BY <1>0, <2>1 DEF CancelFires, StateTypeOK
<1>3. CASE HandlersRun
  BY <1>0, <1>3 DEF HandlersRun, DecideSends, CancelRejects, StateTypeOK, tokenVars
<1> QED
  BY <1>1, <1>2, <1>3

(* Both hosts start well typed, before the connection is made.             *)
LEMMA InitTypes == Init => TypeInv
<1> SUFFICES ASSUME Init PROVE TypeInv
  OBVIOUS
<1> USE FilesAssumption, TransferAssumption
<1>1. TcpTypeOK
  BY DEF Init, TcpInit, TcpTypeOK
<1>2. StateTypeOK
  BY DEF Init, StateInit, StateTypeOK, TransferStatus, FileProgress
<1>3. SenderTypeOK /\ SenderInv
  <2>1. 0 \in 0 .. NFiles /\ 0 \in Nat
    OBVIOUS
  <2> QED
    BY <2>1 DEF Init, SenderInit, SenderTypeOK, SenderInv, SenderPhase, AtFile
<1>4. ReceiverTypeOK
  <2>1. 0 \in 0 .. NFiles /\ 0 \in Nat
    OBVIOUS
  <2> QED
    BY <2>1 DEF Init, ReceiverInit, ReceiverTypeOK, ReceiverPhase, Outcome
<1>5. misfortunes \in 0 .. MaxMisfortunes
  BY DEF Init
<1> QED
  BY <1>1, <1>2, <1>3, <1>4, <1>5 DEF TypeInv, TypeOK

(* One more misfortune stays within the bound.                             *)
LEMMA MisfortuneType ==
  ASSUME TypeInv, NEW kind, Misfortune(kind)
  PROVE  misfortunes' \in 0 .. MaxMisfortunes
  BY TransferAssumption DEF Misfortune, TypeInv, TypeOK

(* Every step of the hosts, their users and the environment keeps types.   *)
LEMMA NextKeepsTypes == TypeInv /\ [Next]_vars => TypeInv'
<1> SUFFICES ASSUME TypeInv, [Next]_vars PROVE TypeInv'
  OBVIOUS
<1>0. /\ TcpTypeOK /\ StateTypeOK /\ SenderTypeOK /\ SenderInv /\ ReceiverTypeOK
      /\ misfortunes \in 0 .. MaxMisfortunes
  BY DEF TypeInv, TypeOK
<1>1. CASE SenderRuns
  <2>1. PICK safe \in Manifests : SenderOwnStep(safe)
    BY <1>1 DEF SenderRuns
  <2>2. TcpTypeOK' /\ StateTypeOK' /\ SenderTypeOK' /\ SenderInv'
    BY <2>1, SenderKeepsTypes
  <2>3. ReceiverTypeOK' /\ (misfortunes \in 0 .. MaxMisfortunes)'
    BY <1>0, <1>1, ReceiverUnchanged DEF SenderRuns
  <2> QED
    BY <2>2, <2>3 DEF TypeInv, TypeOK
<1>2. CASE BrowserUploads \/ SenderTimesOut
  <2>1. TcpTypeOK' /\ StateTypeOK' /\ SenderTypeOK' /\ SenderInv'
    BY <1>2, BrowserKeepsTypes DEF BrowserUploads, SenderTimesOut
  <2>2. ReceiverTypeOK' /\ (misfortunes \in 0 .. MaxMisfortunes)'
    BY <1>0, <1>2, ReceiverUnchanged DEF BrowserUploads, SenderTimesOut
  <2> QED
    BY <2>1, <2>2 DEF TypeInv, TypeOK
<1>3. CASE ReceiverRuns
  <2>1. TcpTypeOK' /\ StateTypeOK' /\ ReceiverTypeOK'
    BY <1>3, ReceiverKeepsTypes DEF ReceiverRuns
  <2>2. SenderTypeOK' /\ SenderInv' /\ (misfortunes \in 0 .. MaxMisfortunes)'
    BY <1>0, <1>3, SenderUnchanged DEF ReceiverRuns
  <2> QED
    BY <2>1, <2>2 DEF TypeInv, TypeOK
<1>4. CASE UserDecides \/ UserCancels \/ HandlersRun
  <2>1. StateTypeOK'
    BY <1>4, HandlersKeepTypes
  <2>2. UNCHANGED <<tcpVars, senderVars, receiverVars, misfortunes>>
    BY <1>4 DEF UserDecides, UserCancels, HandlersRun
  <2> QED
    BY <1>0, <2>1, <2>2, TcpUnchanged, SenderUnchanged, ReceiverUnchanged DEF TypeInv, TypeOK
<1>5. CASE ConnectionRefused \/ BrowserFails \/ BrowserHangsUp \/ AnswerTooLate
  <2>1. TcpTypeOK' /\ StateTypeOK' /\ SenderTypeOK' /\ SenderInv'
    BY <1>5, BrowserKeepsTypes DEF ConnectionRefused, BrowserFails, BrowserHangsUp,
       AnswerTooLate
  <2>2. ReceiverTypeOK' /\ (misfortunes \in 0 .. MaxMisfortunes)'
    BY <1>0, <1>5, ReceiverUnchanged, MisfortuneType
       DEF ConnectionRefused, BrowserFails, BrowserHangsUp, AnswerTooLate
  <2> QED
    BY <2>1, <2>2 DEF TypeInv, TypeOK
<1>6. CASE DiskFails
  <2>1. TcpTypeOK' /\ StateTypeOK' /\ ReceiverTypeOK'
    BY <1>6, ReceiverKeepsTypes DEF DiskFails
  <2>2. SenderTypeOK' /\ SenderInv' /\ (misfortunes \in 0 .. MaxMisfortunes)'
    BY <1>0, <1>6, SenderUnchanged, MisfortuneType DEF DiskFails
  <2> QED
    BY <2>1, <2>2 DEF TypeInv, TypeOK
<1>7. CASE NetworkBreaks \/ DataCorrupted
  <2>1. TcpTypeOK'
    BY <1>0, <1>7, NetworkFailsType, DataAlteredType DEF NetworkBreaks, DataCorrupted
  <2>2. /\ UNCHANGED <<stateVars, senderVars, receiverVars>>
        /\ (misfortunes \in 0 .. MaxMisfortunes)'
    BY <1>7, MisfortuneType DEF NetworkBreaks, DataCorrupted
  <2> QED
    BY <1>0, <2>1, <2>2, StateUnchanged, SenderUnchanged, ReceiverUnchanged DEF TypeInv, TypeOK
<1>8. CASE UNCHANGED vars
  <2>1. UNCHANGED <<tcpVars, stateVars, senderVars, receiverVars, misfortunes>>
    BY <1>8 DEF vars
  <2> QED
    BY <1>0, <2>1, TcpUnchanged, StateUnchanged, SenderUnchanged, ReceiverUnchanged
       DEF TypeInv, TypeOK
<1> QED
  BY <1>1, <1>2, <1>3, <1>4, <1>5, <1>6, <1>7, <1>8 DEF Next, MisfortuneStrikes, Rests

(* Every reachable state is well typed, and the handler indexes the        *)
(* manifest and takes from its buffer only within their bounds.            *)
THEOREM TypeInvHolds == Spec => []TypeInv
  BY InitTypes, NextKeepsTypes, PTL DEF Spec

(* Every reachable state is well typed (AppState, Framed, the two loops).  *)
THEOREM TypeCorrect == Spec => []TypeOK
<1>1. TypeInv => TypeOK
  BY DEF TypeInv
<1> QED
  BY <1>1, TypeInvHolds, PTL

---------------------------------------------------------------------------
(* Nothing is written without approval.  The user's click travels from the *)
(* handler through the channel into accepted, and only then opens the way  *)
(* to the loop that writes: each station is only reached by a yes that the *)
(* user has given.                                                         *)
ApprovalInv ==
  /\ inHand = "Accept" => consent
  /\ oneshot = "Accept" => consent
  /\ accepted => consent
  /\ rpc \in {"start", "receiving"} => accepted
  /\ NothingWithoutApproval

(* Steps that touch neither the approval nor the disk.                     *)
LEMMA ApprovalUnchanged ==
  ASSUME ApprovalInv, UNCHANGED <<inHand, oneshot, consent, accepted, disk>>,
         rpc' \in {"start", "receiving"} => rpc \in {"start", "receiving"}
  PROVE  ApprovalInv'
  BY DEF ApprovalInv, NothingWithoutApproval

(* await_decision: the verdict of the channel, or no after the timeout.    *)
LEMMA AwaitKeepsApproval ==
  ASSUME ApprovalInv,
         StartAsking \/ VerdictArrives \/ DecisionTimesOut \/ GiveUpAsking \/ StopAsking
  PROVE  ApprovalInv'
<1> USE DEF ApprovalInv, NothingWithoutApproval, Move, storage
<1>1. CASE StartAsking
  BY <1>1 DEF StartAsking, AskForDecision
<1>2. CASE VerdictArrives
  BY <1>2 DEF VerdictArrives, DropReceiver
<1>3. CASE DecisionTimesOut
  BY <1>3 DEF DecisionTimesOut, stateVars, approvalVars
<1>4. CASE GiveUpAsking
  BY <1>4 DEF GiveUpAsking, DropReceiver
<1>5. CASE StopAsking
  BY <1>5 DEF StopAsking, ForgetDecision
<1> QED
  BY <1>1, <1>2, <1>3, <1>4, <1>5

(* The loop that writes: a file is opened only where accepted is known.    *)
LEMMA LoopKeepsApproval ==
  ASSUME TypeInv, ApprovalInv,
         OpenFile \/ StoreData \/ CompleteFile \/ CleanUp
  PROVE  ApprovalInv'
<1>0. disk \in [Files -> {"None", "Part", "Final"}]
  BY DEF TypeInv, TypeOK, ReceiverTypeOK
<1>1. CASE OpenFile \/ StoreData \/ CompleteFile
  <2>1. consent /\ rpc = "receiving" /\ accepted
    BY <1>1 DEF OpenFile, StoreData, CompleteFile, Reads, ApprovalInv
  <2>2. UNCHANGED <<inHand, oneshot, consent, accepted>>
    BY <1>1 DEF OpenFile, StoreData, CompleteFile, stateVars, approvalVars
  <2> QED
    BY <2>1, <2>2 DEF ApprovalInv, NothingWithoutApproval
<1>2. CASE CleanUp
  <2>1. \A f \in Files : disk'[f] = "None" \/ disk'[f] = disk[f]
    BY <1>0, <1>2 DEF CleanUp
  <2>2. UNCHANGED <<inHand, oneshot, consent, accepted>>
    BY <1>2 DEF CleanUp, approvalVars
  <2>3. rpc' \notin {"start", "receiving"}
    BY <1>2 DEF CleanUp
  <2> QED
    BY <2>1, <2>2, <2>3 DEF ApprovalInv, NothingWithoutApproval
<1> QED
  BY <1>1, <1>2

(* The rest of the receiving task.                                         *)
LEMMA ReceiverKeepsApproval ==
  ASSUME TypeInv, ApprovalInv, ReceiverOwnStep \/ DiskFailure
  PROVE  ApprovalInv'
<1>1. CASE StartAsking \/ VerdictArrives \/ DecisionTimesOut \/ GiveUpAsking \/ StopAsking
  BY <1>1, AwaitKeepsApproval
<1>2. CASE OpenFile \/ StoreData \/ CompleteFile \/ CleanUp
  BY <1>2, LoopKeepsApproval
<1>3. CASE SendVerdict
  <2>1. UNCHANGED <<inHand, oneshot, consent, accepted, disk>>
    BY <1>3 DEF SendVerdict, stateVars, approvalVars, storage
  <2>2. rpc' = "start" => accepted
    BY <1>3 DEF SendVerdict
  <2>3. rpc' # "receiving"
    BY <1>3 DEF SendVerdict
  <2> QED
    BY <2>1, <2>2, <2>3 DEF ApprovalInv, NothingWithoutApproval
<1>4. CASE StartReceiving \/ NoDownloadDir
  BY <1>4, ApprovalUnchanged DEF StartReceiving, NoDownloadDir, Activate, Move, approvalVars,
     storage
<1>5. CASE \/ ReceivePrepare \/ PrepareUnsafe \/ RefusePaths \/ NoPrepare
           \/ RegisterSession \/ EmitIncoming \/ SendVerdictFails
  BY <1>5, ApprovalUnchanged
     DEF ReceivePrepare, PrepareUnsafe, RefusePaths, NoPrepare, RegisterSession, EmitIncoming,
         SendVerdictFails, Move, stateVars, approvalVars, storage
<1>6. CASE \/ CancelNoticed \/ StreamEnds \/ PeerCancels \/ StreamBreaks
           \/ OpenFails \/ StoreFails \/ CompleteFails
  BY <1>6, ApprovalUnchanged
     DEF CancelNoticed, StreamEnds, PeerCancels, StreamBreaks, OpenFails, StoreFails,
         CompleteFails, ReceivingEnds, stateVars, approvalVars, storage
<1>7. CASE \/ NotifySender \/ Drain \/ DrainEnds \/ SettleReceiver \/ LeaveReceiver
           \/ EndReceive
  BY <1>7, ApprovalUnchanged
     DEF NotifySender, Drain, DrainEnds, SettleReceiver, LeaveReceiver, EndReceive, Move,
         stateVars, approvalVars, storage
<1>8. CASE DiscardFails \/ CleanUpFails
  BY <1>8, ApprovalUnchanged
     DEF DiscardFails, CleanUpFails, StaysReceiving, approvalVars, storage
<1> QED
  BY <1>1, <1>2, <1>3, <1>4, <1>5, <1>6, <1>7, <1>8 DEF ReceiverOwnStep, DiskFailure

(* The sending host touches neither.                                       *)
LEMMA SenderLeavesApproval ==
  ASSUME NEW safe,
         \/ SenderOwnStep(safe) \/ UploadStep \/ ConnectFails \/ UploadFails
         \/ HandlerDropped \/ ResponseTimesOut
  PROVE  UNCHANGED approvalVars
  BY DEF SenderOwnStep, UploadStep, ConnectFails, UploadFails, HandlerDropped, ResponseTimesOut,
         Connect, SendPrepare, ListTransfer, CancelledWhileWaiting, PeerAccepts, PeerRejects,
         PeerGivesNoVerdict, SendStartFile, PushData, FlushBuffer, SendFileComplete, FileSent,
         SendSessionComplete, WriteFails, HandleError, NotifyPeer, SettleSender, LeaveSender,
         Respond, NextField, WriteChunk, WriteRefused, FieldEnds, stateVars

(* Before the manifest arrives nobody has been asked and nothing written.  *)
LEMMA InitApproval == Init => ApprovalInv
  BY DEF Init, StateInit, ReceiverInit, ApprovalInv, NothingWithoutApproval

(* Every step of the session keeps the approval's trail unbroken.          *)
LEMMA NextKeepsApproval == TypeInv /\ ApprovalInv /\ [Next]_vars => ApprovalInv'
<1> SUFFICES ASSUME TypeInv, ApprovalInv, [Next]_vars PROVE ApprovalInv'
  OBVIOUS
<1>1. CASE SenderRuns \/ BrowserUploads \/ SenderTimesOut \/ ConnectionRefused \/ BrowserFails
           \/ BrowserHangsUp \/ AnswerTooLate
  <2>1. UNCHANGED approvalVars
    BY <1>1, SenderLeavesApproval
       DEF SenderRuns, BrowserUploads, SenderTimesOut, ConnectionRefused, BrowserFails,
           BrowserHangsUp, AnswerTooLate
  <2>2. UNCHANGED receiverVars
    BY <1>1
       DEF SenderRuns, BrowserUploads, SenderTimesOut, ConnectionRefused, BrowserFails,
           BrowserHangsUp, AnswerTooLate
  <2> QED
    BY <2>1, <2>2, ApprovalUnchanged DEF approvalVars, receiverVars
<1>2. CASE ReceiverRuns \/ DiskFails
  BY <1>2, ReceiverKeepsApproval DEF ReceiverRuns, DiskFails
<1>3. CASE UserDecides
  <2>1. PICK verdict \in Verdicts : DecideTakes(verdict)
    BY <1>3 DEF UserDecides
  <2> QED
    BY <1>3, <2>1
       DEF UserDecides, DecideTakes, receiverVars, ApprovalInv, NothingWithoutApproval
<1>4. CASE UserCancels
  <2>1. PICK e \in Cancels : CancelFires(e)
    BY <1>4 DEF UserCancels
  <2> QED
    BY <1>4, <2>1, ApprovalUnchanged DEF UserCancels, CancelFires, receiverVars
<1>5. CASE HandlersRun
  BY <1>5
     DEF HandlersRun, DecideSends, CancelRejects, receiverVars, ApprovalInv,
          NothingWithoutApproval
<1>6. CASE NetworkBreaks \/ DataCorrupted \/ UNCHANGED vars
  BY <1>6, ApprovalUnchanged
     DEF NetworkBreaks, DataCorrupted, vars, stateVars, approvalVars, receiverVars
<1> QED
  BY <1>1, <1>2, <1>3, <1>4, <1>5, <1>6 DEF Next, MisfortuneStrikes, Rests

(* For any manifest and any misfortunes, no file is opened on the          *)
(* receiving host unless its user has clicked Accept (state.rs:324).       *)
THEOREM ApprovalRequired == Spec => []NothingWithoutApproval
<1>1. ApprovalInv => NothingWithoutApproval
  BY DEF ApprovalInv
<1>2. Spec => []ApprovalInv
  BY InitApproval, NextKeepsApproval, TypeInvHolds, PTL DEF Spec
<1> QED
  BY <1>1, <1>2, PTL

---------------------------------------------------------------------------
(* The refinement of Answering.  The channel is in one hand at a time: in  *)
(* pending, in that of the handler that took it, or nobody's, and until    *)
(* then nothing is in it; somebody listens to it from when it is made to   *)
(* when await_decision drops its end, and nobody before or after.          *)
QuestionInv ==
  /\ rpc \in {"accept", "refuse", "listed", "prompt", "prompted"} =>
       ~pending /\ inHand = "None" /\ oneshot = "None"
  /\ pending => inHand = "None"
  /\ pending \/ inHand # "None" => oneshot \in {"Empty", "Closed"}
  /\ rpc \in {"asking", "timedout"} <=> oneshot \in {"Empty", "Accept", "Reject"}

Stages == [s \in {"rcv"} |-> Stage]
Open   == IF pending \/ inHand # "None" THEN {"rcv"} ELSE {}
Seen   == [s \in {"rcv"} |-> Verdict]

(* A step that leaves the approval alone goes on in the same stage, or it  *)
(* leaves before there is anything to ask.                                 *)
LEMMA StageStep ==
  ASSUME QuestionInv, UNCHANGED <<pending, inHand, oneshot, accepted>>,
         \/ Stage' = Stage /\ rpc \notin {"asking", "timedout"}
            /\ (rpc' \in {"accept", "refuse", "listed", "prompt", "prompted"} =>
                  rpc \in {"accept", "refuse", "listed", "prompt", "prompted"})
         \/ UNCHANGED rpc
         \/ rpc = "accept" /\ rpc' \in {"refuse", "quit"}
  PROVE  QuestionInv' /\ [Answers!Next]_(Answers!vars)
<1>1. QuestionInv'
  BY DEF QuestionInv, Stage
<1>2. Open' = Open /\ Seen' = Seen
  BY DEF Open, Seen, Verdict
<1>3. CASE Stage' = Stage
  <2>1. Stages' = Stages
    BY <1>3 DEF Stages
  <2> QED
    BY <1>1, <1>2, <2>1 DEF Answers!vars, Stages, Open, Seen
<1>4. CASE UNCHANGED rpc
  <2>1. Stages' = Stages
    BY <1>4 DEF Stages, Stage
  <2> QED
    BY <1>1, <1>2, <2>1 DEF Answers!vars, Stages, Open, Seen
<1>5. CASE rpc = "accept" /\ rpc' \in {"refuse", "quit"}
  <2>1. Stages["rcv"] = "before" /\ Stages' = [Stages EXCEPT !["rcv"] = "over"]
    BY <1>5 DEF Stages, Stage
  <2>2. Answers!Skip("rcv")
    BY <1>2, <2>1 DEF Answers!Skip, Answers!Goes, Stages, Open, Seen
  <2> QED
    BY <1>1, <2>2 DEF Answers!Next
<1> QED
  BY <1>3, <1>4, <1>5

(* await_decision asks, waits, and is told or gives up.                    *)
LEMMA AwaitAnswers ==
  ASSUME QuestionInv,
         StartAsking \/ VerdictArrives \/ DecisionTimesOut \/ GiveUpAsking \/ StopAsking
  PROVE  QuestionInv' /\ [Answers!Next]_(Answers!vars)
<1>1. CASE StartAsking
  <2>1. /\ rpc = "prompted" /\ rpc' = "asking" /\ pending' = TRUE /\ oneshot' = "Empty"
        /\ UNCHANGED <<inHand, accepted>>
    BY <1>1 DEF StartAsking, AskForDecision, Move
  <2>2. ~pending /\ inHand = "None" /\ oneshot = "None"
    BY <2>1 DEF QuestionInv
  <2>3. QuestionInv'
    BY <2>1, <2>2 DEF QuestionInv
  <2>4. /\ Stages["rcv"] = "before" /\ Stages' = [Stages EXCEPT !["rcv"] = "asking"]
        /\ Open = {} /\ Open' = {"rcv"} /\ Seen' = Seen
    BY <2>1, <2>2 DEF Stages, Stage, Open, Seen, Verdict
  <2>5. Answers!Ask("rcv")
    BY <2>4 DEF Answers!Ask, Answers!Goes, Stages, Open, Seen
  <2> QED
    BY <2>3, <2>5 DEF Answers!Next
<1>2. CASE VerdictArrives
  <2>1. /\ rpc = "asking" /\ rpc' = "forget" /\ oneshot \in {"Accept", "Reject"}
        /\ accepted' = (oneshot = "Accept") /\ oneshot' = "Closed"
        /\ UNCHANGED <<pending, inHand>>
    BY <1>2 DEF VerdictArrives, DropReceiver, Move
  <2>2. QuestionInv'
    BY <2>1 DEF QuestionInv
  <2>3. /\ Stages["rcv"] = "asking" /\ Stages' = [Stages EXCEPT !["rcv"] = "over"]
        /\ Open' = Open /\ Seen["rcv"] # "none" /\ Seen' = Seen
    BY <2>1 DEF Stages, Stage, Open, Seen, Verdict
  <2>4. Answers!Conclude("rcv")
    BY <2>3 DEF Answers!Conclude, Answers!Goes, Stages, Open, Seen
  <2> QED
    BY <2>2, <2>4 DEF Answers!Next
<1>3. CASE DecisionTimesOut
  <2>1. /\ rpc = "asking" /\ rpc' = "timedout" /\ oneshot = "Empty"
        /\ UNCHANGED <<pending, inHand, oneshot, accepted>>
    BY <1>3 DEF DecisionTimesOut, Move, stateVars, approvalVars
  <2>2. QuestionInv'
    BY <2>1 DEF QuestionInv
  <2>3. /\ Stages["rcv"] = "asking" /\ Stages' = [Stages EXCEPT !["rcv"] = "late"]
        /\ Open' = Open /\ Seen["rcv"] = "none" /\ Seen' = Seen
    BY <2>1 DEF Stages, Stage, Open, Seen, Verdict
  <2>4. Answers!Expire("rcv")
    BY <2>3 DEF Answers!Expire, Answers!Goes, Stages, Open, Seen
  <2> QED
    BY <2>2, <2>4 DEF Answers!Next
<1>4. CASE GiveUpAsking
  <2>1. /\ rpc = "timedout" /\ rpc' = "forget" /\ accepted' = FALSE /\ oneshot' = "Closed"
        /\ UNCHANGED <<pending, inHand>>
    BY <1>4 DEF GiveUpAsking, DropReceiver, Move
  <2>2. QuestionInv'
    BY <2>1 DEF QuestionInv
  <2>3. /\ Stages["rcv"] = "late" /\ Stages' = [Stages EXCEPT !["rcv"] = "over"]
        /\ Open' = Open /\ Seen' = [Seen EXCEPT !["rcv"] = "no"]
    BY <2>1 DEF Stages, Stage, Open, Seen, Verdict
  <2>4. Answers!Reject("rcv")
    BY <2>3 DEF Answers!Reject, Answers!Goes, Answers!Says, Stages, Open, Seen
  <2> QED
    BY <2>2, <2>4 DEF Answers!Next
<1>5. CASE StopAsking
  <2>1. /\ rpc = "forget" /\ rpc' = "reply" /\ pending' = FALSE
        /\ UNCHANGED <<inHand, oneshot, accepted>>
    BY <1>5 DEF StopAsking, ForgetDecision, Move
  <2>2. QuestionInv'
    BY <2>1 DEF QuestionInv
  <2>3. Stages["rcv"] = "over" /\ Stages' = Stages /\ Seen' = Seen
    BY <2>1 DEF Stages, Stage, Seen, Verdict
  <2>4. Open' = Open \/ Open' = Open \ {"rcv"}
    BY <2>1 DEF Open
  <2>5. UNCHANGED Answers!vars \/ Answers!Withdraw("rcv")
    BY <2>3, <2>4 DEF Answers!vars, Answers!Withdraw, Stages, Open, Seen
  <2> QED
    BY <2>2, <2>5 DEF Answers!Next
<1> QED
  BY <1>1, <1>2, <1>3, <1>4, <1>5

(* The web handlers: to take the channel changes nothing yet, to send what *)
(* is in hand answers, or comes too late.                                  *)
LEMMA HandlersAnswer ==
  ASSUME TypeInv, QuestionInv, UNCHANGED <<rpc, accepted>>,
         (\E verdict \in {"Accept", "Reject"} : DecideTakes(verdict)) \/ CancelRejects \/ DecideSends
  PROVE  QuestionInv' /\ [Answers!Next]_(Answers!vars)
<1>1. Stages' = Stages
  BY DEF Stages, Stage
<1>2. CASE (\E verdict \in {"Accept", "Reject"} : DecideTakes(verdict)) \/ CancelRejects
  <2>1. /\ UNCHANGED oneshot
        /\ \/ pending /\ ~pending' /\ inHand' \in {"Accept", "Reject", "Cancel"}
           \/ UNCHANGED <<pending, inHand>>
    BY <1>2 DEF DecideTakes, CancelRejects
  <2>2. QuestionInv'
    BY <2>1 DEF QuestionInv
  <2>3. Open' = Open /\ Seen' = Seen
    BY <2>1 DEF Open, Seen, Verdict
  <2> QED
    BY <1>1, <2>2, <2>3 DEF Answers!vars, Stages, Open, Seen
<1>3. CASE DecideSends
  <2>1. /\ inHand # "None" /\ inHand' = "None" /\ UNCHANGED pending /\ ~pending
        /\ oneshot' = IF oneshot # "Empty" THEN oneshot
                       ELSE IF inHand = "Accept" THEN "Accept" ELSE "Reject"
    BY <1>3 DEF DecideSends, QuestionInv, TypeInv, TypeOK, StateTypeOK
  <2>2. Open = {"rcv"} /\ Open' = {}
    BY <2>1 DEF Open
  <2>3. QuestionInv'
    BY <2>1 DEF QuestionInv
  <2>4. CASE oneshot = "Empty"
    <3>1. Stages["rcv"] \in {"asking", "late"} /\ Seen["rcv"] = "none"
      BY <2>4 DEF QuestionInv, Stages, Stage, Seen, Verdict
    <3> DEFINE v == IF inHand = "Accept" THEN "yes" ELSE "no"
    <3>2. Seen' = [Seen EXCEPT !["rcv"] = v]
      BY <2>1, <2>4 DEF Seen, Verdict
    <3>3. Answers!Answer("rcv", v)
      BY <1>1, <2>2, <3>1, <3>2 DEF Answers!Answer, Answers!Says, Stages, Open, Seen
    <3> QED
      BY <2>3, <3>3 DEF Answers!Next
  <2>5. CASE oneshot # "Empty"
    <3>1. oneshot = "Closed" /\ oneshot' = oneshot
      BY <2>1, <2>5 DEF QuestionInv
    <3>2. Stages["rcv"] = "over"
      BY <2>1, <3>1 DEF QuestionInv, Stages, Stage
    <3>3. Seen' = Seen
      BY <3>1 DEF Seen, Verdict
    <3>4. Answers!Withdraw("rcv")
      BY <1>1, <2>2, <3>2, <3>3 DEF Answers!Withdraw, Stages, Open, Seen
    <3> QED
      BY <2>3, <3>4 DEF Answers!Next
  <2> QED
    BY <2>4, <2>5
<1> QED
  BY <1>2, <1>3

(* The rest of the receiving task: nothing of it touches the question, and *)
(* only a manifest that cannot be received leaves before it.               *)
LEMMA ReceiverGoesOn ==
  ASSUME QuestionInv, ReceiverOwnStep \/ DiskFailure
  PROVE  QuestionInv' /\ [Answers!Next]_(Answers!vars)
<1>1. CASE StartAsking \/ VerdictArrives \/ DecisionTimesOut \/ GiveUpAsking \/ StopAsking
  BY <1>1, AwaitAnswers
<1>2. CASE \/ ReceivePrepare \/ PrepareUnsafe \/ RefusePaths \/ NoPrepare
           \/ RegisterSession \/ EmitIncoming
  <2>1. UNCHANGED <<pending, inHand, oneshot, accepted>>
    BY <1>2
       DEF ReceivePrepare, PrepareUnsafe, RefusePaths, NoPrepare, RegisterSession, EmitIncoming,
           stateVars, approvalVars
  <2>2. \/ rpc = "accept" /\ rpc' \in {"refuse", "quit"}
        \/ rpc = "refuse" /\ rpc' = "quit"
        \/ rpc = "accept" /\ rpc' = "listed"
        \/ rpc = "listed" /\ rpc' = "prompt"
        \/ rpc = "prompt" /\ rpc' = "prompted"
    BY <1>2
       DEF ReceivePrepare, PrepareUnsafe, RefusePaths, NoPrepare, RegisterSession, EmitIncoming,
           Move
  <2> QED
    BY <2>1, <2>2, StageStep DEF Stage
<1>3. CASE \/ SendVerdict \/ SendVerdictFails \/ StartReceiving \/ NoDownloadDir
           \/ NotifySender \/ Drain \/ DrainEnds \/ SettleReceiver \/ LeaveReceiver \/ EndReceive
  <2>1. UNCHANGED <<pending, inHand, oneshot, accepted>>
    BY <1>3
       DEF SendVerdict, SendVerdictFails, StartReceiving, NoDownloadDir, Activate, NotifySender,
           Drain, DrainEnds, SettleReceiver, LeaveReceiver, EndReceive, stateVars, approvalVars
  <2>2. /\ rpc \in {"reply", "start", "notify", "drain", "settle", "leaving", "closing", "quit"}
        /\ rpc' \in {"start", "settle", "receiving", "quit", "drain", "leaving", "closing", "done"}
    BY <1>3
       DEF SendVerdict, SendVerdictFails, StartReceiving, NoDownloadDir, Activate, NotifySender,
           Drain, DrainEnds, SettleReceiver, LeaveReceiver, EndReceive, Move
  <2> QED
    BY <2>1, <2>2, StageStep DEF Stage
<1>4. CASE \/ CancelNoticed \/ OpenFile \/ StoreData \/ CompleteFile \/ StreamEnds \/ PeerCancels
           \/ StreamBreaks \/ CleanUp \/ OpenFails \/ StoreFails \/ CompleteFails
           \/ DiscardFails \/ CleanUpFails
  <2>1. UNCHANGED <<pending, inHand, oneshot, accepted>>
    BY <1>4
       DEF CancelNoticed, OpenFile, StoreData, CompleteFile, StreamEnds, PeerCancels, StreamBreaks,
           CleanUp, OpenFails, StoreFails, CompleteFails, DiscardFails, CleanUpFails,
           stateVars, approvalVars
  <2>2. rpc \in {"receiving", "cleanup"} /\ rpc' \in {"receiving", "cleanup", "notify", "settle"}
    BY <1>4
       DEF CancelNoticed, OpenFile, StoreData, CompleteFile, StreamEnds, PeerCancels, StreamBreaks,
           CleanUp, OpenFails, StoreFails, CompleteFails, DiscardFails, CleanUpFails, Reads,
           ReceivingEnds, StaysReceiving
  <2> QED
    BY <2>1, <2>2, StageStep DEF Stage
<1> QED
  BY <1>1, <1>2, <1>3, <1>4 DEF ReceiverOwnStep, DiskFailure

(* Before the manifest arrives the question is not open.                   *)
LEMMA InitAnswers == Init => QuestionInv /\ Answers!Init
<1> SUFFICES ASSUME Init PROVE QuestionInv /\ Answers!Init
  OBVIOUS
<1>1. rpc = "accept" /\ ~pending /\ inHand = "None" /\ oneshot = "None"
  BY DEF Init, StateInit, ReceiverInit
<1> QED
  BY <1>1 DEF QuestionInv, Answers!Init, Stage, Verdict

(* Every step of the session is one of Answering, or none.                 *)
LEMMA NextAnswers ==
  TypeInv /\ QuestionInv /\ [Next]_vars => QuestionInv' /\ [Answers!Next]_(Answers!vars)
<1> SUFFICES ASSUME TypeInv, QuestionInv, [Next]_vars
             PROVE  QuestionInv' /\ [Answers!Next]_(Answers!vars)
  OBVIOUS
<1>1. CASE SenderRuns \/ BrowserUploads \/ SenderTimesOut \/ ConnectionRefused \/ BrowserFails
           \/ BrowserHangsUp \/ AnswerTooLate
  <2>1. UNCHANGED approvalVars
    BY <1>1, SenderLeavesApproval
       DEF SenderRuns, BrowserUploads, SenderTimesOut, ConnectionRefused, BrowserFails,
           BrowserHangsUp, AnswerTooLate
  <2>2. UNCHANGED receiverVars
    BY <1>1
       DEF SenderRuns, BrowserUploads, SenderTimesOut, ConnectionRefused, BrowserFails,
           BrowserHangsUp, AnswerTooLate
  <2> QED
    BY <2>1, <2>2, StageStep DEF approvalVars, receiverVars
<1>2. CASE ReceiverRuns \/ DiskFails
  BY <1>2, ReceiverGoesOn DEF ReceiverRuns, DiskFails
<1>3. CASE UserDecides
  <2>1. PICK click \in Verdicts : DecideTakes(click)
    BY <1>3 DEF UserDecides
  <2>2. click \in {"Accept", "Reject"}
    BY TransferAssumption
  <2>3. UNCHANGED <<rpc, accepted>>
    BY <1>3 DEF UserDecides, receiverVars
  <2> QED
    BY <2>1, <2>2, <2>3, HandlersAnswer
<1>4. CASE UserCancels
  <2>1. UNCHANGED <<pending, inHand, oneshot>>
    BY <1>4 DEF UserCancels, CancelFires
  <2> QED
    BY <1>4, <2>1, StageStep DEF UserCancels, receiverVars
<1>5. CASE HandlersRun
  BY <1>5, HandlersAnswer DEF HandlersRun, receiverVars
<1>6. CASE NetworkBreaks \/ DataCorrupted \/ UNCHANGED vars
  BY <1>6, StageStep
     DEF NetworkBreaks, DataCorrupted, vars, stateVars, approvalVars, receiverVars
<1> QED
  BY <1>1, <1>2, <1>3, <1>4, <1>5, <1>6 DEF Next, MisfortuneStrikes, Rests

(* However the threads of decide, of cancel and of await_decision          *)
(* interleave, the session is answered as if in one step: once, by the     *)
(* first to send, and never again once await_decision has given up         *)
(* (state.rs:325-345).  So Approvals may take decide as one step.          *)
THEOREM DecideIsAtomic == Spec => DecidesAtOnce
<1>1. Spec => Answers!Init /\ [][Answers!Next]_(Answers!vars)
  BY InitAnswers, NextAnswers, TypeInvHolds, PTL DEF Spec
<1> QED
  BY <1>1 DEF DecidesAtOnce, Answers!Spec

---------------------------------------------------------------------------
(* What has landed is whole.  Whatever is lost, cut or altered on the way, *)
(* a FileComplete on the wire counts the units of the whole file: the      *)
(* sender writes it only after the end of the file's field, when           *)
(* everything it read of the file has been hashed.  So what the receiver   *)
(* keeps under the final name is the file.                                 *)
HonestFrame == {m \in Frame : m.type = "FileComplete" => m.units = Size[m.file]}

WholeInv ==
  /\ wire \in [End -> Seq(HonestFrame)]
  /\ spc \in {"flush", "complete"} => sent = Size[cur]
  /\ LandedIsWhole

(* Every frame but FileComplete is honest, altered or not.                 *)
LEMMA HonestFrames ==
  /\ \A b \in BOOLEAN : PrepareTransfer(b) \in HonestFrame /\ TransferResponse(b) \in HonestFrame
  /\ \A f \in Files, n \in Nat : StartFile(f) \in HonestFrame /\ Data(f, n) \in HonestFrame
  /\ \A f \in Files : FileComplete(f, Size[f]) \in HonestFrame
  /\ SessionComplete \in HonestFrame /\ CancelTransfer \in HonestFrame
  /\ CutFrame \in HonestFrame /\ <<CutFrame>> \in Seq(HonestFrame)
  /\ \A m \in HonestFrame : m.type = "Data" => [m EXCEPT !.intact = FALSE] \in HonestFrame
<1>1. ASSUME NEW m \in HonestFrame, m.type = "Data"
      PROVE  [m EXCEPT !.intact = FALSE] \in HonestFrame
  <2>1. [m EXCEPT !.intact = FALSE] \in Frame
    BY <1>1 DEF HonestFrame, Frame
  <2>2. [m EXCEPT !.intact = FALSE].type = "Data"
    BY <1>1 DEF HonestFrame, Frame
  <2> QED
    BY <2>1, <2>2 DEF HonestFrame
<1>2. \A f \in Files : FileComplete(f, Size[f]) \in HonestFrame
  <2>1. \A f \in Files : Size[f] \in Nat
    BY FilesAssumption
  <2> QED
    BY <2>1, FrameTypes DEF HonestFrame, FileComplete
<1>3. /\ \A b \in BOOLEAN : PrepareTransfer(b) \in HonestFrame /\ TransferResponse(b) \in HonestFrame
      /\ \A f \in Files, n \in Nat : StartFile(f) \in HonestFrame /\ Data(f, n) \in HonestFrame
      /\ SessionComplete \in HonestFrame /\ CancelTransfer \in HonestFrame
      /\ CutFrame \in HonestFrame
  BY FrameTypes DEF HonestFrame, PrepareTransfer, TransferResponse, StartFile, Data,
     SessionComplete, CancelTransfer, CutFrame
<1> QED
  BY <1>1, <1>2, <1>3

(* The handler: FileComplete goes out at the end of the field.             *)
LEMMA SenderKeepsHonest ==
  ASSUME TypeInv, WholeInv, NEW safe \in Manifests, SenderOwnStep(safe)
  PROVE  /\ wire' \in [End -> Seq(HonestFrame)]
         /\ spc' \in {"flush", "complete"} => sent' = Size[cur']
<1> USE Ends DEF WholeInv
<1>0. SenderTypeOK /\ SenderInv
  BY DEF TypeInv, TypeOK
<1>1. CASE Connect \/ ListTransfer \/ CancelledWhileWaiting \/ FileSent \/ HandleError
           \/ SettleSender \/ LeaveSender
  BY <1>1
     DEF Connect, ListTransfer, CancelledWhileWaiting, FileSent, HandleError, SettleSender,
         LeaveSender, SettleAs, Goto, tcpVars
<1>2. CASE PeerAccepts \/ PeerRejects \/ PeerGivesNoVerdict
  <2>1. wire' = wire \/ (Readable("snd") /\ Take("snd"))
    BY <1>2 DEF PeerAccepts, PeerRejects, PeerGivesNoVerdict, tcpVars
  <2>2. wire' \in [End -> Seq(HonestFrame)]
    BY <2>1, TakeFrames
  <2> QED
    BY <1>2, <2>2 DEF PeerAccepts, PeerRejects, PeerGivesNoVerdict, SettleAs, Goto
<1>3. CASE SendPrepare(safe)
  <2>1. PrepareTransfer(safe) \in HonestFrame
    BY HonestFrames, TransferAssumption
  <2>2. wire' \in [End -> Seq(HonestFrame)]
    BY <1>3, <2>1, SendOkFrames DEF SendPrepare
  <2> QED
    BY <1>3, <2>2 DEF SendPrepare, Goto
<1>4. CASE SendStartFile
  <2>1. cur \in Files
    BY <1>0, <1>4 DEF SendStartFile, Goto, SenderInv, AtFile
  <2>2. StartFile(cur) \in HonestFrame
    BY <2>1, HonestFrames
  <2>3. wire' \in [End -> Seq(HonestFrame)]
    BY <1>4, <2>2, SendOkFrames DEF SendStartFile
  <2> QED
    BY <1>4, <2>3 DEF SendStartFile, Goto
<1>5. CASE PushData
  <2>1. cur \in Files /\ ChunkSize \in Nat
    BY <1>0, <1>5, SenderAssumption DEF PushData, SenderInv, AtFile
  <2>2. Data(cur, ChunkSize) \in HonestFrame
    BY <2>1, HonestFrames
  <2>3. wire' \in [End -> Seq(HonestFrame)]
    BY <1>5, <2>2, SendOkFrames DEF PushData
  <2> QED
    BY <1>5, <2>3 DEF PushData, AfterWrite
<1>6. CASE FlushBuffer
  <2>1. cur \in Files /\ buf \in Nat
    BY <1>0, <1>6 DEF FlushBuffer, Goto, SenderInv, AtFile, SenderTypeOK
  <2>2. Data(cur, buf) \in HonestFrame
    BY <2>1, HonestFrames
  <2>3. wire' \in [End -> Seq(HonestFrame)]
    BY <1>6, <2>2, SendOkFrames DEF FlushBuffer
  <2> QED
    BY <1>6, <2>3 DEF FlushBuffer, Goto
<1>7. CASE SendFileComplete
  <2>1. cur \in Files /\ sent = Size[cur]
    BY <1>0, <1>7 DEF SendFileComplete, Goto, SenderInv, AtFile
  <2>2. FileComplete(cur, sent) \in HonestFrame
    BY <2>1, HonestFrames
  <2>3. wire' \in [End -> Seq(HonestFrame)]
    BY <1>7, <2>2, SendOkFrames DEF SendFileComplete
  <2> QED
    BY <1>7, <2>3 DEF SendFileComplete, Goto
<1>8. CASE SendSessionComplete
  <2>1. wire' \in [End -> Seq(HonestFrame)]
    BY <1>8, HonestFrames, SendOkFrames DEF SendSessionComplete
  <2> QED
    BY <1>8, <2>1 DEF SendSessionComplete, SettleAs
<1>9. CASE WriteFails
  BY <1>9 DEF WriteFails, SendFails, tcpVars
<1>10. CASE NotifyPeer
  <2>1. wire' \in [End -> Seq(HonestFrame)]
    BY <1>10, HonestFrames, SendIgnoringErrorsFrames DEF NotifyPeer, tcpVars
  <2> QED
    BY <1>10, <2>1 DEF NotifyPeer, Goto
<1>11. CASE Respond
  <2>1. wire' \in [End -> Seq(HonestFrame)]
    BY <1>11, CloseFrames DEF Respond
  <2> QED
    BY <1>11, <2>1 DEF Respond
<1> QED
  BY <1>1, <1>2, <1>3, <1>4, <1>5, <1>6, <1>7, <1>8, <1>9, <1>10, <1>11 DEF SenderOwnStep

(* What the browser does cuts a field short or ends it: no frame lies.     *)
LEMMA BrowserKeepsHonest ==
  ASSUME TypeInv, WholeInv,
         UploadStep \/ ConnectFails \/ UploadFails \/ HandlerDropped \/ ResponseTimesOut
  PROVE  /\ wire' \in [End -> Seq(HonestFrame)]
         /\ spc' \in {"flush", "complete"} => sent' = Size[cur']
<1> USE Ends DEF WholeInv
<1>1. CASE NextField \/ ConnectFails \/ UploadFails \/ ResponseTimesOut \/ FieldEnds
  BY <1>1 DEF NextField, ConnectFails, UploadFails, ResponseTimesOut, FieldEnds, Goto, tcpVars
<1>2. CASE WriteRefused \/ \E n \in 1 .. MaxRead : WriteChunk(n)
  <2>1. wire' = wire \/ (Readable("snd") /\ Take("snd"))
    BY <1>2 DEF WriteRefused, CheckLive, WriteChunk, tcpVars
  <2>2. wire' \in [End -> Seq(HonestFrame)]
    BY <2>1, TakeFrames
  <2> QED
    BY <1>2, <2>2 DEF WriteRefused, WriteChunk, AfterWrite, Goto
<1>3. CASE HandlerDropped
  <2>1. wire' \in [End -> Seq(HonestFrame)]
    BY <1>3, HonestFrames, CloseFrames, CloseAfterFrames DEF HandlerDropped
  <2> QED
    BY <1>3, <2>1 DEF HandlerDropped
<1> QED
  BY <1>1, <1>2, <1>3 DEF UploadStep

(* The receiving task: a file gets its final name only when the whole of   *)
(* it has been received.                                                   *)
LEMMA CompleteFileKeepsWhole ==
  ASSUME TypeInv, WholeInv, CompleteFile
  PROVE  LandedIsWhole'
<1>0. ReceiverTypeOK
  BY DEF TypeInv, TypeOK
<1>1. NextFrame("rcv") \in HonestFrame /\ NextFrame("rcv").type = "FileComplete"
  BY TakeFrames, Ends DEF WholeInv, CompleteFile, Reads
<1>2. CASE active # 0 /\ active = NextFrame("rcv").file /\ ChecksumMatches
  <2>1. got = Size[active] /\ clean
    BY <1>1, <1>2 DEF HonestFrame, ChecksumMatches
  <2>2. /\ disk' = [disk EXCEPT ![active] = "Final"]
        /\ whole' = [whole EXCEPT ![active] = (got = Size[active] /\ clean)]
    BY <1>2 DEF CompleteFile, KeepFile
  <2> QED
    BY <1>0, <2>1, <2>2 DEF LandedIsWhole, WholeInv, ReceiverTypeOK
<1>3. CASE active # 0 /\ active = NextFrame("rcv").file /\ ~ChecksumMatches
  <2>1. disk' = [disk EXCEPT ![active] = "None"] /\ whole' = whole
    BY <1>3 DEF CompleteFile, DiscardFile
  <2> QED
    BY <1>0, <2>1 DEF LandedIsWhole, WholeInv, ReceiverTypeOK
<1>4. CASE active = 0 \/ active # NextFrame("rcv").file
  BY <1>4 DEF CompleteFile, storage, LandedIsWhole, WholeInv
<1> QED
  BY <1>2, <1>3, <1>4

LEMMA ReceiverKeepsWhole ==
  ASSUME TypeInv, WholeInv, ReceiverOwnStep \/ DiskFailure
  PROVE  wire' \in [End -> Seq(HonestFrame)] /\ LandedIsWhole'
<1> USE Ends
<1>0. ReceiverTypeOK /\ wire \in [End -> Seq(HonestFrame)] /\ LandedIsWhole
  BY DEF TypeInv, TypeOK, WholeInv
<1>1. CASE \/ RegisterSession \/ EmitIncoming \/ StartAsking \/ VerdictArrives \/ DecisionTimesOut
           \/ GiveUpAsking \/ StopAsking \/ SendVerdictFails \/ StartReceiving \/ NoDownloadDir
           \/ CancelNoticed \/ DrainEnds \/ SettleReceiver \/ LeaveReceiver
  <2>1. UNCHANGED <<wire, disk, whole>>
    BY <1>1
       DEF RegisterSession, EmitIncoming, StartAsking, VerdictArrives, DecisionTimesOut,
           GiveUpAsking, StopAsking, SendVerdictFails, SendFails, StartReceiving, NoDownloadDir,
           Activate, CancelNoticed, DrainEnds, SettleReceiver, LeaveReceiver, tcpVars, storage
  <2> QED
    BY <1>0, <2>1 DEF LandedIsWhole
<1>2. CASE \/ ReceivePrepare \/ PrepareUnsafe \/ NoPrepare \/ StoreData \/ StreamEnds
           \/ PeerCancels \/ StreamBreaks \/ Drain \/ OpenFails \/ StoreFails \/ CompleteFails
           \/ DiscardFails
  <2>1. UNCHANGED <<disk, whole>>
    BY <1>2
       DEF ReceivePrepare, PrepareUnsafe, NoPrepare, StoreData, StreamEnds, PeerCancels,
           StreamBreaks, Drain, OpenFails, StoreFails, CompleteFails, DiscardFails, storage
  <2>2. wire' = wire \/ (Readable("rcv") /\ Take("rcv"))
    BY <1>2
       DEF ReceivePrepare, PrepareUnsafe, NoPrepare, FirstFrame, StoreData, StreamEnds,
           PeerCancels, StreamBreaks, Reads, Drain, OpenFails, StoreFails, CompleteFails,
           DiscardFails, tcpVars
  <2>3. wire' \in [End -> Seq(HonestFrame)]
    BY <1>0, <2>2, TakeFrames
  <2> QED
    BY <1>0, <2>1, <2>3 DEF LandedIsWhole
<1>3. CASE RefusePaths \/ SendVerdict \/ NotifySender
  <2>1. UNCHANGED <<disk, whole>>
    BY <1>3 DEF RefusePaths, SendVerdict, NotifySender, storage
  <2>2. TransferResponse(accepted) \in HonestFrame /\ CancelTransfer \in HonestFrame
    BY <1>0, HonestFrames DEF ReceiverTypeOK
  <2>3. wire' \in [End -> Seq(HonestFrame)]
    BY <1>0, <1>3, <2>2, SendOkFrames, SendIgnoringErrorsFrames
       DEF RefusePaths, SendVerdict, NotifySender
  <2> QED
    BY <1>0, <2>1, <2>3 DEF LandedIsWhole
<1>4. CASE EndReceive
  <2>1. wire' \in [End -> Seq(HonestFrame)]
    BY <1>0, <1>4, CloseFrames DEF EndReceive
  <2> QED
    BY <1>0, <1>4, <2>1 DEF EndReceive, storage, LandedIsWhole
<1>5. CASE OpenFile
  <2>1. wire' \in [End -> Seq(HonestFrame)]
    BY <1>0, <1>5, TakeFrames DEF OpenFile, Reads
  <2>2. \A f \in Files : disk'[f] = "Final" => disk[f] = "Final" /\ whole' = whole
    BY <1>0, <1>5 DEF OpenFile, ReceiverTypeOK
  <2> QED
    BY <1>0, <2>1, <2>2 DEF LandedIsWhole
<1>6. CASE CompleteFile
  <2>1. wire' \in [End -> Seq(HonestFrame)]
    BY <1>0, <1>6, TakeFrames DEF CompleteFile, Reads
  <2> QED
    BY <1>6, <2>1, CompleteFileKeepsWhole
<1>7. CASE CleanUp
  <2>1. \A f \in Files : disk'[f] = "Final" => disk[f] = "Final" /\ whole' = whole
    BY <1>0, <1>7 DEF CleanUp, ReceiverTypeOK
  <2> QED
    BY <1>0, <1>7, <2>1 DEF CleanUp, tcpVars, LandedIsWhole
<1>8. CASE CleanUpFails
  BY <1>0, <1>8 DEF CleanUpFails, tcpVars, storage, LandedIsWhole
<1> QED
  BY <1>1, <1>2, <1>3, <1>4, <1>5, <1>6, <1>7, <1>8 DEF ReceiverOwnStep, DiskFailure

(* At the start the wire is empty and no file has landed.                  *)
LEMMA InitWhole == Init => WholeInv
  BY DEF Init, TcpInit, SenderInit, ReceiverInit, WholeInv, LandedIsWhole

(* Every step keeps the frames honest and what has landed whole.           *)
LEMMA NextKeepsWhole == TypeInv /\ WholeInv /\ [Next]_vars => WholeInv'
<1> SUFFICES ASSUME TypeInv, WholeInv, [Next]_vars PROVE WholeInv'
  OBVIOUS
<1>1. CASE SenderRuns \/ BrowserUploads \/ SenderTimesOut \/ ConnectionRefused \/ BrowserFails
           \/ BrowserHangsUp \/ AnswerTooLate
  <2>1. /\ wire' \in [End -> Seq(HonestFrame)]
        /\ spc' \in {"flush", "complete"} => sent' = Size[cur']
    BY <1>1, SenderKeepsHonest, BrowserKeepsHonest
       DEF SenderRuns, BrowserUploads, SenderTimesOut, ConnectionRefused, BrowserFails,
           BrowserHangsUp, AnswerTooLate
  <2>2. UNCHANGED receiverVars
    BY <1>1
       DEF SenderRuns, BrowserUploads, SenderTimesOut, ConnectionRefused, BrowserFails,
           BrowserHangsUp, AnswerTooLate
  <2> QED
    BY <2>1, <2>2 DEF WholeInv, LandedIsWhole, receiverVars
<1>2. CASE ReceiverRuns \/ DiskFails
  <2>1. wire' \in [End -> Seq(HonestFrame)] /\ LandedIsWhole'
    BY <1>2, ReceiverKeepsWhole DEF ReceiverRuns, DiskFails
  <2>2. UNCHANGED senderVars
    BY <1>2 DEF ReceiverRuns, DiskFails
  <2> QED
    BY <2>1, <2>2 DEF WholeInv, senderVars
<1>3. CASE UserDecides \/ UserCancels \/ HandlersRun
  BY <1>3
     DEF UserDecides, UserCancels, HandlersRun, tcpVars, senderVars, receiverVars, WholeInv,
         LandedIsWhole
<1>4. CASE NetworkBreaks \/ DataCorrupted
  <2>1. wire' \in [End -> Seq(HonestFrame)]
    BY <1>4, HonestFrames, NetworkFailsFrames, DataAlteredFrames
       DEF NetworkBreaks, DataCorrupted, WholeInv
  <2> QED
    BY <1>4, <2>1
       DEF NetworkBreaks, DataCorrupted, senderVars, receiverVars, WholeInv, LandedIsWhole
<1>5. CASE UNCHANGED vars
  BY <1>5 DEF vars, tcpVars, senderVars, receiverVars, WholeInv, LandedIsWhole
<1> QED
  BY <1>1, <1>2, <1>3, <1>4, <1>5 DEF Next, MisfortuneStrikes, Rests

(* For any sizes of files, chunks and buffers, and any misfortunes, a file *)
(* under its final name on the receiving host has the content the sender   *)
(* read (transfer.rs:425-437).                                             *)
THEOREM LandedFilesAreWhole == Spec => []LandedIsWhole
<1>1. WholeInv => LandedIsWhole
  BY DEF WholeInv
<1>2. Spec => []WholeInv
  BY InitWhole, NextKeepsWhole, TypeInvHolds, PTL DEF Spec
<1> QED
  BY <1>1, <1>2, PTL
=============================================================================
