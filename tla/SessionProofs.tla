---------------------------- MODULE SessionProofs ----------------------------
(***************************************************************************)
(* What the two hosts of a session agree on, for any number of files of    *)
(* any size, any buffer and chunk sizes, and any misfortunes: they act on  *)
(* the same verdict (HostsAgree), a session is shown as cancelled only     *)
(* after a click (CancelledByClick), files travel in the order of the      *)
(* manifest (OrderHolds) -- from which follow what both call completed     *)
(* (CompletionAgreed), that nothing partial stays behind (NothingLeft) and *)
(* the promise of module Delivery (KeepsItsPromise).                       *)
(***************************************************************************)
EXTENDS TransferProofs

---------------------------------------------------------------------------
(* Verdicts and clicks.  The receiver's verdict is settled once its task   *)
(* has tried to send it; what reaches the sender says the same, and a      *)
(* CancelTransfer that reaches a sender which was accepted comes from a    *)
(* click.                                                                  *)

(* await_decision has not returned, so accepted has its first value.       *)
Undecided ==
  rpc \in {"accept", "refuse", "listed", "prompt", "prompted", "asking", "timedout"}

(* The verdict has gone out, or never will.                                *)
PastReply ==
  rpc \in {"start", "receiving", "cleanup", "notify", "drain", "settle", "leaving",
           "closing", "quit", "done"}

(* What may be on its way to the sender.                                   *)
Answer ==
  {m \in Frame :
     /\ m.type = "TransferResponse" => PastReply /\ m.accepted = accepted
     /\ m.type = "CancelTransfer" => PastReply /\ (accepted => CancelFired("rcv"))}

(* The sender has read the verdict and is sending files.                   *)
Sending == {"field", "start", "stream", "push", "flush", "complete", "filed", "finish"}

VerdictInv ==
  /\ wire["snd"] \in Seq(Answer)
  /\ spc \in Sending \/ sout = "Completed" \/ status["snd"] \in {"Active", "Completed"}
       => PastReply /\ accepted
  /\ "Rejected" \in {sout, status["snd"], rout, status["rcv"]} => PastReply /\ ~accepted
  /\ (\E f \in Files : disk[f] # "None") => PastReply /\ accepted
  /\ Undecided => ~accepted

(* A token once fired stays so: it is registered once, before anybody can  *)
(* fire it.                                                                *)
ClickInv ==
  /\ rpc \in {"accept", "refuse", "listed"} => "rcv" \notin registered /\ ~CancelFired("rcv")
  /\ spc = "connect" => "snd" \notin registered /\ ~CancelFired("snd")
  /\ rpc = "notify" => rout = "CancelledLocally"
  /\ rout = "CancelledLocally" \/ peerCancel => CancelFired("rcv")
  /\ "Cancelled" \in {sout, status["snd"]} => \E e \in End : CancelFired(e)

SessionInv == VerdictInv /\ ClickInv

(* What was true of the answers stays true of them while the verdict is    *)
(* not taken back and no token un-fires.                                   *)
LEMMA AnswersStayTrue ==
  ASSUME PastReply => PastReply' /\ accepted' = accepted,
         CancelFired("rcv") => CancelFired("rcv")'
  PROVE  Seq(Answer) \subseteq Seq(Answer')
<1>1. Answer \subseteq Answer'
  BY DEF Answer
<1>2. ASSUME NEW s \in Seq(Answer) PROVE s \in Seq(Answer')
  <2>1. Len(s) \in Nat /\ s \in [1 .. Len(s) -> Answer]
    BY LenProperties
  <2>2. s \in [1 .. Len(s) -> Answer']
    BY <1>1, <2>1
  <2> QED
    BY <2>1, <2>2, SeqDef
<1> QED
  BY <1>2

(* The steps of the sending host, and of the receiving task, whoever       *)
(* causes them.                                                            *)
SenderSide ==
  \/ (\E safe \in Manifests : SenderOwnStep(safe)) \/ UploadStep \/ ConnectFails \/ UploadFails
  \/ HandlerDropped \/ ResponseTimesOut

ReceiverSide == ReceiverOwnStep \/ DiskFailure

(* No step of the sending host writes to itself.                           *)
LEMMA SenderOnlyReads ==
  ASSUME TypeInv, SenderSide
  PROVE  \/ wire'["snd"] = wire["snd"]
         \/ wire'["snd"] = <<>>
         \/ wire["snd"] # <<>> /\ wire'["snd"] = Tail(wire["snd"])
<1> USE Ends
<1>0. wire \in [End -> Seq(Frame)]
  BY DEF TypeInv, TypeOK, TcpTypeOK
<1>1. CASE \/ Connect \/ ListTransfer \/ CancelledWhileWaiting \/ FileSent \/ WriteFails
           \/ HandleError \/ SettleSender \/ LeaveSender \/ NextField \/ FieldEnds
           \/ ConnectFails \/ UploadFails \/ ResponseTimesOut
  BY <1>1
     DEF Connect, ListTransfer, CancelledWhileWaiting, FileSent, WriteFails, SendFails,
         HandleError, SettleSender, LeaveSender, NextField, FieldEnds, ConnectFails,
         UploadFails, ResponseTimesOut, tcpVars
<1>2. CASE \/ PeerAccepts \/ PeerRejects \/ PeerGivesNoVerdict \/ WriteRefused
           \/ \E n \in 1 .. MaxRead : WriteChunk(n)
  <2>1. UNCHANGED tcpVars \/ (Readable("snd") /\ Take("snd"))
    BY <1>2 DEF PeerAccepts, PeerRejects, PeerGivesNoVerdict, WriteRefused, CheckLive, WriteChunk
  <2> QED
    BY <1>0, <2>1, TakeEffect DEF tcpVars, Readable
<1>3. CASE \/ (\E safe \in Manifests : SendPrepare(safe)) \/ SendStartFile \/ PushData
           \/ FlushBuffer \/ SendFileComplete \/ SendSessionComplete \/ NotifyPeer
  <2>1. UNCHANGED tcpVars \/ \E m : SendOk("snd", m)
    BY <1>3
       DEF SendPrepare, SendStartFile, PushData, FlushBuffer, SendFileComplete,
           SendSessionComplete, NotifyPeer, SendIgnoringErrors, SendFails
  <2> QED
    BY <1>0, <2>1, SendOkEffect DEF tcpVars
<1>4. CASE Respond \/ HandlerDropped
  BY <1>0, <1>4, CloseEffect, CloseAfterEffect DEF Respond, HandlerDropped
<1> QED
  BY <1>1, <1>2, <1>3, <1>4 DEF SenderSide, SenderOwnStep, UploadStep

(* A part of the answers is made of the same answers.                      *)
LEMMA AnswersLeft ==
  ASSUME NEW F, NEW s \in Seq(F), NEW t,
         t = s \/ t = <<>> \/ (s # <<>> /\ t = Tail(s))
  PROVE  t \in Seq(F)
<1>1. CASE t = <<>>
  BY <1>1
<1>2. CASE s # <<>> /\ t = Tail(s)
  BY <1>2
<1> QED
  BY <1>1, <1>2

(* The sending host changes its own entry of the transfers map, and        *)
(* registers its own token.                                                *)
LEMMA SenderLeavesReceiver ==
  ASSUME TypeInv, SenderSide
  PROVE  /\ status'["rcv"] = status["rcv"] /\ files'["rcv"] = files["rcv"]
         /\ token'["rcv"] = token["rcv"]
         /\ "rcv" \in registered' => "rcv" \in registered
         /\ spc # "connect" => token' = token /\ registered' \subseteq registered
<1>0. StateTypeOK
  BY DEF TypeInv, TypeOK
<1>1. CASE \/ (\E safe \in Manifests : SendPrepare(safe)) \/ CancelledWhileWaiting
           \/ PeerRejects \/ PeerGivesNoVerdict \/ SendStartFile \/ PushData \/ FlushBuffer \/ SendFileComplete
           \/ SendSessionComplete \/ WriteFails \/ HandleError \/ NotifyPeer \/ Respond
           \/ UploadStep \/ ConnectFails \/ UploadFails \/ HandlerDropped \/ ResponseTimesOut
  <2>1. UNCHANGED stateVars
    BY <1>1
       DEF SendPrepare, CancelledWhileWaiting, PeerRejects, PeerGivesNoVerdict, SendStartFile,
           PushData, FlushBuffer, SendFileComplete, SendSessionComplete, WriteFails,
           HandleError, NotifyPeer, Respond, UploadStep, NextField, WriteChunk, WriteRefused,
           FieldEnds, ConnectFails, UploadFails, HandlerDropped, ResponseTimesOut
  <2> QED
    BY <2>1 DEF stateVars, tokenVars
<1>2. CASE ListTransfer \/ PeerAccepts \/ SettleSender
  <2>1. UNCHANGED <<files, tokenVars>> /\ \E s : status' = [status EXCEPT !["snd"] = s] \/ status' = status
    BY <1>2 DEF ListTransfer, AddTransfer, PeerAccepts, SettleSender, SetStatus
  <2> QED
    BY <1>0, <2>1 DEF StateTypeOK, End, tokenVars
<1>3. CASE Connect
  <2>1. /\ UNCHANGED <<status, files>> /\ spc = "connect"
        /\ token' = [token EXCEPT !["snd"] = "Live"] /\ registered' = registered \cup {"snd"}
    BY <1>3 DEF Connect, RegisterCancellable, Goto
  <2>2. token'["rcv"] = token["rcv"] /\ ("rcv" \in registered' => "rcv" \in registered)
    BY <1>0, <2>1, Ends DEF StateTypeOK
  <2> QED
    BY <2>1, <2>2
<1>4. CASE LeaveSender
  BY <1>4 DEF LeaveSender, DropToken
<1>5. CASE FileSent
  BY <1>0, <1>5 DEF FileSent, FinishFile, StateTypeOK, End, tokenVars
<1> QED
  BY <1>1, <1>2, <1>3, <1>4, <1>5 DEF SenderSide, SenderOwnStep

(* The sender reads one of the answers.                                    *)
LEMMA AnswerRead ==
  ASSUME wire["snd"] \in Seq(Answer), Readable("snd")
  PROVE  NextFrame("snd") \in Answer
  BY DEF Readable, NextFrame

(* What the handler that sends knows of the verdict and of clicks: it      *)
(* moves on only with an answer, and an answer is true.                    *)
LEMMA SenderKeepsVerdict ==
  ASSUME TypeInv, SessionInv, SenderSide
  PROVE  /\ spc' \in Sending \/ sout' = "Completed" \/ status'["snd"] \in {"Active", "Completed"}
              => PastReply /\ accepted
         /\ "Rejected" \in {sout', status'["snd"]} => PastReply /\ ~accepted
         /\ peerCancel' => CancelFired("rcv")
         /\ "Cancelled" \in {sout', status'["snd"]} => \E e \in End : CancelFired(e)
         /\ spc' # "connect"
<1> USE DEF SessionInv, VerdictInv, ClickInv, Goto, SettleAs
<1>0. /\ status \in [End -> TransferStatus \cup {"None"}]
      /\ sout \in Finished \cup {"None"}
  BY DEF TypeInv, TypeOK, StateTypeOK, SenderTypeOK
<1>1. CASE \/ Connect \/ (\E safe \in Manifests : SendPrepare(safe)) \/ LeaveSender
           \/ Respond \/ ConnectFails
  BY <1>1 DEF Connect, SendPrepare, LeaveSender, Respond, ConnectFails, Sending, stateVars
<1>2. CASE ListTransfer
  BY <1>0, <1>2, Ends DEF ListTransfer, AddTransfer, Sending
<1>3. CASE CancelledWhileWaiting
  BY <1>3, Ends DEF CancelledWhileWaiting, Sending, stateVars
<1>4. CASE PeerAccepts \/ PeerRejects
  <2>1. NextFrame("snd") \in Answer
    BY <1>4, AnswerRead DEF PeerAccepts, PeerRejects
  <2>2. CASE PeerAccepts
    BY <1>0, <2>1, <2>2, Ends
       DEF PeerAccepts, SetStatus, Answer, TransferResponse, Sending
  <2>3. CASE PeerRejects
    BY <2>1, <2>3 DEF PeerRejects, Answer, TransferResponse, Sending, stateVars
  <2> QED
    BY <1>4, <2>2, <2>3
<1>5. CASE \/ NextField \/ (\E n \in 1 .. MaxRead : WriteChunk(n)) \/ FieldEnds
           \/ SendStartFile \/ PushData \/ FlushBuffer \/ SendFileComplete \/ FileSent
           \/ SendSessionComplete
  <2>1. spc \in Sending /\ UNCHANGED <<peerCancel, status>> /\ spc' # "connect"
    BY <1>5
       DEF NextField, WriteChunk, FieldEnds, SendStartFile, PushData, FlushBuffer,
           SendFileComplete, FileSent, SendSessionComplete, Sending, stateVars, AfterWrite
  <2>2. sout' = sout \/ sout' = "Completed"
    BY <1>5
       DEF NextField, WriteChunk, FieldEnds, SendStartFile, PushData, FlushBuffer,
           SendFileComplete, FileSent, SendSessionComplete
  <2> QED
    BY <2>1, <2>2
<1>6. CASE \/ PeerGivesNoVerdict \/ ResponseTimesOut \/ UploadFails \/ HandlerDropped
           \/ WriteFails \/ NotifyPeer
  <2>1. spc' \notin Sending /\ UNCHANGED <<peerCancel, status, sout>> /\ spc' # "connect"
    BY <1>6
       DEF PeerGivesNoVerdict, ResponseTimesOut, UploadFails, HandlerDropped, WriteFails,
           NotifyPeer, Sending, stateVars
  <2> QED
    BY <2>1
<1>7. CASE WriteRefused
  <2>1. /\ spc \in Sending /\ spc' \notin Sending /\ spc' # "connect"
        /\ UNCHANGED <<status, sout>>
    BY <1>7 DEF WriteRefused, Sending, stateVars
  <2>2. CASE peerCancel' = peerCancel
    BY <2>1, <2>2
  <2>3. CASE peerCancel' # peerCancel
    <3>1. Readable("snd") /\ NextFrame("snd").type = "CancelTransfer"
      BY <1>7, <2>3 DEF WriteRefused, CheckLive
    <3>2. NextFrame("snd") \in Answer
      BY <3>1, AnswerRead
    <3> QED
      BY <2>1, <3>1, <3>2 DEF Answer
  <2> QED
    BY <2>2, <2>3
<1>8. CASE HandleError
  BY <1>8, Ends DEF HandleError, IsCancelled, Sending, stateVars
<1>9. CASE SettleSender
  BY <1>0, <1>9, Ends DEF SettleSender, SetStatus, Sending, Finished, TransferStatus
<1> QED
  BY <1>1, <1>2, <1>3, <1>4, <1>5, <1>6, <1>7, <1>8, <1>9 DEF SenderSide, SenderOwnStep, UploadStep

(* So the handler's steps keep the whole of it.                            *)
LEMMA SenderKeepsSession ==
  ASSUME TypeInv, SessionInv, SenderSide, UNCHANGED receiverVars
  PROVE  SessionInv'
<1> USE DEF SessionInv
<1>1. UNCHANGED <<rpc, accepted, rout, disk>> /\ (PastReply' <=> PastReply)
  BY DEF receiverVars, PastReply
<1>2. /\ status'["rcv"] = status["rcv"] /\ token'["rcv"] = token["rcv"]
      /\ "rcv" \in registered' => "rcv" \in registered
      /\ spc # "connect" => token' = token
  BY SenderLeavesReceiver
<1>3. \A e \in End : CancelFired(e) => CancelFired(e)'
  BY <1>2 DEF CancelFired, End, ClickInv
<1>4. wire'["snd"] \in Seq(Answer)
  BY SenderOnlyReads, AnswersLeft DEF VerdictInv
<1>5. wire'["snd"] \in Seq(Answer')
  BY <1>1, <1>3, <1>4, AnswersStayTrue, Ends
<1>6. VerdictInv'
  <2>1. /\ spc' \in Sending \/ sout' = "Completed" \/ status'["snd"] \in {"Active", "Completed"}
             => PastReply /\ accepted
        /\ "Rejected" \in {sout', status'["snd"]} => PastReply /\ ~accepted
    BY SenderKeepsVerdict
  <2> QED
    BY <1>1, <1>2, <1>5, <2>1 DEF VerdictInv, Undecided
<1>7. ClickInv'
  <2>1. /\ peerCancel' => CancelFired("rcv")
        /\ "Cancelled" \in {sout', status'["snd"]} => \E e \in End : CancelFired(e)
        /\ spc' # "connect"
    BY SenderKeepsVerdict
  <2>2. CancelFired("rcv")' <=> CancelFired("rcv")
    BY <1>2 DEF CancelFired
  <2>3. "Cancelled" \in {sout', status'["snd"]} => \E e \in End : CancelFired(e)'
    BY <1>3, <2>1
  <2> QED
    BY <1>1, <1>2, <2>1, <2>2, <2>3 DEF ClickInv
<1> QED
  BY <1>6, <1>7

(* The receiving task changes its own entry, and registers its own token.  *)
LEMMA ReceiverLeavesSender ==
  ASSUME TypeInv, ReceiverSide
  PROVE  /\ status'["snd"] = status["snd"] /\ token'["snd"] = token["snd"]
         /\ "snd" \in registered' => "snd" \in registered
         /\ rpc # "listed" => token' = token /\ registered' \subseteq registered
<1>0. StateTypeOK
  BY DEF TypeInv, TypeOK
<1>1. CASE \/ PrepareUnsafe \/ RefusePaths \/ NoPrepare \/ EmitIncoming \/ DecisionTimesOut
           \/ SendVerdict \/ SendVerdictFails \/ CancelNoticed \/ OpenFile \/ StoreData
           \/ StreamEnds \/ PeerCancels \/ StreamBreaks \/ OpenFails \/ StoreFails
           \/ CompleteFails \/ NotifySender \/ Drain \/ DrainEnds \/ EndReceive
  <2>1. UNCHANGED stateVars
    BY <1>1
       DEF PrepareUnsafe, RefusePaths, NoPrepare, EmitIncoming, DecisionTimesOut, SendVerdict,
           SendVerdictFails, CancelNoticed, OpenFile, StoreData, StreamEnds, PeerCancels,
           StreamBreaks, OpenFails, StoreFails, CompleteFails, NotifySender, Drain, DrainEnds,
           EndReceive
  <2> QED
    BY <2>1 DEF stateVars, tokenVars
<1>2. CASE \/ StartAsking \/ VerdictArrives \/ GiveUpAsking \/ StopAsking \/ CompleteFile
           \/ CleanUp \/ DiscardFails \/ CleanUpFails
  BY <1>2 DEF StartAsking, VerdictArrives, GiveUpAsking, StopAsking, CompleteFile, CleanUp,
     DiscardFails, CleanUpFails, tokenVars
<1>3. CASE ReceivePrepare \/ StartReceiving \/ NoDownloadDir \/ SettleReceiver
  <2>1. UNCHANGED tokenVars /\ \E s : status' = [status EXCEPT !["rcv"] = s] \/ status' = status
    BY <1>3 DEF ReceivePrepare, AddTransfer, StartReceiving, NoDownloadDir, Activate,
       SettleReceiver, SetStatus
  <2> QED
    BY <1>0, <2>1 DEF StateTypeOK, End, tokenVars
<1>4. CASE RegisterSession
  <2>1. /\ status' = status /\ rpc = "listed"
        /\ token' = [token EXCEPT !["rcv"] = "Live"] /\ registered' = registered \cup {"rcv"}
    BY <1>4 DEF RegisterSession, RegisterCancellable, Move
  <2>2. token'["snd"] = token["snd"] /\ ("snd" \in registered' => "snd" \in registered)
    BY <1>0, <2>1, Ends DEF StateTypeOK
  <2> QED
    BY <2>1, <2>2
<1>5. CASE LeaveReceiver
  BY <1>5 DEF LeaveReceiver, DropToken
<1> QED
  BY <1>1, <1>2, <1>3, <1>4, <1>5 DEF ReceiverSide, ReceiverOwnStep, DiskFailure

(* The verdict is taken once, before it is sent, and nothing is written    *)
(* before; the session counts as rejected only by a no.                    *)
LEMMA ReceiverKeepsVerdict ==
  ASSUME TypeInv, ApprovalInv, SessionInv, ReceiverSide
  PROVE  /\ PastReply => PastReply' /\ accepted' = accepted
         /\ "Rejected" \in {rout', status'["rcv"]} => PastReply' /\ ~accepted'
         /\ (\E f \in Files : disk'[f] # "None") => PastReply' /\ accepted'
         /\ Undecided' => ~accepted'
<1> USE DEF SessionInv, VerdictInv, Move, Undecided, PastReply
<1>0. /\ status \in [End -> TransferStatus \cup {"None"}]
      /\ disk \in [Files -> {"None", "Part", "Final"}]
  BY DEF TypeInv, TypeOK, StateTypeOK, ReceiverTypeOK
<1>1. CASE ReceivePrepare
  BY <1>0, <1>1, Ends DEF ReceivePrepare, AddTransfer, storage
<1>2. CASE \/ PrepareUnsafe \/ RefusePaths \/ NoPrepare \/ RegisterSession \/ EmitIncoming
           \/ StartAsking \/ VerdictArrives \/ DecisionTimesOut \/ GiveUpAsking \/ StopAsking
  BY <1>2
     DEF PrepareUnsafe, RefusePaths, NoPrepare, RegisterSession, EmitIncoming, StartAsking,
         VerdictArrives, DecisionTimesOut, GiveUpAsking, StopAsking, stateVars, storage
<1>3. CASE SendVerdict \/ SendVerdictFails
  BY <1>3 DEF SendVerdict, SendVerdictFails, stateVars, storage
<1>4. CASE StartReceiving \/ NoDownloadDir
  BY <1>0, <1>4, Ends DEF StartReceiving, NoDownloadDir, Activate, SetStatus, storage
<1>5. CASE OpenFile \/ StoreData \/ CompleteFile
  <2>1. /\ rpc = "receiving" /\ rpc' \in {"receiving", "cleanup"} /\ status' = status
        /\ accepted' = accepted /\ rout' \in {rout, "Err"}
    BY <1>5 DEF OpenFile, StoreData, CompleteFile, Reads, ReceivingEnds, StaysReceiving, stateVars
  <2> QED
    BY <2>1 DEF ApprovalInv
<1>6. CASE \/ CancelNoticed \/ StreamEnds \/ PeerCancels \/ StreamBreaks \/ OpenFails
           \/ StoreFails \/ CompleteFails \/ DiscardFails \/ CleanUpFails
  BY <1>6
     DEF CancelNoticed, StreamEnds, PeerCancels, StreamBreaks, OpenFails, StoreFails,
         CompleteFails, DiscardFails, CleanUpFails, Reads, ReceivingEnds, StaysReceiving,
         stateVars, storage
<1>7. CASE CleanUp
  <2>1. \A f \in Files : disk'[f] # "None" => disk[f] # "None"
    BY <1>0, <1>7 DEF CleanUp
  <2> QED
    BY <1>7, <2>1 DEF CleanUp
<1>8. CASE NotifySender \/ Drain \/ DrainEnds \/ LeaveReceiver \/ EndReceive
  BY <1>8 DEF NotifySender, Drain, DrainEnds, LeaveReceiver, EndReceive, stateVars, storage
<1>9. CASE SettleReceiver
  <2>1. FinalStatus = "Rejected" => rout = "Rejected"
    BY DEF FinalStatus
  <2> QED
    BY <1>0, <1>9, <2>1, Ends DEF SettleReceiver, SetStatus, storage
<1> QED
  BY <1>1, <1>2, <1>3, <1>4, <1>5, <1>6, <1>7, <1>8, <1>9
     DEF ReceiverSide, ReceiverOwnStep, DiskFailure

(* What the receiver sends after a click is a CancelTransfer, and it stops *)
(* looking for one when it has found it.                                   *)
LEMMA ReceiverKeepsClicks ==
  ASSUME TypeInv, SessionInv, ReceiverSide
  PROVE  /\ rpc' \in {"accept", "refuse", "listed"} => rpc \in {"accept", "refuse"}
         /\ rpc' = "notify" => rout' = "CancelledLocally"
         /\ rout' = "CancelledLocally" => CancelFired("rcv") /\ rpc # "listed"
<1> USE DEF SessionInv, ClickInv, Move
<1>1. CASE \/ ReceivePrepare \/ PrepareUnsafe \/ RefusePaths \/ NoPrepare \/ RegisterSession
           \/ EmitIncoming \/ StartAsking \/ VerdictArrives \/ DecisionTimesOut
           \/ GiveUpAsking \/ StopAsking \/ SendVerdict \/ SendVerdictFails \/ StartReceiving
           \/ NoDownloadDir
  BY <1>1
     DEF ReceivePrepare, PrepareUnsafe, RefusePaths, NoPrepare, RegisterSession, EmitIncoming,
         StartAsking, VerdictArrives, DecisionTimesOut, GiveUpAsking, StopAsking, SendVerdict,
         SendVerdictFails, StartReceiving, NoDownloadDir, Activate
<1>2. CASE \/ CancelNoticed \/ OpenFile \/ StoreData \/ CompleteFile \/ StreamEnds
           \/ PeerCancels \/ StreamBreaks \/ OpenFails \/ StoreFails \/ CompleteFails
           \/ DiscardFails
  BY <1>2
     DEF CancelNoticed, OpenFile, StoreData, CompleteFile, StreamEnds, PeerCancels,
         StreamBreaks, OpenFails, StoreFails, CompleteFails, DiscardFails, Reads, ReceivingEnds,
         StaysReceiving
<1>3. CASE \/ CleanUp \/ CleanUpFails \/ NotifySender \/ Drain \/ DrainEnds
           \/ SettleReceiver \/ LeaveReceiver \/ EndReceive
  BY <1>3 DEF CleanUp, CleanUpFails, NotifySender, Drain, DrainEnds, SettleReceiver, LeaveReceiver, EndReceive
<1> QED
  BY <1>1, <1>2, <1>3 DEF ReceiverSide, ReceiverOwnStep, DiskFailure

(* What the receiving task writes is a true answer.                        *)
LEMMA ReceiverAnswersTruly ==
  ASSUME TypeInv, ApprovalInv, SessionInv, ReceiverSide,
         Seq(Answer) \subseteq Seq(Answer')
  PROVE  wire'["snd"] \in Seq(Answer')
<1> USE Ends, Others DEF SessionInv, VerdictInv, ClickInv
<1>0. wire \in [End -> Seq(Frame)] /\ wire["snd"] \in Seq(Answer') /\ accepted \in BOOLEAN
  BY DEF TypeInv, TypeOK, TcpTypeOK, ReceiverTypeOK
<1>1. CASE \/ RegisterSession \/ EmitIncoming \/ StartAsking \/ VerdictArrives
           \/ DecisionTimesOut \/ GiveUpAsking \/ StopAsking \/ SendVerdictFails
           \/ StartReceiving \/ NoDownloadDir \/ CancelNoticed \/ CleanUp \/ CleanUpFails
           \/ DrainEnds \/ SettleReceiver \/ LeaveReceiver
  <2>1. wire' = wire
    BY <1>1
       DEF RegisterSession, EmitIncoming, StartAsking, VerdictArrives, DecisionTimesOut,
           GiveUpAsking, StopAsking, SendVerdictFails, SendFails, StartReceiving,
           NoDownloadDir, Activate, CancelNoticed, CleanUp, CleanUpFails, DrainEnds,
           SettleReceiver, LeaveReceiver, tcpVars
  <2> QED
    BY <1>0, <2>1
<1>2. CASE \/ ReceivePrepare \/ PrepareUnsafe \/ NoPrepare \/ OpenFile \/ StoreData
           \/ CompleteFile \/ StreamEnds \/ PeerCancels \/ StreamBreaks \/ OpenFails
           \/ StoreFails \/ CompleteFails \/ DiscardFails \/ Drain
  <2>1. UNCHANGED tcpVars \/ Take("rcv")
    BY <1>2
       DEF ReceivePrepare, PrepareUnsafe, NoPrepare, FirstFrame, OpenFile, StoreData,
           CompleteFile, StreamEnds, PeerCancels, StreamBreaks, OpenFails, StoreFails,
           CompleteFails, DiscardFails, Drain, Reads
  <2> QED
    BY <1>0, <2>1, TakeEffect DEF tcpVars
<1>3. CASE RefusePaths \/ SendVerdict \/ NotifySender
  <2>1. PICK m \in Answer' : UNCHANGED tcpVars \/ SendOk("rcv", m)
    <3>1. CASE RefusePaths
      <4>1. CancelTransfer \in Answer'
        BY <3>1, FrameTypes
           DEF RefusePaths, Move, Answer, CancelTransfer, PastReply, Undecided
      <4> QED
        BY <3>1, <4>1 DEF RefusePaths, SendIgnoringErrors, SendFails
    <3>2. CASE SendVerdict
      <4>1. TransferResponse(accepted) \in Answer'
        BY <1>0, <3>2, FrameTypes DEF SendVerdict, Answer, TransferResponse, PastReply
      <4> QED
        BY <3>2, <4>1 DEF SendVerdict
    <3>3. CASE NotifySender
      <4>1. CancelFired("rcv")'
        BY <3>3 DEF NotifySender, Move, stateVars, tokenVars, CancelFired
      <4>2. CancelTransfer \in Answer'
        BY <3>3, <4>1, FrameTypes DEF NotifySender, Move, Answer, CancelTransfer, PastReply
      <4> QED
        BY <3>3, <4>2 DEF NotifySender, SendIgnoringErrors, SendFails
    <3> QED
      BY <1>3, <3>1, <3>2, <3>3
  <2>2. wire'["snd"] = wire["snd"] \/ wire'["snd"] = Append(wire["snd"], m)
    BY <1>0, <2>1, SendOkEffect DEF tcpVars
  <2>3. Append(wire["snd"], m) \in Seq(Answer')
    BY <1>0
  <2> QED
    BY <1>0, <2>2, <2>3
<1>4. CASE EndReceive
  <2>1. wire'["snd"] = wire["snd"] \/ wire'["snd"] = <<>>
    BY <1>0, <1>4, CloseEffect DEF EndReceive
  <2> QED
    BY <1>0, <2>1, AnswersLeft
<1> QED
  BY <1>1, <1>2, <1>3, <1>4 DEF ReceiverSide, ReceiverOwnStep, DiskFailure

(* So the receiving task's steps keep the whole of it.                     *)
LEMMA ReceiverKeepsSession ==
  ASSUME TypeInv, ApprovalInv, SessionInv, ReceiverSide, UNCHANGED senderVars
  PROVE  SessionInv'
<1> USE DEF SessionInv
<1>1. UNCHANGED <<spc, sout, peerCancel>>
  BY DEF senderVars
<1>2. /\ status'["snd"] = status["snd"] /\ token'["snd"] = token["snd"]
      /\ "snd" \in registered' => "snd" \in registered
      /\ rpc # "listed" => token' = token /\ registered' \subseteq registered
  BY ReceiverLeavesSender
<1>3. /\ PastReply => PastReply' /\ accepted' = accepted
      /\ "Rejected" \in {rout', status'["rcv"]} => PastReply' /\ ~accepted'
      /\ (\E f \in Files : disk'[f] # "None") => PastReply' /\ accepted'
      /\ Undecided' => ~accepted'
  BY ReceiverKeepsVerdict
<1>4. /\ rpc' \in {"accept", "refuse", "listed"} => rpc \in {"accept", "refuse"}
      /\ rpc' = "notify" => rout' = "CancelledLocally"
      /\ rout' = "CancelledLocally" => CancelFired("rcv") /\ rpc # "listed"
  BY ReceiverKeepsClicks
<1>5. \A e \in End : CancelFired(e) => CancelFired(e)'
  BY <1>2 DEF CancelFired, End, ClickInv
<1>6. wire'["snd"] \in Seq(Answer')
  BY <1>3, <1>5, AnswersStayTrue, ReceiverAnswersTruly, Ends
<1>7. VerdictInv'
  BY <1>1, <1>2, <1>3, <1>6 DEF VerdictInv
<1>8. ClickInv'
  <2>1. CancelFired("snd")' <=> CancelFired("snd")
    BY <1>2 DEF CancelFired
  <2>2. (rpc \in {"accept", "refuse", "listed"})' => "rcv" \notin registered' /\ ~CancelFired("rcv")'
    BY <1>2, <1>4 DEF ClickInv, CancelFired
  <2>3. CancelFired("rcv") => CancelFired("rcv")'
    BY <1>5, Ends
  <2>4. (\E e \in End : CancelFired(e)) => \E e \in End : CancelFired(e)'
    BY <1>5
  <2> QED
    BY <1>1, <1>2, <1>4, <2>1, <2>2, <2>3, <2>4 DEF ClickInv
<1> QED
  BY <1>7, <1>8

(* Before the connection is made nothing has been said or clicked.         *)
LEMMA InitSession == Init => SessionInv
<1> SUFFICES ASSUME Init PROVE SessionInv
  OBVIOUS
<1>1. wire["snd"] = <<>>
  BY Ends DEF Init, TcpInit
<1>2. \A e \in End : status[e] = "None" /\ ~CancelFired(e)
  BY DEF Init, StateInit, CancelFired
<1>3. VerdictInv
  BY <1>1, <1>2, Ends DEF Init, SenderInit, ReceiverInit, VerdictInv, Sending
<1>4. ClickInv
  BY <1>2, Ends DEF Init, StateInit, SenderInit, ReceiverInit, ClickInv
<1> QED
  BY <1>3, <1>4 DEF SessionInv

(* The web handlers fire tokens and carry verdicts, but take nothing back. *)
LEMMA HandlersKeepSession ==
  ASSUME TypeInv, SessionInv, UserDecides \/ UserCancels \/ HandlersRun
  PROVE  SessionInv'
<1> USE DEF SessionInv
<1>1. UNCHANGED <<tcpVars, senderVars, receiverVars>> /\ registered' = registered /\ status' = status
  BY DEF UserDecides, DecideTakes, UserCancels, CancelFires, HandlersRun, DecideSends,
     CancelRejects, tokenVars
<1>2. token' = token \/ \E e \in registered : token' = [token EXCEPT ![e] = "Fired"]
  BY DEF UserDecides, DecideTakes, UserCancels, CancelFires, HandlersRun, DecideSends,
     CancelRejects, tokenVars
<1>3. \A e \in End :
        /\ CancelFired(e) => CancelFired(e)'
        /\ e \notin registered => (CancelFired(e)' <=> CancelFired(e))
  BY <1>2 DEF CancelFired, TypeInv, TypeOK, StateTypeOK
<1>4. VerdictInv'
  <2>1. (PastReply' <=> PastReply) /\ accepted' = accepted
    BY <1>1 DEF PastReply, receiverVars
  <2>2. wire'["snd"] \in Seq(Answer')
    BY <1>1, <1>3, <2>1, AnswersStayTrue, Ends DEF VerdictInv, tcpVars
  <2> QED
    BY <1>1, <2>1, <2>2 DEF VerdictInv, Undecided, senderVars, receiverVars
<1>5. ClickInv'
  <2>1. (\E e \in End : CancelFired(e)) => \E e \in End : CancelFired(e)'
    BY <1>3
  <2>2. \A e \in {"snd", "rcv"} :
          /\ CancelFired(e) => CancelFired(e)'
          /\ e \notin registered => (CancelFired(e)' <=> CancelFired(e))
    BY <1>3, Ends
  <2> QED
    BY <1>1, <2>1, <2>2 DEF ClickInv, senderVars, receiverVars
<1> QED
  BY <1>4, <1>5

(* The network may lose answers, but makes none up.                        *)
LEMMA NetworkKeepsSession ==
  ASSUME TypeInv, SessionInv, NetworkBreaks \/ DataCorrupted \/ UNCHANGED vars
  PROVE  SessionInv'
<1> USE DEF SessionInv
<1>0. wire \in [End -> Seq(Frame)]
  BY DEF TypeInv, TypeOK, TcpTypeOK
<1>1. UNCHANGED <<stateVars, senderVars, receiverVars>>
  BY DEF NetworkBreaks, DataCorrupted, vars
<1>2. wire'["snd"] = wire["snd"] \/ \E n \in 0 .. Len(wire["snd"]) : wire'["snd"] = SubSeq(wire["snd"], 1, n)
  BY <1>0, NetworkFailsEffect, DataAlteredEffect, Ends DEF NetworkBreaks, DataCorrupted, vars, tcpVars
<1>3. wire'["snd"] \in Seq(Answer)
  <2>1. wire["snd"] \in Seq(Answer)
    BY DEF VerdictInv
  <2>2. \A n \in 0 .. Len(wire["snd"]) : SubSeq(wire["snd"], 1, n) \in Seq(Answer)
    BY <2>1, SubSeqProperties
  <2> QED
    BY <1>2, <2>1, <2>2
<1>4. Answer' = Answer
  BY <1>1 DEF Answer, PastReply, CancelFired, receiverVars, stateVars, tokenVars
<1> QED
  BY <1>1, <1>3, <1>4
     DEF VerdictInv, ClickInv, Undecided, PastReply, CancelFired, stateVars, tokenVars, senderVars,
         receiverVars

(* Every step keeps the answers true and the clicks behind the             *)
(* cancellations.                                                          *)
LEMMA NextKeepsSession == TypeInv /\ ApprovalInv /\ SessionInv /\ [Next]_vars => SessionInv'
<1> SUFFICES ASSUME TypeInv, ApprovalInv, SessionInv, [Next]_vars PROVE SessionInv'
  OBVIOUS
<1>1. CASE SenderRuns
  BY <1>1, SenderKeepsSession DEF SenderRuns, SenderSide
<1>2. CASE \/ BrowserUploads \/ SenderTimesOut \/ ConnectionRefused \/ BrowserFails
           \/ BrowserHangsUp \/ AnswerTooLate
  BY <1>2, SenderKeepsSession
     DEF BrowserUploads, SenderTimesOut, ConnectionRefused, BrowserFails, BrowserHangsUp,
         AnswerTooLate, SenderSide
<1>3. CASE ReceiverRuns \/ DiskFails
  BY <1>3, ReceiverKeepsSession DEF ReceiverRuns, DiskFails, ReceiverSide
<1>4. CASE UserDecides \/ UserCancels \/ HandlersRun
  BY <1>4, HandlersKeepSession
<1>5. CASE NetworkBreaks \/ DataCorrupted \/ UNCHANGED vars
  BY <1>5, NetworkKeepsSession
<1> QED
  BY <1>1, <1>2, <1>3, <1>4, <1>5 DEF Next, MisfortuneStrikes, Rests

(* In every reachable state the answers on their way are true, and every   *)
(* cancellation has a click behind it.                                     *)
THEOREM SessionInvHolds == Spec => [](TypeInv /\ ApprovalInv /\ SessionInv)
<1>1. Spec => []ApprovalInv
  BY InitApproval, NextKeepsApproval, TypeInvHolds, PTL DEF Spec
<1> QED
  BY <1>1, InitSession, NextKeepsSession, TypeInvHolds, PTL DEF Spec

(* However the user's verdict, the timeout and the loss of the connection  *)
(* meet, the two hosts never act on different verdicts (transfer.rs:559,   *)
(* transfer.rs:264).                                                       *)
THEOREM HostsAgree == Spec => []VerdictsAgree
<1>1. ApprovalInv /\ SessionInv => VerdictsAgree
  BY DEF ApprovalInv, SessionInv, VerdictInv, VerdictsAgree
<1> QED
  BY <1>1, SessionInvHolds, PTL

(* The sender never shows Cancelled for a connection that broke: one of    *)
(* the two users has clicked (state.rs:72).                                *)
THEOREM CancelledByClick == Spec => []SenderCancelledByClick
<1>1. SessionInv => SenderCancelledByClick
  BY DEF SessionInv, ClickInv, SenderCancelledByClick
<1> QED
  BY <1>1, SessionInvHolds, PTL

---------------------------------------------------------------------------
(* The order of the files.  The sender's frames follow one another as the  *)
(* manifest says, and the receiver reads them in that order as long as it  *)
(* reads: the place both are at is a stage of the session.  Stage 0 is     *)
(* before the manifest has been sent, stage 2f while file f is being sent, *)
(* and stage 2f + 1 between file f and the next.                           *)

(* A frame that ends what came before it, whatever that was.               *)
Breaks(m) == m.type \in {"CancelTransfer", "CutFrame"}

StageBefore(m) ==
  CASE m.type = "StartFile"                   -> 2 * m.file - 1
    [] m.type \in {"Data", "FileComplete"}    -> 2 * m.file
    [] m.type = "SessionComplete"             -> 2 * NFiles + 1
    [] OTHER                                  -> 0

StageAfter(m) ==
  CASE m.type = "PrepareTransfer"             -> 1
    [] m.type \in {"StartFile", "Data"}       -> 2 * m.file
    [] m.type = "FileComplete"                -> 2 * m.file + 1
    [] OTHER                                  -> 2 * NFiles + 2

MayFollow(a, b) == Breaks(b) \/ StageAfter(a) = StageBefore(b)

Chained(s) == \A i \in 1 .. Len(s) - 1 : MayFollow(s[i], s[i + 1])

(* The stage of the sender, while it has more to send, and whether what it *)
(* sends reaches the receiver.                                             *)
Talking == spc \in {"connect", "prepare", "list", "await"} \cup Sending

StageWritten ==
  CASE spc \in {"connect", "prepare"}                       -> 0
    [] spc = "start"                                        -> 2 * cur - 1
    [] spc \in {"stream", "push", "flush", "complete"}      -> 2 * cur
    [] OTHER                                                -> 2 * cur + 1

Reached == up /\ "snd" \notin fin

(* The receiver, until receive_files returns; its stage with k files       *)
(* settled.                                                                *)
Reading == Undecided \/ rpc \in {"forget", "reply", "start", "receiving"}

StageRead(k) ==
  IF rpc = "accept" THEN 0 ELSE IF active # 0 THEN 2 * active ELSE 2 * k + 1

Inbound == wire["rcv"]

Settled(f) == disk[f] = "Final" \/ files["rcv"][f] = "Error"
Untouched(f) == disk[f] = "None" /\ files["rcv"][f] = "ToDo"
Partial(f) == disk[f] = "Part" /\ files["rcv"][f] = "ToDo"

(* k files are settled, the next may be open, the others have not come.    *)
SettledUpTo(k) ==
  /\ \A f \in 1 .. k : Settled(f)
  /\ \A f \in k + 1 .. NFiles : IF f = active THEN Partial(f) ELSE Untouched(f)
  /\ active \in {0, k + 1}
  /\ rpc # "receiving" => k = 0 /\ active = 0

(* What is on its way goes on where the receiver is, and so does the       *)
(* sender when nothing is.                                                 *)
InStep(k) ==
  /\ Inbound # <<>> => Breaks(Inbound[1]) \/ StageBefore(Inbound[1]) = StageRead(k)
  /\ Inbound = <<>> /\ Talking /\ Reached => StageWritten = StageRead(k)

OrderInv ==
  /\ Chained(Inbound)
  /\ Inbound # <<>> /\ Talking /\ Reached => StageAfter(Inbound[Len(Inbound)]) = StageWritten
  /\ spc = "finish" => cur = NFiles
  /\ Reading => \E k \in 0 .. NFiles : SettledUpTo(k) /\ InStep(k)
  /\ active # 0 => rpc \in {"receiving", "cleanup"} /\ disk[active] = "Part"

(* A shorter chain is a chain.                                             *)
LEMMA ChainTail ==
  ASSUME NEW s \in Seq(Frame), s # <<>>, Chained(s)
  PROVE  /\ Chained(Tail(s)) /\ Head(s) = s[1] /\ Head(s) \in Frame
         /\ Tail(s) # <<>> => /\ MayFollow(Head(s), Tail(s)[1])
                             /\ Tail(s)[Len(Tail(s))] = s[Len(s)]
         /\ Tail(s) = <<>> => s[Len(s)] = Head(s)
<1> DEFINE t == Tail(s)
<1>1. /\ t \in Seq(Frame) /\ Len(t) = Len(s) - 1 /\ Len(s) \in Nat \ {0}
      /\ \A i \in 1 .. Len(t) : t[i] = s[i + 1]
  BY HeadTailProperties
<1>2. Head(s) = s[1] /\ Head(s) \in Frame
  BY HeadTailProperties
<1>3. t = <<>> <=> Len(t) = 0
  BY <1>1
<1>4. Chained(t)
  <2> SUFFICES ASSUME NEW i \in 1 .. Len(t) - 1 PROVE MayFollow(t[i], t[i + 1])
    BY DEF Chained
  <2>1. i + 1 \in 1 .. Len(s) - 1 /\ t[i] = s[i + 1] /\ t[i + 1] = s[i + 2]
    BY <1>1
  <2> QED
    BY <2>1 DEF Chained
<1>5. t # <<>> => MayFollow(Head(s), t[1]) /\ t[Len(t)] = s[Len(s)]
  <2> SUFFICES ASSUME t # <<>> PROVE MayFollow(Head(s), t[1]) /\ t[Len(t)] = s[Len(s)]
    OBVIOUS
  <2>1. 1 \in 1 .. Len(s) - 1 /\ t[1] = s[2] /\ t[Len(t)] = s[Len(s)]
    BY <1>1, <1>3
  <2> QED
    BY <1>2, <2>1 DEF Chained
<1> QED
  BY <1>1, <1>2, <1>3, <1>4, <1>5

(* A chain goes on with a frame that may follow its last.                  *)
LEMMA ChainAppend ==
  ASSUME NEW s \in Seq(Frame), NEW m \in Frame, Chained(s), s # <<>> => MayFollow(s[Len(s)], m)
  PROVE  /\ Chained(Append(s, m)) /\ Append(s, m) # <<>>
         /\ Append(s, m)[Len(Append(s, m))] = m
         /\ Append(s, m)[1] = IF s = <<>> THEN m ELSE s[1]
<1> DEFINE t == Append(s, m)
<1>1. /\ Len(s) \in Nat /\ Len(t) = Len(s) + 1 /\ t[Len(s) + 1] = m /\ t # <<>>
      /\ \A i \in 1 .. Len(s) : t[i] = s[i]
      /\ s = <<>> <=> Len(s) = 0
  BY AppendProperties
<1>2. Chained(t)
  <2> SUFFICES ASSUME NEW i \in 1 .. Len(t) - 1 PROVE MayFollow(t[i], t[i + 1])
    BY DEF Chained
  <2>1. CASE i = Len(s)
    BY <1>1, <2>1
  <2>2. CASE i # Len(s)
    <3>1. i \in 1 .. Len(s) - 1 /\ t[i] = s[i] /\ t[i + 1] = s[i + 1]
      BY <1>1, <2>2
    <3> QED
      BY <3>1 DEF Chained
  <2> QED
    BY <2>1, <2>2
<1>3. t[1] = IF s = <<>> THEN m ELSE s[1]
  BY <1>1
<1> QED
  BY <1>1, <1>2, <1>3

(* So does a prefix of a chain.                                            *)
LEMMA ChainPrefix ==
  ASSUME NEW s \in Seq(Frame), NEW n \in 0 .. Len(s), Chained(s)
  PROVE  /\ Chained(SubSeq(s, 1, n))
         /\ SubSeq(s, 1, n) # <<>> => SubSeq(s, 1, n)[1] = s[1] /\ s # <<>>
<1> DEFINE t == SubSeq(s, 1, n)
<1>1. /\ Len(s) \in Nat /\ Len(t) = n /\ \A i \in 1 .. n : t[i] = s[i]
      /\ t = <<>> <=> n = 0
  BY SubSeqProperties
<1>2. Chained(t)
  <2> SUFFICES ASSUME NEW i \in 1 .. Len(t) - 1 PROVE MayFollow(t[i], t[i + 1])
    BY DEF Chained
  <2>1. i \in 1 .. Len(s) - 1 /\ t[i] = s[i] /\ t[i + 1] = s[i + 1]
    BY <1>1
  <2> QED
    BY <2>1 DEF Chained
<1>3. t # <<>> => t[1] = s[1] /\ s # <<>>
  BY <1>1
<1> QED
  BY <1>2, <1>3

(* Altering the content of a Data frame leaves a chain what it was.        *)
LEMMA ChainAltered ==
  ASSUME NEW s \in Seq(Frame), NEW t \in Seq(Frame), Len(t) = Len(s), Chained(s),
         \A i \in 1 .. Len(s) :
           \/ t[i] = s[i]
           \/ s[i].type = "Data" /\ t[i].type = "Data" /\ t[i].file = s[i].file
  PROVE  /\ Chained(t) /\ (t = <<>> <=> s = <<>>)
         /\ s # <<>> => /\ Breaks(t[1]) <=> Breaks(s[1])
                        /\ StageBefore(t[1]) = StageBefore(s[1])
                        /\ StageAfter(t[Len(t)]) = StageAfter(s[Len(s)])
<1>1. Len(s) \in Nat /\ (s = <<>> <=> Len(s) = 0) /\ (t = <<>> <=> Len(t) = 0)
  OBVIOUS
<1>2. ASSUME NEW i \in 1 .. Len(s)
      PROVE  /\ Breaks(t[i]) <=> Breaks(s[i])
             /\ StageBefore(t[i]) = StageBefore(s[i]) /\ StageAfter(t[i]) = StageAfter(s[i])
  BY <1>2 DEF Breaks, StageBefore, StageAfter
<1>3. ASSUME NEW i \in 1 .. Len(t) - 1 PROVE MayFollow(t[i], t[i + 1])
  <2>1. i \in 1 .. Len(s) /\ i + 1 \in 1 .. Len(s) /\ MayFollow(s[i], s[i + 1])
    BY <1>1 DEF Chained
  <2>2. StageAfter(t[i]) = StageAfter(s[i])
    BY <1>2, <2>1
  <2>3. /\ Breaks(t[i + 1]) <=> Breaks(s[i + 1])
        /\ StageBefore(t[i + 1]) = StageBefore(s[i + 1])
    BY <1>2, <2>1
  <2> QED
    BY <2>1, <2>2, <2>3 DEF MayFollow
<1>4. s # <<>> => 1 \in 1 .. Len(s) /\ Len(s) \in 1 .. Len(s)
  BY <1>1
<1> QED
  BY <1>1, <1>2, <1>3, <1>4 DEF Chained

(* What a step of the sender or of the network may do to the frames on     *)
(* their way: nothing, add the one that is due (or that breaks them off),  *)
(* or lose the last of them with nothing to follow.                        *)
SaysNothing ==
  /\ Inbound' = Inbound
  /\ Talking' /\ Reached' => Talking /\ Reached /\ StageWritten' = StageWritten

Says(m) ==
  /\ Inbound' = Append(Inbound, m)
  /\ Breaks(m) \/ (Talking /\ Reached /\ StageBefore(m) = StageWritten)
  /\ Talking' /\ Reached' => StageWritten' = StageAfter(m)

LosesItsEnd ==
  /\ \E n \in 0 .. Len(Inbound) : Inbound' = SubSeq(Inbound, 1, n)
  /\ ~(Talking' /\ Reached')

(* None of them disturbs the order, nor does an altered frame.             *)
LEMMA WireKeepsOrder ==
  ASSUME TypeInv, OrderInv, UNCHANGED receiverVars, files'["rcv"] = files["rcv"],
         spc' = "finish" => cur' = NFiles,
         \/ SaysNothing \/ LosesItsEnd
         \/ \E m \in Frame : Says(m)
         \/ DataAltered /\ UNCHANGED senderVars
  PROVE  OrderInv'
<1>0. Inbound \in Seq(Frame) /\ wire \in [End -> Seq(Frame)] /\ Chained(Inbound)
  BY Ends DEF TypeInv, TypeOK, TcpTypeOK, Inbound, OrderInv
<1>1. /\ Reading' <=> Reading
      /\ active' # 0 => rpc' \in {"receiving", "cleanup"} /\ disk'[active'] = "Part"
  BY DEF OrderInv, Reading, Undecided, receiverVars
<1>2. ASSUME NEW k \in 0 .. NFiles, SettledUpTo(k)
      PROVE  SettledUpTo(k)' /\ StageRead(k)' = StageRead(k)
  BY <1>2 DEF SettledUpTo, Settled, Partial, Untouched, StageRead, receiverVars
<1>3. Reading => \E k \in 0 .. NFiles : SettledUpTo(k) /\ InStep(k)
  BY DEF OrderInv
<1>4. SUFFICES /\ Chained(Inbound')
               /\ Inbound' # <<>> /\ Talking' /\ Reached'
                    => StageAfter(Inbound'[Len(Inbound')]) = StageWritten'
               /\ \A k \in 0 .. NFiles : SettledUpTo(k) /\ InStep(k) => InStep(k)'
  <2>1. Reading' => \E k \in 0 .. NFiles : SettledUpTo(k)' /\ InStep(k)'
    BY <1>1, <1>2, <1>3, <1>4
  <2>2. Chained(Inbound)' /\ StageAfter(Inbound[Len(Inbound)])' = StageAfter(Inbound'[Len(Inbound')])
    BY <1>4 DEF Chained, MayFollow, Breaks, StageAfter, StageBefore
  <2> QED
    BY <1>1, <1>4, <2>1, <2>2 DEF OrderInv
<1>5. ASSUME NEW k \in 0 .. NFiles, SettledUpTo(k), InStep(k),
             /\ Inbound' # <<>> => Breaks(Inbound'[1]) \/ StageBefore(Inbound'[1]) = StageRead(k)
             /\ Inbound' = <<>> /\ Talking' /\ Reached' => StageWritten' = StageRead(k)
      PROVE  InStep(k)'
  BY <1>2, <1>5 DEF InStep, Breaks, StageBefore
<1>6. CASE SaysNothing
  BY <1>0, <1>5, <1>6 DEF SaysNothing, InStep, OrderInv
<1>7. CASE LosesItsEnd
  <2>1. /\ Chained(Inbound')
        /\ Inbound' # <<>> => Inbound'[1] = Inbound[1] /\ Inbound # <<>>
    BY <1>0, <1>7, ChainPrefix DEF LosesItsEnd
  <2> QED
    BY <1>5, <1>7, <2>1 DEF LosesItsEnd, InStep
<1>8. CASE \E m \in Frame : Says(m)
  <2>1. PICK m \in Frame : Says(m)
    BY <1>8
  <2>2. Inbound # <<>> => MayFollow(Inbound[Len(Inbound)], m)
    BY <2>1 DEF Says, MayFollow, OrderInv
  <2>3. /\ Chained(Inbound') /\ Inbound' # <<>> /\ Inbound'[Len(Inbound')] = m
        /\ Inbound'[1] = IF Inbound = <<>> THEN m ELSE Inbound[1]
    BY <1>0, <2>1, <2>2, ChainAppend DEF Says
  <2> QED
    BY <1>5, <2>1, <2>3 DEF Says, InStep
<1>9. CASE DataAltered /\ UNCHANGED senderVars
  <2>1. Inbound' \in Seq(Frame)
    BY <1>0, <1>9, DataAlteredType, Ends DEF TypeInv, TypeOK, TcpTypeOK, Inbound
  <2>2. /\ Chained(Inbound') /\ (Inbound' = <<>> <=> Inbound = <<>>)
        /\ Inbound # <<>> => /\ Breaks(Inbound'[1]) <=> Breaks(Inbound[1])
                             /\ StageBefore(Inbound'[1]) = StageBefore(Inbound[1])
                             /\ StageAfter(Inbound'[Len(Inbound')]) = StageAfter(Inbound[Len(Inbound)])
    BY <1>0, <1>9, <2>1, ChainAltered, DataAlteredEffect DEF Inbound
  <2>3. (Talking' <=> Talking) /\ (Reached' <=> Reached) /\ StageWritten' = StageWritten
    BY <1>0, <1>9, DataAlteredEffect DEF Talking, Reached, StageWritten, senderVars
  <2> QED
    BY <1>5, <2>2, <2>3 DEF InStep, OrderInv
<1> QED
  BY <1>6, <1>7, <1>8, <1>9

(* A step of the sender that writes nothing to the receiver.               *)
LEMMA SenderQuiet ==
  ASSUME Inbound' = Inbound, UNCHANGED <<fin, up>>,
         Talking' => Talking /\ StageWritten' = StageWritten
  PROVE  SaysNothing
  BY DEF SaysNothing, Reached

(* A step that writes the frame that is due.                               *)
LEMMA SenderWrites ==
  ASSUME TypeInv, NEW m \in Frame, SendOk("snd", m),
         Breaks(m) \/ (Talking /\ StageBefore(m) = StageWritten),
         Talking' => StageWritten' = StageAfter(m)
  PROVE  SaysNothing \/ \E n \in Frame : Says(n)
<1>1. /\ UNCHANGED <<fin, up>>
      /\ IF Reached THEN Inbound' = Append(Inbound, m) ELSE Inbound' = Inbound
  BY SendOkEffect, Ends, Others DEF TypeInv, TypeOK, TcpTypeOK, Reached, Inbound
<1> QED
  BY <1>1 DEF SaysNothing, Says, Reached

(* The handler never has the last file behind it with another to come.     *)
LEMMA SenderFinishes ==
  ASSUME TypeInv, OrderInv, SenderSide
  PROVE  spc' = "finish" => cur' = NFiles
<1>0. cur \in 0 .. NFiles /\ NFiles \in Nat /\ (spc = "filed" => cur \in Files)
  BY FilesAssumption DEF TypeInv, TypeOK, SenderTypeOK, SenderInv, AtFile
<1> SUFFICES ASSUME spc' = "finish" PROVE cur' = NFiles
  OBVIOUS
<1>1. FileSent
  BY DEF SenderSide, SenderOwnStep, UploadStep, Connect, SendPrepare, ListTransfer,
     CancelledWhileWaiting, PeerAccepts, PeerRejects, PeerGivesNoVerdict, SendStartFile,
     PushData, FlushBuffer, SendFileComplete, SendSessionComplete, WriteFails, HandleError,
     NotifyPeer, SettleSender, LeaveSender, Respond, NextField, WriteChunk, WriteRefused,
     FieldEnds, ConnectFails, UploadFails, HandlerDropped, ResponseTimesOut, Goto, SettleAs,
     AfterWrite
<1> QED
  BY <1>0, <1>1 DEF FileSent, Files

(* What the handler writes is what is due next, until it breaks off.       *)
LEMMA SenderSpeaksInOrder ==
  ASSUME TypeInv, OrderInv, SenderSide
  PROVE  SaysNothing \/ LosesItsEnd \/ \E m \in Frame : Says(m)
<1> USE Ends, Others DEF Goto, SettleAs
<1>0. /\ wire \in [End -> Seq(Frame)] /\ Inbound \in Seq(Frame)
      /\ cur \in 0 .. NFiles /\ NFiles \in Nat /\ sent \in Nat /\ buf \in Nat
      /\ spc \in AtFile => cur \in Files
      /\ spc \in {"connect", "prepare", "list", "await"} => cur = 0
      /\ spc = "finish" => cur = NFiles
  BY FilesAssumption DEF TypeInv, TypeOK, TcpTypeOK, SenderTypeOK, SenderInv, OrderInv, Inbound
<1>1. CASE \/ Connect \/ ListTransfer \/ CancelledWhileWaiting \/ FileSent \/ WriteFails
           \/ HandleError \/ SettleSender \/ LeaveSender \/ NextField \/ FieldEnds
           \/ ConnectFails \/ UploadFails \/ ResponseTimesOut
  <2>1. UNCHANGED tcpVars
    BY <1>1
       DEF Connect, ListTransfer, CancelledWhileWaiting, FileSent, WriteFails, SendFails,
           HandleError, SettleSender, LeaveSender, NextField, FieldEnds, ConnectFails,
           UploadFails, ResponseTimesOut
  <2>2. CASE \/ CancelledWhileWaiting \/ WriteFails \/ HandleError \/ SettleSender \/ LeaveSender
             \/ ConnectFails \/ UploadFails \/ ResponseTimesOut
    <3>1. ~Talking'
      BY <2>2
         DEF CancelledWhileWaiting, WriteFails, HandleError, SettleSender, LeaveSender,
             ConnectFails, UploadFails, ResponseTimesOut, Talking, Sending
    <3> QED
      BY <2>1, <3>1, SenderQuiet DEF tcpVars, Inbound
  <2>3. CASE Connect \/ ListTransfer \/ FileSent \/ NextField \/ FieldEnds
    <3>1. Talking /\ StageWritten' = StageWritten
      <4>1. CASE Connect \/ ListTransfer \/ FileSent
        BY <4>1 DEF Connect, ListTransfer, FileSent, Talking, Sending, StageWritten
      <4>2. CASE NextField
        BY <1>0, <4>2 DEF NextField, Talking, Sending, StageWritten
      <4>3. CASE FieldEnds
        BY <4>3 DEF FieldEnds, Talking, Sending, StageWritten
      <4> QED
        BY <2>3, <4>1, <4>2, <4>3
    <3> QED
      BY <2>1, <3>1, SenderQuiet DEF tcpVars, Inbound
  <2> QED
    BY <1>1, <2>2, <2>3
<1>2. CASE \/ PeerAccepts \/ PeerRejects \/ PeerGivesNoVerdict \/ WriteRefused
           \/ \E n \in 1 .. MaxRead : WriteChunk(n)
  <2>1. UNCHANGED tcpVars \/ Take("snd")
    BY <1>2 DEF PeerAccepts, PeerRejects, PeerGivesNoVerdict, WriteRefused, CheckLive, WriteChunk
  <2>2. Inbound' = Inbound /\ UNCHANGED <<fin, up>>
    BY <1>0, <2>1, TakeEffect DEF tcpVars, Inbound
  <2>3. Talking' => Talking /\ StageWritten' = StageWritten
    BY <1>2
       DEF PeerAccepts, PeerRejects, PeerGivesNoVerdict, WriteRefused, WriteChunk, AfterWrite,
           Talking, Sending, StageWritten
  <2> QED
    BY <2>2, <2>3, SenderQuiet
<1>3. CASE \E safe \in Manifests : SendPrepare(safe)
  <2>1. PICK safe \in Manifests : SendPrepare(safe)
    BY <1>3
  <2>2. PrepareTransfer(safe) \in Frame /\ SendOk("snd", PrepareTransfer(safe))
    BY <2>1, FrameTypes, TransferAssumption DEF SendPrepare
  <2>3. /\ Talking /\ StageBefore(PrepareTransfer(safe)) = StageWritten
        /\ StageWritten' = StageAfter(PrepareTransfer(safe))
    BY <1>0, <2>1
       DEF SendPrepare, Talking, StageWritten, StageBefore, StageAfter, PrepareTransfer
  <2> QED
    BY <2>2, <2>3, SenderWrites
<1>4. CASE SendStartFile
  <2>1. StartFile(cur) \in Frame /\ SendOk("snd", StartFile(cur))
    BY <1>0, <1>4, FrameTypes DEF SendStartFile, AtFile
  <2>2. /\ Talking /\ StageBefore(StartFile(cur)) = StageWritten
        /\ StageWritten' = StageAfter(StartFile(cur))
    BY <1>0, <1>4
       DEF SendStartFile, Talking, Sending, StageWritten, StageBefore, StageAfter, StartFile
  <2> QED
    BY <2>1, <2>2, SenderWrites
<1>5. CASE PushData \/ FlushBuffer
  <2>1. PICK n \in Nat : SendOk("snd", Data(cur, n))
    BY <1>0, <1>5, SenderAssumption DEF PushData, FlushBuffer
  <2>2. Data(cur, n) \in Frame
    BY <1>0, <1>5, FrameTypes DEF PushData, FlushBuffer, AtFile
  <2>3. /\ Talking /\ StageBefore(Data(cur, n)) = StageWritten
        /\ StageWritten' = StageAfter(Data(cur, n))
    BY <1>0, <1>5
       DEF PushData, FlushBuffer, AfterWrite, Talking, Sending, StageWritten, StageBefore,
           StageAfter, Data
  <2> QED
    BY <2>1, <2>2, <2>3, SenderWrites
<1>6. CASE SendFileComplete
  <2>1. FileComplete(cur, sent) \in Frame /\ SendOk("snd", FileComplete(cur, sent))
    BY <1>0, <1>6, FrameTypes DEF SendFileComplete, AtFile
  <2>2. /\ Talking /\ StageBefore(FileComplete(cur, sent)) = StageWritten
        /\ StageWritten' = StageAfter(FileComplete(cur, sent))
    BY <1>0, <1>6
       DEF SendFileComplete, Talking, Sending, StageWritten, StageBefore, StageAfter, FileComplete
  <2> QED
    BY <2>1, <2>2, SenderWrites
<1>7. CASE SendSessionComplete
  <2>1. SessionComplete \in Frame /\ SendOk("snd", SessionComplete)
    BY <1>7, FrameTypes DEF SendSessionComplete
  <2>2. Talking /\ StageBefore(SessionComplete) = StageWritten /\ ~Talking'
    BY <1>0, <1>7
       DEF SendSessionComplete, Talking, Sending, StageWritten, StageBefore, SessionComplete
  <2> QED
    BY <2>1, <2>2, SenderWrites
<1>8. CASE NotifyPeer
  <2>1. ~Talking'
    BY <1>8 DEF NotifyPeer, Talking, Sending
  <2>2. CASE UNCHANGED tcpVars
    BY <2>1, <2>2, SenderQuiet DEF tcpVars, Inbound
  <2>3. CASE SendOk("snd", CancelTransfer)
    <3>1. CancelTransfer \in Frame /\ Breaks(CancelTransfer)
      BY FrameTypes DEF Breaks, CancelTransfer
    <3> QED
      BY <2>1, <2>3, <3>1, SenderWrites
  <2> QED
    BY <1>8, <2>2, <2>3 DEF NotifyPeer, SendIgnoringErrors, SendFails
<1>9. CASE Respond \/ HandlerDropped
  <2>1. ~Talking' /\ (Close("snd") \/ CloseAfter("snd", <<CutFrame>>))
    BY <1>9 DEF Respond, HandlerDropped, Talking, Sending
  <2>2. \/ Inbound' = Inbound \/ Inbound' = <<>>
        \/ Inbound' = Inbound \o <<CutFrame>>
    BY <1>0, <2>1, CloseEffect, CloseAfterEffect DEF Inbound
  <2>3. /\ Inbound = SubSeq(Inbound, 1, Len(Inbound)) /\ <<>> = SubSeq(Inbound, 1, 0)
        /\ Inbound \o <<CutFrame>> = Append(Inbound, CutFrame) /\ Len(Inbound) \in Nat
    BY <1>0
  <2>4. CASE Inbound' = Inbound \/ Inbound' = <<>>
    <3>1. \E n \in 0 .. Len(Inbound) : Inbound' = SubSeq(Inbound, 1, n)
      <4>1. 0 \in 0 .. Len(Inbound) /\ Len(Inbound) \in 0 .. Len(Inbound)
        BY <2>3
      <4> QED
        BY <2>3, <2>4, <4>1
    <3> QED
      BY <2>1, <3>1 DEF LosesItsEnd
  <2>5. CASE Inbound' = Inbound \o <<CutFrame>>
    BY <2>1, <2>3, <2>5, FrameTypes DEF Says, Breaks, CutFrame
  <2> QED
    BY <2>2, <2>4, <2>5
<1> QED
  BY <1>1, <1>2, <1>3, <1>4, <1>5, <1>6, <1>7, <1>8, <1>9
     DEF SenderSide, SenderOwnStep, UploadStep

(* So the handler's steps keep the order.                                  *)
LEMMA SenderKeepsOrder ==
  ASSUME TypeInv, OrderInv, SenderSide, UNCHANGED receiverVars
  PROVE  OrderInv'
  BY SenderSpeaksInOrder, SenderFinishes, SenderLeavesReceiver, WireKeepsOrder

(* A step of the receiving task that reads nothing keeps it if it leaves   *)
(* what is settled as it was.                                              *)
LEMMA IdlingKeepsOrder ==
  ASSUME TypeInv, OrderInv, UNCHANGED senderVars, Reached' => Reached,
         Inbound' = Inbound \/ (Inbound' = <<>> /\ ~Reading' /\ ~(Talking /\ Reached')),
         active' # 0 => rpc' \in {"receiving", "cleanup"} /\ disk'[active'] = "Part",
         Reading' => Reading,
         \A k \in 0 .. NFiles :
           Reading' /\ SettledUpTo(k) => SettledUpTo(k)' /\ StageRead(k)' = StageRead(k)
  PROVE  OrderInv'
<1>1. /\ (Talking' <=> Talking) /\ StageWritten' = StageWritten
      /\ spc' = spc /\ cur' = cur
  BY DEF Talking, StageWritten, senderVars
<1>2. /\ Chained(Inbound)'
      /\ Inbound' # <<>> /\ Talking' /\ Reached' => StageAfter(Inbound[Len(Inbound)])' = StageWritten'
  <2>1. CASE Inbound' = Inbound
    <3>1. Chained(Inbound)' /\ StageAfter(Inbound[Len(Inbound)])' = StageAfter(Inbound[Len(Inbound)])
      BY <2>1 DEF OrderInv, Chained, MayFollow, Breaks, StageAfter, StageBefore
    <3> QED
      BY <1>1, <2>1, <3>1 DEF OrderInv
  <2>2. CASE Inbound' = <<>>
    BY <2>2 DEF Chained
  <2> QED
    BY <2>1, <2>2
<1>3. Reading' => \E k \in 0 .. NFiles : SettledUpTo(k)' /\ InStep(k)'
  <2> SUFFICES ASSUME Reading' PROVE \E k \in 0 .. NFiles : SettledUpTo(k)' /\ InStep(k)'
    OBVIOUS
  <2>1. PICK k \in 0 .. NFiles : SettledUpTo(k) /\ InStep(k)
    BY DEF OrderInv
  <2>2. SettledUpTo(k)' /\ StageRead(k)' = StageRead(k) /\ Inbound' = Inbound
    BY <2>1
  <2>3. Inbound # <<>> => /\ Breaks(Inbound[1])' <=> Breaks(Inbound[1])
                         /\ StageBefore(Inbound[1])' = StageBefore(Inbound[1])
    BY <2>2 DEF Breaks, StageBefore
  <2> QED
    BY <1>1, <2>1, <2>2, <2>3 DEF InStep
<1> QED
  BY <1>1, <1>2, <1>3 DEF OrderInv

(* One that reads a frame keeps it if it goes on to the stage after that   *)
(* frame.                                                                  *)
LEMMA ReadingKeepsOrder ==
  ASSUME TypeInv, OrderInv, UNCHANGED senderVars, Readable("rcv"), Take("rcv"),
         active' # 0 => rpc' \in {"receiving", "cleanup"} /\ disk'[active'] = "Part",
         Reading' => \E k \in 0 .. NFiles :
                       SettledUpTo(k)' /\ StageRead(k)' = StageAfter(NextFrame("rcv"))
  PROVE  OrderInv'
<1>1. /\ (Talking' <=> Talking) /\ (Reached' <=> Reached) /\ StageWritten' = StageWritten
      /\ spc' = spc /\ cur' = cur
  BY DEF Talking, Reached, StageWritten, senderVars, Take
<1>2. Inbound \in Seq(Frame) /\ Inbound # <<>> /\ Inbound' = Tail(Inbound)
  BY Ends, TakeEffect DEF TypeInv, TypeOK, TcpTypeOK, Readable, Inbound
<1> DEFINE h == NextFrame("rcv")
           t == Tail(Inbound)
<1>3. h = Head(Inbound)
  BY DEF NextFrame, Inbound
<1>4. /\ Chained(t)
      /\ t # <<>> => MayFollow(h, t[1]) /\ t[Len(t)] = Inbound[Len(Inbound)]
      /\ t = <<>> => Inbound[Len(Inbound)] = h
  BY <1>2, <1>3, ChainTail DEF OrderInv
<1>5. /\ Chained(Inbound)'
      /\ Inbound' # <<>> /\ Talking' /\ Reached' => StageAfter(Inbound[Len(Inbound)])' = StageWritten'
  <2>1. Chained(Inbound)' /\ StageAfter(Inbound[Len(Inbound)])' = StageAfter(t[Len(t)])
    BY <1>2, <1>4 DEF Chained, MayFollow, Breaks, StageAfter, StageBefore
  <2> QED
    BY <1>1, <1>2, <1>4, <2>1 DEF OrderInv
<1>6. ASSUME NEW k \in 0 .. NFiles, StageRead(k)' = StageAfter(h)
      PROVE  InStep(k)'
  <2>1. /\ Breaks(Inbound[1])' <=> Breaks(t[1])
        /\ StageBefore(Inbound[1])' = StageBefore(t[1])
    BY <1>2 DEF Breaks, StageBefore
  <2>2. t = <<>> /\ Talking /\ Reached => StageAfter(h) = StageWritten
    BY <1>2, <1>4 DEF OrderInv
  <2> QED
    BY <1>1, <1>2, <1>4, <1>6, <2>1, <2>2 DEF InStep, MayFollow
<1> QED
  BY <1>1, <1>5, <1>6 DEF OrderInv

(* What the receiving task reads next is what is due.                      *)
LEMMA DueFrame ==
  ASSUME TypeInv, OrderInv, Reading, Readable("rcv"), ~Breaks(NextFrame("rcv"))
  PROVE  /\ NextFrame("rcv") \in Frame
         /\ \E k \in 0 .. NFiles : SettledUpTo(k) /\ StageBefore(NextFrame("rcv")) = StageRead(k)
<1>1. Inbound \in Seq(Frame) /\ Inbound # <<>> /\ NextFrame("rcv") = Inbound[1]
  BY Ends DEF TypeInv, TypeOK, TcpTypeOK, Readable, NextFrame, Inbound
<1>2. Inbound[1] \in Frame
  BY <1>1
<1> QED
  BY <1>1, <1>2 DEF OrderInv, InStep

(* The manifest comes first.                                               *)
LEMMA PrepareKeepsOrder ==
  ASSUME TypeInv, OrderInv, UNCHANGED senderVars, ReceivePrepare \/ PrepareUnsafe
  PROVE  OrderInv'
<1>1. /\ rpc = "accept" /\ rpc' \in {"listed", "refuse"} /\ UNCHANGED <<active, disk, files>>
      /\ Readable("rcv") /\ Take("rcv") /\ NextFrame("rcv").type = "PrepareTransfer"
  BY DEF ReceivePrepare, PrepareUnsafe, Move, FirstFrame, transferring, storage, stateVars
<1>2. PICK k \in 0 .. NFiles : SettledUpTo(k) /\ StageBefore(NextFrame("rcv")) = StageRead(k)
  BY <1>1, DueFrame DEF Reading, Undecided, Breaks
<1>3. k = 0 /\ active = 0
  BY <1>1, <1>2 DEF SettledUpTo
<1>4. SettledUpTo(k)' /\ StageRead(k)' = StageAfter(NextFrame("rcv"))
  <2>1. SettledUpTo(k)'
    BY <1>1, <1>2, <1>3 DEF SettledUpTo, Settled, Partial, Untouched
  <2>2. StageRead(k)' = 1 /\ StageAfter(NextFrame("rcv")) = 1
    BY <1>1, <1>3 DEF StageRead, StageAfter
  <2> QED
    BY <2>1, <2>2
<1> QED
  BY <1>1, <1>3, <1>4, ReadingKeepsOrder

(* A file is opened when the one before it is settled, and is the next.    *)
LEMMA NextToOpen ==
  ASSUME TypeInv, OrderInv, Reads("StartFile")
  PROVE  /\ NextFrame("rcv").file \in Files /\ active = 0
         /\ \E k \in 0 .. NFiles : SettledUpTo(k) /\ NextFrame("rcv").file = k + 1
<1> DEFINE f == NextFrame("rcv").file
<1>1. rpc = "receiving" /\ Readable("rcv") /\ NextFrame("rcv").type = "StartFile"
  BY DEF Reads
<1>2. PICK k \in 0 .. NFiles : SettledUpTo(k) /\ StageBefore(NextFrame("rcv")) = StageRead(k)
  BY <1>1, DueFrame DEF Reading, Breaks
<1>3. f \in Files
  BY <1>1, DueFrame DEF Reading, Breaks, Frame
<1>4. 2 * f - 1 = IF active # 0 THEN 2 * active ELSE 2 * k + 1
  BY <1>1, <1>2 DEF StageBefore, StageRead
<1>5. active = 0 /\ f = k + 1
  <2>1. f \in Nat /\ k \in Nat /\ active \in Nat
    BY <1>3, FilesAssumption DEF Files, TypeInv, TypeOK, ReceiverTypeOK
  <2> HIDE DEF f
  <2> QED
    BY <1>4, <2>1
<1> QED
  BY <1>2, <1>3, <1>5

(* The content of a file comes while it is open, and so does its end.      *)
LEMMA OpenedBefore ==
  ASSUME TypeInv, OrderInv, Reads("Data") \/ Reads("FileComplete")
  PROVE  /\ active \in Files /\ NextFrame("rcv").file = active
         /\ \E k \in 0 .. NFiles : SettledUpTo(k) /\ active = k + 1
<1> DEFINE f == NextFrame("rcv").file
<1>1. rpc = "receiving" /\ Readable("rcv") /\ NextFrame("rcv").type \in {"Data", "FileComplete"}
  BY DEF Reads
<1>2. PICK k \in 0 .. NFiles : SettledUpTo(k) /\ StageBefore(NextFrame("rcv")) = StageRead(k)
  BY <1>1, DueFrame DEF Reading, Breaks
<1>3. f \in Files
  BY <1>1, DueFrame DEF Reading, Breaks, Frame
<1>4. 2 * f = IF active # 0 THEN 2 * active ELSE 2 * k + 1
  BY <1>1, <1>2 DEF StageBefore, StageRead
<1>5. active # 0 /\ f = active
  <2>1. f \in Nat /\ k \in Nat /\ active \in Nat
    BY <1>3, FilesAssumption DEF Files, TypeInv, TypeOK, ReceiverTypeOK
  <2> HIDE DEF f
  <2> QED
    BY <1>4, <2>1
<1>6. active = k + 1
  BY <1>2, <1>5 DEF SettledUpTo
<1> QED
  BY <1>2, <1>3, <1>5, <1>6

(* OpenFile goes from stage 2k + 1 to stage 2k + 2.                        *)
LEMMA OpenFileKeepsOrder ==
  ASSUME TypeInv, OrderInv, UNCHANGED senderVars, OpenFile
  PROVE  OrderInv'
<1> DEFINE f == NextFrame("rcv").file
<1>0. disk \in [Files -> {"None", "Part", "Final"}] /\ files \in [End -> [Files -> FileProgress]]
  BY DEF TypeInv, TypeOK, ReceiverTypeOK, StateTypeOK
<1>1. /\ rpc = "receiving" /\ rpc' = rpc /\ Readable("rcv") /\ Take("rcv")
      /\ NextFrame("rcv").type = "StartFile" /\ active' = f
      /\ disk' = [disk EXCEPT ![f] = "Part"] /\ files' = files
  BY DEF OpenFile, Reads, StaysReceiving, stateVars
<1>2. f \in Files /\ active = 0
  BY NextToOpen DEF OpenFile
<1>3. PICK k \in 0 .. NFiles : SettledUpTo(k) /\ f = k + 1
  BY NextToOpen DEF OpenFile
<1> HIDE DEF f
<1>4. \A g \in Files : disk'[g] = IF g = f THEN "Part" ELSE disk[g]
  BY <1>0, <1>1
<1>5. SettledUpTo(k)'
  <2>1. \A g \in 1 .. k : g \in Files /\ g # f
    BY <1>3, FilesAssumption DEF Files
  <2>2. \A g \in k + 1 .. NFiles : g \in Files
    BY <1>3, FilesAssumption DEF Files
  <2>3. \A g \in 1 .. k : Settled(g)'
    BY <1>1, <1>3, <1>4, <2>1 DEF SettledUpTo, Settled
  <2>4. \A g \in k + 1 .. NFiles : IF g = active' THEN Partial(g)' ELSE Untouched(g)'
    <3> SUFFICES ASSUME NEW g \in k + 1 .. NFiles
                 PROVE  IF g = active' THEN Partial(g)' ELSE Untouched(g)'
      OBVIOUS
    <3>1. Untouched(g)
      BY <1>2, <1>3, <2>2, FilesAssumption DEF SettledUpTo, Files
    <3> QED
      BY <1>1, <1>4, <2>2, <3>1 DEF Partial, Untouched
  <2> QED
    BY <1>1, <1>3, <2>3, <2>4 DEF SettledUpTo
<1>6. StageRead(k)' = StageAfter(NextFrame("rcv"))
  BY <1>1, <1>2, FilesAssumption DEF StageRead, StageAfter, Files, f
<1>7. disk'[active'] = "Part"
  BY <1>1, <1>2, <1>4
<1> QED
  BY <1>1, <1>5, <1>6, <1>7, ReadingKeepsOrder

(* Data of the open file leaves the stage as it is.                        *)
LEMMA StoreDataKeepsOrder ==
  ASSUME TypeInv, OrderInv, UNCHANGED senderVars, StoreData
  PROVE  OrderInv'
<1>1. /\ rpc = "receiving" /\ Readable("rcv") /\ Take("rcv")
      /\ NextFrame("rcv").type = "Data" /\ UNCHANGED <<disk, files>>
  BY DEF StoreData, Reads, storage, stateVars
<1>2. active \in Files /\ NextFrame("rcv").file = active
  BY OpenedBefore DEF StoreData
<1>3. PICK k \in 0 .. NFiles : SettledUpTo(k) /\ active = k + 1
  BY OpenedBefore DEF StoreData
<1>4. active # 0
  BY <1>2 DEF Files
<1>5. rpc' = rpc /\ active' = active
  BY <1>4 DEF StoreData, StaysReceiving
<1>6. SettledUpTo(k)'
  BY <1>1, <1>3, <1>5 DEF SettledUpTo, Settled, Partial, Untouched
<1>7. StageRead(k)' = StageAfter(NextFrame("rcv"))
  BY <1>1, <1>2, <1>4, <1>5 DEF StageRead, StageAfter
<1>8. disk'[active'] = "Part"
  BY <1>1, <1>4, <1>5 DEF OrderInv
<1> QED
  BY <1>1, <1>5, <1>6, <1>7, <1>8, ReadingKeepsOrder

(* CompleteFile settles the open file, kept, discarded or, where it cannot *)
(* be removed, only marked.                                                *)
LEMMA CompleteFileKeepsOrder ==
  ASSUME TypeInv, OrderInv, UNCHANGED senderVars, CompleteFile \/ DiscardFails
  PROVE  OrderInv'
<1> DEFINE MarkFile == UNCHANGED <<disk, whole>> /\ FinishFile("rcv", active, "Error")
<1>0. disk \in [Files -> {"None", "Part", "Final"}] /\ files \in [End -> [Files -> FileProgress]]
  BY DEF TypeInv, TypeOK, ReceiverTypeOK, StateTypeOK
<1>1. /\ rpc = "receiving" /\ Readable("rcv") /\ Take("rcv")
      /\ NextFrame("rcv").type = "FileComplete" /\ active' = 0
  BY DEF CompleteFile, DiscardFails, Reads
<1>2. active \in Files /\ NextFrame("rcv").file = active
  BY OpenedBefore DEF CompleteFile, DiscardFails
<1>3. PICK k \in 0 .. NFiles : SettledUpTo(k) /\ active = k + 1
  BY OpenedBefore DEF CompleteFile, DiscardFails
<1>4. active # 0 /\ k + 1 \in 0 .. NFiles
  BY <1>2, <1>3 DEF Files
<1>5. rpc' = rpc /\ (KeepFile \/ DiscardFile \/ MarkFile)
  BY <1>2, <1>4 DEF CompleteFile, DiscardFails, StaysReceiving, storage
<1>6. \A g \in Files : g # active => disk'[g] = disk[g] /\ files'["rcv"][g] = files["rcv"][g]
  BY <1>0, <1>5, Ends DEF KeepFile, DiscardFile, FinishFile
<1>7. ASSUME NEW g \in Files, g = active PROVE Settled(g)'
  <2>1. CASE KeepFile
    BY <1>0, <1>7, <2>1 DEF KeepFile, Settled
  <2>2. CASE DiscardFile \/ MarkFile
    BY <1>0, <1>7, <2>2, Ends DEF DiscardFile, FinishFile, Settled
  <2> QED
    BY <1>5, <2>1, <2>2
<1>8. SettledUpTo(k + 1)'
  <2>1. ASSUME NEW g \in 1 .. k + 1 PROVE Settled(g)'
    <3>1. CASE g = active
      BY <1>2, <1>7, <3>1
    <3>2. CASE g # active
      <4>1. g \in 1 .. k /\ g \in Files
        BY <1>3, <1>4, <3>2, FilesAssumption DEF Files
      <4> QED
        BY <1>3, <1>6, <3>2, <4>1 DEF SettledUpTo, Settled
    <3> QED
      BY <3>1, <3>2
  <2>2. ASSUME NEW g \in k + 2 .. NFiles PROVE Untouched(g)' /\ g # active'
    <3>1. g \in k + 1 .. NFiles /\ g # active /\ g \in Files /\ g # 0
      BY <1>3, FilesAssumption DEF Files
    <3> QED
      BY <1>1, <1>3, <1>6, <3>1 DEF SettledUpTo, Untouched
  <2> QED
    BY <1>1, <1>5, <2>1, <2>2 DEF SettledUpTo
<1>9. StageRead(k + 1)' = StageAfter(NextFrame("rcv"))
  BY <1>1, <1>2, <1>3, <1>5 DEF StageRead, StageAfter
<1> QED
  BY <1>1, <1>4, <1>8, <1>9, ReadingKeepsOrder

(* Until it asks for a file the task only waits for the verdict.           *)
LEMMA AskingKeepsOrder ==
  ASSUME TypeInv, OrderInv, UNCHANGED senderVars,
         \/ RegisterSession \/ EmitIncoming \/ StartAsking \/ VerdictArrives \/ DecisionTimesOut
         \/ GiveUpAsking \/ StopAsking \/ SendVerdict \/ StartReceiving
  PROVE  OrderInv'
<1>1. /\ UNCHANGED <<active, disk, files>> /\ Reading
      /\ rpc' # "accept" /\ rpc \notin {"accept", "receiving"}
  BY DEF RegisterSession, EmitIncoming, StartAsking, VerdictArrives, DecisionTimesOut,
     GiveUpAsking, StopAsking, SendVerdict, StartReceiving, Activate, Move, transferring, storage,
     stateVars, Reading, Undecided
<1>2. UNCHANGED tcpVars \/ \E m : SendOk("rcv", m)
  BY DEF RegisterSession, EmitIncoming, StartAsking, VerdictArrives, DecisionTimesOut,
     GiveUpAsking, StopAsking, SendVerdict, StartReceiving, Activate
<1>3. Inbound' = Inbound /\ UNCHANGED <<fin, up>>
  BY <1>2, SendOkEffect, Ends DEF TypeInv, TypeOK, TcpTypeOK, tcpVars, Inbound
<1>4. ASSUME NEW k \in 0 .. NFiles, SettledUpTo(k)
      PROVE  SettledUpTo(k)' /\ StageRead(k)' = StageRead(k)
  <2>1. k = 0 /\ active = 0
    BY <1>1, <1>4 DEF SettledUpTo
  <2> QED
    BY <1>1, <1>4, <2>1 DEF SettledUpTo, Settled, Partial, Untouched, StageRead
<1>5. active = 0
  BY <1>1 DEF OrderInv, SettledUpTo
<1> QED
  BY <1>1, <1>3, <1>4, <1>5, IdlingKeepsOrder DEF Reached

(* Once it has stopped reading, nothing is due any more.                   *)
LEMMA StoppedKeepsOrder ==
  ASSUME TypeInv, OrderInv, UNCHANGED senderVars, ~Reading',
         \/ UNCHANGED tcpVars
         \/ Readable("rcv") /\ Take("rcv")
         \/ Close("rcv")
         \/ \E m : SendOk("rcv", m),
         active' # 0 => rpc' \in {"receiving", "cleanup"} /\ disk'[active'] = "Part"
  PROVE  OrderInv'
<1>0. wire \in [End -> Seq(Frame)]
  BY DEF TypeInv, TypeOK, TcpTypeOK
<1>1. CASE UNCHANGED tcpVars \/ \E m : SendOk("rcv", m)
  <2>1. Inbound' = Inbound /\ UNCHANGED <<fin, up>>
    BY <1>0, <1>1, SendOkEffect, Ends DEF tcpVars, Inbound
  <2> QED
    BY <2>1, IdlingKeepsOrder DEF Reached
<1>2. CASE Readable("rcv") /\ Take("rcv")
  BY <1>2, ReadingKeepsOrder
<1>3. CASE Close("rcv")
  <2>1. /\ Inbound' = <<>> /\ up' = up
        /\ fin' = IF up THEN fin \cup {"snd"} ELSE fin
    BY <1>0, <1>3, CloseEffect, Ends, Others DEF Inbound
  <2>2. ~Reached' /\ (Reached' => Reached)
    BY <2>1 DEF Reached
  <2> QED
    BY <2>1, <2>2, IdlingKeepsOrder
<1> QED
  BY <1>1, <1>2, <1>3

(* So the receiving task's steps keep the order.                           *)
LEMMA ReceiverKeepsOrder ==
  ASSUME TypeInv, OrderInv, UNCHANGED senderVars, ReceiverSide
  PROVE  OrderInv'
<1>1. CASE ReceivePrepare \/ PrepareUnsafe
  BY <1>1, PrepareKeepsOrder
<1>2. CASE \/ RegisterSession \/ EmitIncoming \/ StartAsking \/ VerdictArrives
           \/ DecisionTimesOut \/ GiveUpAsking \/ StopAsking \/ SendVerdict \/ StartReceiving
  BY <1>2, AskingKeepsOrder
<1>3. CASE OpenFile
  BY <1>3, OpenFileKeepsOrder
<1>4. CASE StoreData
  BY <1>4, StoreDataKeepsOrder
<1>5. CASE CompleteFile \/ DiscardFails
  BY <1>5, CompleteFileKeepsOrder
<1>6. CASE RefusePaths \/ NoPrepare \/ SendVerdictFails \/ NoDownloadDir
  <2>1. ~Reading' /\ UNCHANGED <<active, disk>> /\ rpc \notin {"receiving", "cleanup"}
    BY <1>6
       DEF RefusePaths, NoPrepare, SendVerdictFails, NoDownloadDir, Activate, Move, Reading,
           Undecided, transferring, storage
  <2>2. \/ UNCHANGED tcpVars
        \/ Readable("rcv") /\ Take("rcv")
        \/ \E m : SendOk("rcv", m)
    BY <1>6
       DEF RefusePaths, NoPrepare, FirstFrame, SendVerdictFails, NoDownloadDir, Activate,
           SendIgnoringErrors, SendFails
  <2> QED
    BY <2>1, <2>2, StoppedKeepsOrder DEF OrderInv
<1>7. CASE \/ CancelNoticed \/ StreamEnds \/ PeerCancels \/ StreamBreaks \/ OpenFails
           \/ StoreFails \/ CompleteFails
  <2>1. /\ ~Reading' /\ disk' = disk /\ rpc' = "cleanup" /\ active' \in {0, active}
    BY <1>7
       DEF CancelNoticed, StreamEnds, PeerCancels, StreamBreaks, OpenFails, StoreFails,
           CompleteFails, ReceivingEnds, Reading, Undecided, transferring, storage
  <2>2. UNCHANGED tcpVars \/ (Readable("rcv") /\ Take("rcv"))
    BY <1>7
       DEF CancelNoticed, StreamEnds, PeerCancels, StreamBreaks, OpenFails, StoreFails,
           CompleteFails, Reads
  <2> QED
    BY <2>1, <2>2, StoppedKeepsOrder DEF OrderInv
<1>8. CASE \/ CleanUp \/ CleanUpFails \/ NotifySender \/ Drain \/ DrainEnds
           \/ SettleReceiver \/ LeaveReceiver \/ EndReceive
  <2>1. ~Reading' /\ (active' = 0 \/ (active' = active /\ rpc # "cleanup" /\ rpc # "receiving"))
    BY <1>8
       DEF CleanUp, CleanUpFails, NotifySender, Drain, DrainEnds, SettleReceiver, LeaveReceiver,
           EndReceive, Move, Reading, Undecided, transferring
  <2>2. \/ UNCHANGED tcpVars
        \/ Readable("rcv") /\ Take("rcv")
        \/ Close("rcv")
        \/ \E m : SendOk("rcv", m)
    BY <1>8
       DEF CleanUp, CleanUpFails, NotifySender, Drain, DrainEnds, SettleReceiver, LeaveReceiver,
           EndReceive, SendIgnoringErrors, SendFails
  <2>3. active' = 0
    BY <2>1 DEF OrderInv
  <2> QED
    BY <2>1, <2>2, <2>3, StoppedKeepsOrder
<1> QED
  BY <1>1, <1>2, <1>3, <1>4, <1>5, <1>6, <1>7, <1>8
     DEF ReceiverSide, ReceiverOwnStep, DiskFailure

(* The web handlers touch nothing of it.                                   *)
LEMMA OrderUnchanged ==
  ASSUME TypeInv, OrderInv, UNCHANGED <<tcpVars, senderVars, receiverVars, files>>
  PROVE  OrderInv'
<1>1. SaysNothing /\ spc' = spc /\ cur' = cur
  BY DEF SaysNothing, tcpVars, senderVars, Inbound, Talking, Reached, StageWritten
<1> QED
  BY <1>1, WireKeepsOrder DEF OrderInv

(* The network takes frames off the end, once and for all.                 *)
LEMMA NetworkKeepsOrder ==
  ASSUME TypeInv, OrderInv, NetworkBreaks \/ DataCorrupted
  PROVE  OrderInv'
<1>1. UNCHANGED <<stateVars, senderVars, receiverVars>>
  BY DEF NetworkBreaks, DataCorrupted
<1>2. files' = files /\ spc' = spc /\ cur' = cur
  BY <1>1 DEF stateVars, senderVars
<1>3. CASE NetworkBreaks
  <2>1. ~up' /\ \E n \in 0 .. Len(Inbound) : Inbound' = SubSeq(Inbound, 1, n)
    BY <1>3, NetworkFailsEffect, Ends DEF NetworkBreaks, TypeInv, TypeOK, TcpTypeOK, Inbound
  <2>2. LosesItsEnd
    BY <2>1 DEF LosesItsEnd, Reached
  <2> QED
    BY <1>1, <1>2, <2>2, WireKeepsOrder DEF OrderInv
<1>4. CASE DataCorrupted
  BY <1>1, <1>2, <1>4, WireKeepsOrder DEF DataCorrupted, OrderInv
<1> QED
  BY <1>3, <1>4

(* Nothing has been sent before the connection is made.                    *)
LEMMA InitOrder == Init => OrderInv
<1> SUFFICES ASSUME Init PROVE OrderInv
  OBVIOUS
<1>1. /\ Inbound = <<>> /\ spc = "connect" /\ rpc = "accept" /\ active = 0
      /\ \A f \in Files : Untouched(f)
  BY Ends DEF Init, TcpInit, StateInit, SenderInit, ReceiverInit, Inbound, Untouched
<1>2. 0 \in 0 .. NFiles /\ \A f \in 0 + 1 .. NFiles : f \in Files /\ f # 0
  BY FilesAssumption DEF Files
<1>3. SettledUpTo(0)
  BY <1>1, <1>2 DEF SettledUpTo
<1>4. InStep(0)
  BY <1>1 DEF InStep, StageWritten, StageRead
<1>5. Chained(Inbound)
  BY <1>1 DEF Chained
<1> QED
  BY <1>1, <1>2, <1>3, <1>4, <1>5 DEF OrderInv

(* Every step keeps the order.                                             *)
LEMMA NextKeepsOrder == TypeInv /\ OrderInv /\ [Next]_vars => OrderInv'
<1> SUFFICES ASSUME TypeInv, OrderInv, [Next]_vars PROVE OrderInv'
  OBVIOUS
<1>1. CASE \/ SenderRuns \/ BrowserUploads \/ SenderTimesOut \/ ConnectionRefused \/ BrowserFails
           \/ BrowserHangsUp \/ AnswerTooLate
  BY <1>1, SenderKeepsOrder
     DEF SenderRuns, BrowserUploads, SenderTimesOut, ConnectionRefused, BrowserFails,
         BrowserHangsUp, AnswerTooLate, SenderSide
<1>2. CASE ReceiverRuns \/ DiskFails
  BY <1>2, ReceiverKeepsOrder DEF ReceiverRuns, DiskFails, ReceiverSide
<1>3. CASE UserDecides \/ UserCancels \/ HandlersRun \/ UNCHANGED vars
  BY <1>3, OrderUnchanged
     DEF UserDecides, DecideTakes, UserCancels, CancelFires, HandlersRun, DecideSends,
         CancelRejects, vars, stateVars
<1>4. CASE NetworkBreaks \/ DataCorrupted
  BY <1>4, NetworkKeepsOrder
<1> QED
  BY <1>1, <1>2, <1>3, <1>4 DEF Next, MisfortuneStrikes, Rests

(* Files arrive in the order of the manifest, one at a time and each from  *)
(* its beginning: whatever is cut, altered or lost, what the receiver      *)
(* reads next is what is due after what it has settled                     *)
(* (transfer.rs:338-430).                                                  *)
THEOREM OrderHolds == Spec => [](TypeInv /\ OrderInv)
  BY InitOrder, NextKeepsOrder, TypeInvHolds, PTL DEF Spec

---------------------------------------------------------------------------
(* What both hosts call completed.  Once the sender has sent its           *)
(* SessionComplete that frame is the last the receiver can read, so a      *)
(* receiver that finds the end of the stream has read it -- or the sender  *)
(* never said the session was complete.                                    *)

(* The receiver will still read all that is on its way.                    *)
Hears == Reading /\ (up \/ "rcv" \in fin) /\ "rcv" \notin reset

EndsWell == Inbound # <<>> /\ Inbound[Len(Inbound)].type = "SessionComplete"

AllSettled == active = 0 /\ \A f \in Files : Settled(f)

CompletionInv ==
  /\ "snd" \in fin => rpc = "done"
  /\ "rcv" \in fin => spc = "done"
  /\ sout = "Completed" =>
       spc \in {"settle", "leaving", "closing", "done"} /\ (Hears => EndsWell)
  /\ status["snd"] = "Completed" => sout = "Completed"
  /\ status["rcv"] = "Completed" => rout = "Done" /\ rpc \in {"leaving", "closing", "done"}
  /\ rout = "Done" =>
       /\ rpc \in {"cleanup", "settle", "leaving", "closing", "done"}
       /\ AllSettled \/ (spc = "done" /\ sout # "Completed")

(* The handler says that the session is complete with its SessionComplete  *)
(* and nothing else, and does not go back on it.                           *)
LEMMA SenderCompletes ==
  ASSUME TypeInv, CompletionInv, SenderSide
  PROVE  /\ spc # "done"
         /\ sout = "Completed" =>
              /\ SettleSender \/ LeaveSender \/ Respond \/ (HandlerDropped /\ Close("snd"))
              /\ sout' = sout
         /\ sout' = "Completed" =>
              /\ sout = "Completed" \/ SendSessionComplete
              /\ spc' \in {"settle", "leaving", "closing", "done"}
         /\ status'["snd"] = "Completed" => sout' = "Completed"
<1> USE DEF CompletionInv, Goto, SettleAs
<1>0. status \in [End -> TransferStatus \cup {"None"}] /\ "snd" \in End
  BY DEF TypeInv, TypeOK, StateTypeOK, End
<1>1. CASE SettleSender \/ LeaveSender \/ Respond
  BY <1>0, <1>1 DEF SettleSender, LeaveSender, Respond, SetStatus, stateVars
<1>2. CASE HandlerDropped
  BY <1>2 DEF HandlerDropped, Writing, stateVars
<1>3. CASE SendSessionComplete
  BY <1>3 DEF SendSessionComplete, stateVars
<1>4. CASE \/ Connect \/ (\E safe \in Manifests : SendPrepare(safe)) \/ ListTransfer
           \/ CancelledWhileWaiting \/ PeerAccepts \/ PeerRejects \/ PeerGivesNoVerdict
           \/ SendStartFile \/ PushData \/ FlushBuffer \/ SendFileComplete \/ FileSent
           \/ WriteFails \/ HandleError \/ NotifyPeer
           \/ UploadStep \/ ConnectFails \/ UploadFails \/ ResponseTimesOut
  <2>1. spc \notin {"settle", "leaving", "closing", "done"} /\ sout' \in {sout, "Cancelled", "Rejected", "Failed"}
    BY <1>4
       DEF Connect, SendPrepare, ListTransfer, CancelledWhileWaiting, PeerAccepts, PeerRejects,
           PeerGivesNoVerdict, SendStartFile, PushData, FlushBuffer, SendFileComplete, FileSent,
           WriteFails, Writing, HandleError, NotifyPeer, UploadStep, NextField, WriteChunk,
           WriteRefused, FieldEnds, ConnectFails, UploadFails, ResponseTimesOut
  <2>2. status' = status \/ \E s \in {"Pending", "Active"} : status' = [status EXCEPT !["snd"] = s]
    BY <1>4
       DEF Connect, SendPrepare, ListTransfer, AddTransfer, CancelledWhileWaiting, PeerAccepts,
           SetStatus, PeerRejects, PeerGivesNoVerdict, SendStartFile, PushData, FlushBuffer,
           SendFileComplete, FileSent, WriteFails, HandleError, NotifyPeer, UploadStep, NextField,
           WriteChunk, WriteRefused, FieldEnds, ConnectFails, UploadFails, ResponseTimesOut,
           stateVars
  <2> QED
    BY <1>0, <2>1, <2>2
<1> QED
  BY <1>1, <1>2, <1>3, <1>4 DEF SenderSide, SenderOwnStep

(* Only its last step ends the receiver's input.                           *)
LEMMA SenderHangsUp ==
  ASSUME TypeInv, SenderSide
  PROVE  /\ up' = up /\ reset \subseteq reset'
         /\ "snd" \in fin' => "snd" \in fin
         /\ "rcv" \in fin' => "rcv" \in fin \/ (up /\ spc' = "done")
<1> USE Ends, Others
<1>0. wire \in [End -> Seq(Frame)]
  BY DEF TypeInv, TypeOK, TcpTypeOK
<1>1. CASE Respond \/ HandlerDropped
  <2>1. (Close("snd") \/ CloseAfter("snd", <<CutFrame>>)) /\ spc' = "done"
    BY <1>1 DEF Respond, HandlerDropped
  <2>2. up' = up /\ reset \subseteq reset' /\ fin' = IF up THEN fin \cup {"rcv"} ELSE fin
    BY <1>0, <2>1, CloseEffect, CloseAfterEffect
  <2> QED
    BY <2>1, <2>2
<1>2. CASE \/ Connect \/ ListTransfer \/ CancelledWhileWaiting \/ PeerAccepts \/ PeerRejects
           \/ PeerGivesNoVerdict \/ FileSent \/ WriteFails \/ HandleError \/ SettleSender
           \/ LeaveSender \/ UploadStep \/ ConnectFails \/ UploadFails \/ ResponseTimesOut
  <2>1. UNCHANGED <<fin, up, reset>>
    BY <1>2
       DEF Connect, ListTransfer, CancelledWhileWaiting, PeerAccepts, PeerRejects,
           PeerGivesNoVerdict, FileSent, WriteFails, SendFails, HandleError, SettleSender,
           LeaveSender, UploadStep, NextField, WriteChunk, WriteRefused, CheckLive, FieldEnds,
           ConnectFails, UploadFails, ResponseTimesOut, Take, tcpVars
  <2> QED
    BY <2>1
<1>3. CASE \/ (\E safe \in Manifests : SendPrepare(safe)) \/ SendStartFile \/ PushData
           \/ FlushBuffer \/ SendFileComplete \/ SendSessionComplete \/ NotifyPeer
  <2>1. UNCHANGED tcpVars \/ \E m : SendOk("snd", m)
    BY <1>3
       DEF SendPrepare, SendStartFile, PushData, FlushBuffer, SendFileComplete,
           SendSessionComplete, NotifyPeer, SendIgnoringErrors, SendFails
  <2> QED
    BY <1>0, <2>1, SendOkEffect DEF tcpVars
<1> QED
  BY <1>1, <1>2, <1>3 DEF SenderSide, SenderOwnStep

(* What is appended is the last frame.                                     *)
LEMMA AppendLast ==
  ASSUME NEW s \in Seq(Frame), NEW m \in Frame
  PROVE  Append(s, m) # <<>> /\ Append(s, m)[Len(Append(s, m))] = m
<1>1. Len(s) \in Nat /\ Len(Append(s, m)) = Len(s) + 1 /\ Append(s, m)[Len(s) + 1] = m
  BY AppendProperties
<1> QED
  BY <1>1

(* A last frame that is not the first stays the last.                      *)
LEMMA LastAhead ==
  ASSUME NEW s \in Seq(Frame), s # <<>>
  PROVE  s[Len(s)] # Head(s) => Tail(s) # <<>> /\ Tail(s)[Len(Tail(s))] = s[Len(s)]
<1> DEFINE t == Tail(s)
<1>1. /\ t \in Seq(Frame) /\ Len(t) = Len(s) - 1 /\ Len(s) \in Nat \ {0}
      /\ \A i \in 1 .. Len(t) : t[i] = s[i + 1]
  BY HeadTailProperties
<1>2. t = <<>> <=> Len(t) = 0
  BY <1>1
<1>3. s[Len(s)] # Head(s) => Len(s) # 1
  BY <1>1, HeadTailProperties
<1> QED
  BY <1>1, <1>2, <1>3

(* So the handler's steps keep it.                                         *)
LEMMA SenderKeepsCompletion ==
  ASSUME TypeInv, CompletionInv, SenderSide, UNCHANGED receiverVars
  PROVE  CompletionInv'
<1> USE Ends, Others
<1>0. wire \in [End -> Seq(Frame)] /\ Inbound \in Seq(Frame)
  BY DEF TypeInv, TypeOK, TcpTypeOK, Inbound
<1>1. /\ spc # "done"
      /\ sout = "Completed" =>
           /\ SettleSender \/ LeaveSender \/ Respond \/ (HandlerDropped /\ Close("snd"))
           /\ sout' = sout
      /\ sout' = "Completed" =>
           /\ sout = "Completed" \/ SendSessionComplete
           /\ spc' \in {"settle", "leaving", "closing", "done"}
      /\ status'["snd"] = "Completed" => sout' = "Completed"
  BY SenderCompletes
<1>2. /\ up' = up /\ reset \subseteq reset'
      /\ "snd" \in fin' => "snd" \in fin
      /\ "rcv" \in fin' => "rcv" \in fin \/ (up /\ spc' = "done")
  BY SenderHangsUp
<1>3. status'["rcv"] = status["rcv"] /\ files'["rcv"] = files["rcv"]
  BY SenderLeavesReceiver
<1>4. /\ UNCHANGED <<rpc, rout, active, disk>> /\ (Reading' <=> Reading)
      /\ Hears' => Hears
  BY <1>2 DEF receiverVars, Reading, Undecided, Hears
<1>5. sout = "Completed" /\ Hears' => EndsWell'
  <2> SUFFICES ASSUME sout = "Completed", Hears' PROVE EndsWell'
    OBVIOUS
  <2>1. UNCHANGED tcpVars \/ Close("snd")
    BY <1>1 DEF SettleSender, LeaveSender, Respond
  <2>2. Inbound' = Inbound
    BY <1>0, <2>1, CloseEffect DEF tcpVars, Inbound, Hears
  <2> QED
    BY <1>4, <2>2 DEF CompletionInv, EndsWell
<1>6. SendSessionComplete /\ Hears' => EndsWell'
  <2> SUFFICES ASSUME SendSessionComplete, Hears' PROVE EndsWell'
    OBVIOUS
  <2>1. spc = "finish" /\ spc' = "settle" /\ SendOk("snd", SessionComplete)
    BY DEF SendSessionComplete, SettleAs
  <2>2. up /\ "snd" \notin fin
    BY <1>2, <1>4, <2>1 DEF Hears, CompletionInv, Reading, Undecided
  <2>3. Inbound' = Append(Inbound, SessionComplete)
    BY <1>0, <2>1, <2>2, SendOkEffect DEF Inbound
  <2>4. SessionComplete \in Frame /\ SessionComplete.type = "SessionComplete"
    BY FrameTypes DEF SessionComplete
  <2>5. Inbound' # <<>> /\ Inbound'[Len(Inbound')] = SessionComplete
    BY <1>0, <2>3, <2>4, AppendLast
  <2> QED
    BY <2>4, <2>5 DEF EndsWell
<1>7. AllSettled => AllSettled'
  BY <1>3, <1>4 DEF AllSettled, Settled
<1> QED
  BY <1>1, <1>2, <1>3, <1>4, <1>5, <1>6, <1>7 DEF CompletionInv

(* Only the task's last step ends the sender's input.                      *)
LEMMA ReceiverHangsUp ==
  ASSUME TypeInv, ReceiverSide
  PROVE  /\ up' = up /\ reset \subseteq reset'
         /\ "rcv" \in fin' => "rcv" \in fin
         /\ "snd" \in fin' => "snd" \in fin \/ rpc' = "done"
         /\ rpc # "done" /\ (Reading' => Reading)
<1> USE Ends, Others
<1>0. wire \in [End -> Seq(Frame)]
  BY DEF TypeInv, TypeOK, TcpTypeOK
<1>1. CASE EndReceive
  <2>1. up' = up /\ reset \subseteq reset' /\ fin' = IF up THEN fin \cup {"snd"} ELSE fin
    BY <1>0, <1>1, CloseEffect DEF EndReceive
  <2> QED
    BY <1>1, <2>1 DEF EndReceive, Reading, Undecided
<1>2. CASE \/ ReceivePrepare \/ PrepareUnsafe \/ NoPrepare
           \/ RegisterSession \/ EmitIncoming \/ StartAsking \/ VerdictArrives
           \/ DecisionTimesOut \/ GiveUpAsking \/ StopAsking \/ SendVerdictFails \/ StartReceiving
           \/ NoDownloadDir
  <2>1. UNCHANGED <<fin, up, reset>>
    BY <1>2
       DEF ReceivePrepare, PrepareUnsafe, NoPrepare, FirstFrame, RegisterSession, EmitIncoming,
           StartAsking, VerdictArrives, DecisionTimesOut, GiveUpAsking, StopAsking,
           SendVerdictFails, SendFails, StartReceiving, NoDownloadDir, Activate, Take, tcpVars
  <2>2. Reading /\ rpc # "done"
    BY <1>2
       DEF ReceivePrepare, PrepareUnsafe, NoPrepare, RegisterSession, EmitIncoming,
           StartAsking, VerdictArrives, DecisionTimesOut, GiveUpAsking, StopAsking,
           SendVerdictFails, StartReceiving, NoDownloadDir, Activate, Move, Reading, Undecided
  <2> QED
    BY <2>1, <2>2
<1>3. CASE \/ CancelNoticed \/ OpenFile \/ StoreData \/ CompleteFile \/ StreamEnds
           \/ PeerCancels \/ StreamBreaks \/ OpenFails \/ StoreFails \/ CompleteFails
           \/ DiscardFails
  <2>1. UNCHANGED <<fin, up, reset>> /\ rpc = "receiving"
    BY <1>3
       DEF CancelNoticed, OpenFile, StoreData, CompleteFile, StreamEnds, PeerCancels,
           StreamBreaks, OpenFails, StoreFails, CompleteFails, DiscardFails, Reads, Take, tcpVars
  <2> QED
    BY <2>1 DEF Reading
<1>4. CASE \/ CleanUp \/ CleanUpFails \/ Drain \/ DrainEnds \/ SettleReceiver \/ LeaveReceiver
  <2>1. UNCHANGED <<fin, up, reset>> /\ rpc # "done" /\ ~Reading'
    BY <1>4
       DEF CleanUp, CleanUpFails, Drain, DrainEnds, SettleReceiver, LeaveReceiver, Move, Take,
           tcpVars, Reading, Undecided
  <2> QED
    BY <2>1
<1>5. CASE RefusePaths \/ SendVerdict \/ NotifySender
  <2>1. UNCHANGED tcpVars \/ \E m : SendOk("rcv", m)
    BY <1>5 DEF RefusePaths, SendVerdict, NotifySender, SendIgnoringErrors, SendFails
  <2>2. up' = up /\ reset \subseteq reset' /\ fin' = fin
    BY <1>0, <2>1, SendOkEffect DEF tcpVars
  <2>3. rpc # "done" /\ (Reading' => Reading)
    BY <1>5 DEF RefusePaths, SendVerdict, NotifySender, Move, Reading, Undecided
  <2> QED
    BY <2>2, <2>3
<1> QED
  BY <1>1, <1>2, <1>3, <1>4, <1>5 DEF ReceiverSide, ReceiverOwnStep, DiskFailure

(* While the task goes on reading, the end of the session is still ahead.  *)
LEMMA ReceiverReadsOn ==
  ASSUME TypeInv, ReceiverSide, Reading', EndsWell
  PROVE  EndsWell'
<1> USE Ends, Others
<1>0. wire \in [End -> Seq(Frame)] /\ Inbound \in Seq(Frame)
  BY DEF TypeInv, TypeOK, TcpTypeOK, Inbound
<1>1. \/ UNCHANGED tcpVars \/ \E m : SendOk("rcv", m)
      \/ Readable("rcv") /\ Take("rcv") /\ NextFrame("rcv").type # "SessionComplete"
  <2>1. CASE \/ ReceivePrepare \/ PrepareUnsafe \/ OpenFile \/ StoreData \/ CompleteFile
             \/ DiscardFails
    BY <2>1
       DEF ReceivePrepare, PrepareUnsafe, FirstFrame, OpenFile, StoreData, CompleteFile,
           DiscardFails, Reads
  <2>2. CASE \/ RegisterSession \/ EmitIncoming \/ StartAsking \/ VerdictArrives
             \/ DecisionTimesOut \/ GiveUpAsking \/ StopAsking \/ SendVerdict \/ SendVerdictFails
             \/ StartReceiving
    BY <2>2
       DEF RegisterSession, EmitIncoming, StartAsking, VerdictArrives, DecisionTimesOut,
           GiveUpAsking, StopAsking, SendVerdict, SendVerdictFails, SendFails, StartReceiving,
           Activate
  <2>3. CASE \/ RefusePaths \/ NoPrepare \/ NoDownloadDir
    <3>1. rpc' = "quit"
      BY <2>3 DEF RefusePaths, NoPrepare, NoDownloadDir, Activate, Move
    <3> QED
      BY <3>1 DEF Reading, Undecided
  <2>4. CASE \/ CancelNoticed \/ StreamEnds \/ PeerCancels \/ StreamBreaks \/ OpenFails
             \/ StoreFails \/ CompleteFails
    <3>1. rpc' = "cleanup"
      BY <2>4
         DEF CancelNoticed, StreamEnds, PeerCancels, StreamBreaks, OpenFails, StoreFails,
             CompleteFails, ReceivingEnds
    <3> QED
      BY <3>1 DEF Reading, Undecided
  <2>5. CASE \/ CleanUp \/ CleanUpFails \/ NotifySender \/ Drain \/ DrainEnds \/ SettleReceiver
             \/ LeaveReceiver \/ EndReceive
    BY <2>5
       DEF CleanUp, CleanUpFails, NotifySender, Drain, DrainEnds, SettleReceiver, LeaveReceiver,
           EndReceive, Move, Reading, Undecided
  <2> QED
    BY <2>1, <2>2, <2>3, <2>4, <2>5 DEF ReceiverSide, ReceiverOwnStep, DiskFailure
<1>2. CASE UNCHANGED tcpVars \/ \E m : SendOk("rcv", m)
  <2>1. Inbound' = Inbound
    BY <1>0, <1>2, SendOkEffect DEF tcpVars, Inbound
  <2> QED
    BY <2>1 DEF EndsWell
<1>3. CASE Readable("rcv") /\ Take("rcv") /\ NextFrame("rcv").type # "SessionComplete"
  <2>1. Inbound' = Tail(Inbound) /\ NextFrame("rcv") = Head(Inbound) /\ Inbound # <<>>
    BY <1>0, <1>3, TakeEffect DEF Readable, NextFrame, Inbound
  <2>2. Inbound[Len(Inbound)] # Head(Inbound)
    BY <1>3, <2>1 DEF EndsWell
  <2>3. Tail(Inbound) # <<>> /\ Tail(Inbound)[Len(Tail(Inbound))] = Inbound[Len(Inbound)]
    BY <1>0, <2>1, <2>2, LastAhead
  <2> QED
    BY <2>1, <2>3 DEF EndsWell
<1> QED
  BY <1>1, <1>2, <1>3

(* Receiving is Done when the session is complete, or when the sender hung *)
(* up without completing it.                                               *)
LEMMA ReceiverDone ==
  ASSUME TypeInv, OrderInv, CompletionInv, StreamEnds
  PROVE  AllSettled' \/ (spc = "done" /\ sout # "Completed")
<1>1. UNCHANGED <<active, disk, files>> /\ rpc = "receiving" /\ Reading
  BY DEF StreamEnds, Reads, transferring, storage, stateVars, Reading
<1>2. CASE Reads("SessionComplete")
  <2>1. PICK k \in 0 .. NFiles : SettledUpTo(k) /\ StageBefore(NextFrame("rcv")) = StageRead(k)
    BY <1>1, <1>2, DueFrame DEF Reads, Breaks
  <2>2. 2 * NFiles + 1 = IF active # 0 THEN 2 * active ELSE 2 * k + 1
    BY <1>1, <1>2, <2>1 DEF Reads, StageBefore, StageRead
  <2>3. active \in Nat /\ k \in Nat /\ NFiles \in Nat
    BY FilesAssumption DEF TypeInv, TypeOK, ReceiverTypeOK
  <2>4. active = 0 /\ k = NFiles
    BY <2>2, <2>3
  <2> QED
    BY <1>1, <2>1, <2>4 DEF SettledUpTo, AllSettled, Settled, Files
<1>3. CASE AtEof("rcv")
  <2>1. Inbound = <<>> /\ "rcv" \notin reset /\ "rcv" \in fin
    BY <1>3 DEF AtEof, Readable, Inbound
  <2> QED
    BY <1>1, <2>1 DEF CompletionInv, Hears, EndsWell
<1> QED
  BY <1>2, <1>3 DEF StreamEnds

(* What the entry of the transfers map says is how receiving ended.        *)
LEMMA ReceiverCompletes ==
  ASSUME TypeInv, CompletionInv, ReceiverSide
  PROVE  /\ status'["rcv"] = "Completed" => rout' = "Done" /\ rpc' \in {"leaving", "closing", "done"}
         /\ rout' = "Done" =>
              /\ rpc' \in {"cleanup", "settle", "leaving", "closing", "done"}
              /\ StreamEnds \/ (rout = "Done" /\ (AllSettled => AllSettled'))
<1> USE DEF CompletionInv, Move
<1>0. status \in [End -> TransferStatus \cup {"None"}] /\ "rcv" \in End
  BY DEF TypeInv, TypeOK, StateTypeOK, End
<1>1. CASE SettleReceiver
  <2>1. rout' = rout /\ UNCHANGED <<active, disk, files>> /\ rpc' = "leaving"
    BY <1>1 DEF SettleReceiver, transferring, storage
  <2>2. status'["rcv"] = "Completed" => rout = "Done"
    BY <1>0, <1>1 DEF SettleReceiver, SetStatus, FinalStatus
  <2> QED
    BY <2>1, <2>2 DEF AllSettled, Settled
<1>2. CASE LeaveReceiver \/ EndReceive
  <2>1. UNCHANGED <<status, rout, active, disk, files>> /\ rpc' \in {"closing", "done"}
    BY <1>2 DEF LeaveReceiver, EndReceive, transferring, storage, stateVars
  <2>2. rpc = "quit" => rout # "Done"
    OBVIOUS
  <2> QED
    BY <2>1, <2>2 DEF AllSettled, Settled
<1>3. CASE CleanUp \/ CleanUpFails
  <2>1. status' = status /\ rout' = rout /\ rpc = "cleanup" /\ active' = 0
    BY <1>3 DEF CleanUp, CleanUpFails
  <2>2. rout = "Done" => rpc' = "settle"
    BY <1>3 DEF CleanUp, CleanUpFails
  <2>3. active = 0 => UNCHANGED <<disk, files>>
    BY <1>3 DEF CleanUp, CleanUpFails
  <2> QED
    BY <2>1, <2>2, <2>3 DEF AllSettled, Settled
<1>4. CASE \/ ReceivePrepare \/ PrepareUnsafe \/ RefusePaths \/ NoPrepare
           \/ RegisterSession \/ EmitIncoming \/ StartAsking \/ VerdictArrives
           \/ DecisionTimesOut \/ GiveUpAsking \/ StopAsking \/ SendVerdict \/ SendVerdictFails
           \/ StartReceiving \/ NoDownloadDir \/ NotifySender \/ Drain \/ DrainEnds
  <2>1. rpc \notin {"cleanup", "settle", "leaving", "closing", "done"} /\ rout' \in {rout, "Rejected"}
    BY <1>4
       DEF ReceivePrepare, PrepareUnsafe, RefusePaths, NoPrepare, RegisterSession, EmitIncoming,
           StartAsking, VerdictArrives, DecisionTimesOut, GiveUpAsking, StopAsking, SendVerdict,
           SendVerdictFails, StartReceiving, NoDownloadDir, Activate, NotifySender, Drain, DrainEnds
  <2>2. status' = status \/ \E s \in {"Pending", "Active"} : status' = [status EXCEPT !["rcv"] = s]
    BY <1>4
       DEF ReceivePrepare, AddTransfer, PrepareUnsafe, RefusePaths, NoPrepare, RegisterSession,
           EmitIncoming, StartAsking, VerdictArrives, DecisionTimesOut, GiveUpAsking, StopAsking,
           SendVerdict, SendVerdictFails, StartReceiving, NoDownloadDir, Activate, SetStatus,
           NotifySender, Drain, DrainEnds, stateVars
  <2> QED
    BY <1>0, <2>1, <2>2
<1>5. CASE \/ CancelNoticed \/ OpenFile \/ StoreData \/ CompleteFile \/ StreamEnds
           \/ PeerCancels \/ StreamBreaks \/ OpenFails \/ StoreFails \/ CompleteFails
           \/ DiscardFails
  <2>1. rpc = "receiving" /\ status' = status
    BY <1>5
       DEF CancelNoticed, OpenFile, StoreData, CompleteFile, StreamEnds, PeerCancels,
           StreamBreaks, OpenFails, StoreFails, CompleteFails, DiscardFails, Reads, stateVars
  <2>2. rout' = "Done" => rout = "Done" \/ (StreamEnds /\ rpc' = "cleanup")
    BY <1>5
       DEF CancelNoticed, OpenFile, StoreData, CompleteFile, StreamEnds, PeerCancels,
           StreamBreaks, OpenFails, StoreFails, CompleteFails, DiscardFails, ReceivingEnds,
           StaysReceiving
  <2> QED
    BY <2>1, <2>2
<1> QED
  BY <1>1, <1>2, <1>3, <1>4, <1>5 DEF ReceiverSide, ReceiverOwnStep, DiskFailure

(* So the receiving task's steps keep it.                                  *)
LEMMA ReceiverKeepsCompletion ==
  ASSUME TypeInv, OrderInv, CompletionInv, ReceiverSide, UNCHANGED senderVars
  PROVE  CompletionInv'
<1>1. /\ up' = up /\ reset \subseteq reset'
      /\ "rcv" \in fin' => "rcv" \in fin
      /\ "snd" \in fin' => "snd" \in fin \/ rpc' = "done"
      /\ rpc # "done" /\ (Reading' => Reading)
  BY ReceiverHangsUp
<1>2. Hears' => Hears /\ (EndsWell => EndsWell')
  BY <1>1, ReceiverReadsOn DEF Hears
<1>3. /\ status'["rcv"] = "Completed" => rout' = "Done" /\ rpc' \in {"leaving", "closing", "done"}
      /\ rout' = "Done" =>
           /\ rpc' \in {"cleanup", "settle", "leaving", "closing", "done"}
           /\ StreamEnds \/ (rout = "Done" /\ (AllSettled => AllSettled'))
  BY ReceiverCompletes
<1>4. StreamEnds => AllSettled' \/ (spc = "done" /\ sout # "Completed")
  BY ReceiverDone
<1>5. status'["snd"] = status["snd"] /\ UNCHANGED <<spc, sout>>
  BY ReceiverLeavesSender DEF senderVars
<1> QED
  BY <1>1, <1>2, <1>3, <1>4, <1>5 DEF CompletionInv

(* The network, when it fails, leaves a whole stream or none with its end. *)
LEMMA NetworkKeepsCompletion ==
  ASSUME TypeInv, CompletionInv, NetworkBreaks \/ DataCorrupted
  PROVE  CompletionInv'
<1> USE Ends
<1>0. wire \in [End -> Seq(Frame)] /\ Inbound \in Seq(Frame)
  BY DEF TypeInv, TypeOK, TcpTypeOK, Inbound
<1>1. /\ UNCHANGED <<rpc, rout, active, disk, files, spc, sout, status>>
      /\ (Reading' <=> Reading) /\ (AllSettled' <=> AllSettled)
  BY DEF NetworkBreaks, DataCorrupted, stateVars, senderVars, receiverVars, Reading, Undecided,
     AllSettled, Settled
<1>2. fin' \subseteq fin /\ (Hears' => Hears /\ (EndsWell => EndsWell'))
  <2>1. CASE NetworkBreaks
    <3>1. /\ ~up' /\ fin' \subseteq fin /\ reset \subseteq reset'
          /\ "rcv" \in fin' => Inbound' = Inbound
      BY <1>0, <2>1, NetworkFailsEffect DEF NetworkBreaks, Inbound
    <3> QED
      BY <1>1, <3>1 DEF Hears, EndsWell
  <2>2. CASE DataCorrupted
    <3>1. /\ UNCHANGED <<fin, reset, up>> /\ Len(Inbound') = Len(Inbound)
          /\ \A i \in 1 .. Len(Inbound) : Inbound'[i].type = Inbound[i].type
      BY <1>0, <2>2, DataAlteredEffect DEF DataCorrupted, Inbound
    <3>2. Inbound' \in Seq(Frame)
      BY <2>2, DataAlteredType DEF DataCorrupted, TypeInv, TypeOK, TcpTypeOK, Inbound
    <3>3. /\ Inbound # <<>> => Len(Inbound) \in 1 .. Len(Inbound)
          /\ Inbound # <<>> => Inbound' # <<>>
      BY <1>0, <3>1, <3>2
    <3> QED
      BY <1>1, <3>1, <3>3 DEF Hears, EndsWell
  <2> QED
    BY <2>1, <2>2
<1> QED
  BY <1>1, <1>2 DEF CompletionInv

(* Before the connection is made nobody has completed anything.            *)
LEMMA InitCompletion == Init => CompletionInv
  BY Ends DEF Init, TcpInit, StateInit, SenderInit, ReceiverInit, CompletionInv

(* Every step keeps it.                                                    *)
LEMMA NextKeepsCompletion == TypeInv /\ OrderInv /\ CompletionInv /\ [Next]_vars => CompletionInv'
<1> SUFFICES ASSUME TypeInv, OrderInv, CompletionInv, [Next]_vars PROVE CompletionInv'
  OBVIOUS
<1>1. CASE \/ SenderRuns \/ BrowserUploads \/ SenderTimesOut \/ ConnectionRefused \/ BrowserFails
           \/ BrowserHangsUp \/ AnswerTooLate
  BY <1>1, SenderKeepsCompletion
     DEF SenderRuns, BrowserUploads, SenderTimesOut, ConnectionRefused, BrowserFails,
         BrowserHangsUp, AnswerTooLate, SenderSide
<1>2. CASE ReceiverRuns \/ DiskFails
  BY <1>2, ReceiverKeepsCompletion DEF ReceiverRuns, DiskFails, ReceiverSide
<1>3. CASE UserDecides \/ UserCancels \/ HandlersRun \/ UNCHANGED vars
  <2>1. UNCHANGED <<tcpVars, senderVars, receiverVars, status, files>>
    BY <1>3
       DEF UserDecides, DecideTakes, UserCancels, CancelFires, HandlersRun, DecideSends,
           CancelRejects, vars, stateVars
  <2> QED
    BY <2>1
       DEF CompletionInv, Hears, EndsWell, AllSettled, Settled, Reading, Undecided, Inbound,
           tcpVars, senderVars, receiverVars
<1>4. CASE NetworkBreaks \/ DataCorrupted
  BY <1>4, NetworkKeepsCompletion
<1> QED
  BY <1>1, <1>2, <1>3, <1>4 DEF Next, MisfortuneStrikes, Rests

(* A session both hosts call completed has every file in place or marked   *)
(* with its error, although the receiver takes the mere end of the stream  *)
(* for the end of the session (transfer.rs:432).                           *)
THEOREM CompletionAgreed == Spec => []AgreedCompletion
<1>1. CompletionInv => AgreedCompletion
  BY Ends DEF CompletionInv, AllSettled, Settled, AgreedCompletion
<1>2. Spec => []CompletionInv
  BY InitCompletion, NextKeepsCompletion, OrderHolds, PTL DEF Spec
<1> QED
  BY <1>1, <1>2, PTL

---------------------------------------------------------------------------
(* Nothing partial is left.  A .part file is the open file's, as long as   *)
(* the disk does not fail under a rename or a removal.                     *)
PartInv == "disk" \in Misfortunes \/ \A f \in Files : disk[f] = "Part" => active = f

(* Only the receiving task touches the disk; it opens a file when none is  *)
(* open and lets go of one only with its .part file.                       *)
LEMMA ReceiverKeepsPart ==
  ASSUME TypeInv, OrderInv, PartInv, ReceiverOwnStep
  PROVE  PartInv'
<1> USE DEF PartInv
<1>0. disk \in [Files -> {"None", "Part", "Final"}]
  BY DEF TypeInv, TypeOK, ReceiverTypeOK
<1>1. CASE OpenFile
  <2>1. active = 0 /\ active' = NextFrame("rcv").file /\ disk' = [disk EXCEPT ![active'] = "Part"]
    BY <1>1, NextToOpen DEF OpenFile
  <2>2. \A f \in Files : f # 0
    BY DEF Files
  <2> QED
    BY <1>0, <2>1, <2>2
<1>2. CASE CompleteFile
  <2>1. active \in Files /\ NextFrame("rcv").file = active /\ active # 0
    BY <1>2, OpenedBefore DEF CompleteFile, Files
  <2>2. \E d \in {"Final", "None"} : disk' = [disk EXCEPT ![active] = d]
    BY <1>2, <2>1 DEF CompleteFile, KeepFile, DiscardFile
  <2> QED
    BY <1>0, <2>2
<1>3. CASE CleanUp
  <2>1. CASE active = 0
    BY <1>3, <2>1 DEF CleanUp
  <2>2. CASE active # 0
    BY <1>0, <1>3, <2>2 DEF CleanUp
  <2> QED
    BY <2>1, <2>2
<1>4. CASE \/ ReceivePrepare \/ PrepareUnsafe \/ RefusePaths \/ NoPrepare
           \/ RegisterSession \/ EmitIncoming \/ StartAsking \/ VerdictArrives
           \/ DecisionTimesOut \/ GiveUpAsking \/ StopAsking \/ SendVerdict \/ SendVerdictFails
           \/ StartReceiving \/ CancelNoticed \/ StoreData \/ StreamEnds \/ PeerCancels
           \/ StreamBreaks \/ NotifySender \/ Drain \/ DrainEnds \/ SettleReceiver
           \/ LeaveReceiver \/ EndReceive
  <2>1. UNCHANGED <<active, disk>>
    BY <1>4
       DEF ReceivePrepare, PrepareUnsafe, RefusePaths, NoPrepare, RegisterSession, EmitIncoming,
           StartAsking, VerdictArrives, DecisionTimesOut, GiveUpAsking, StopAsking, SendVerdict,
           SendVerdictFails, StartReceiving, Activate, CancelNoticed, StoreData, StreamEnds,
           PeerCancels, StreamBreaks, NotifySender, Drain, DrainEnds, SettleReceiver,
           LeaveReceiver, EndReceive, transferring, storage
  <2> QED
    BY <2>1
<1> QED
  BY <1>1, <1>2, <1>3, <1>4 DEF ReceiverOwnStep

(* Every step keeps it.                                                    *)
LEMMA NextKeepsPart == TypeInv /\ OrderInv /\ PartInv /\ [Next]_vars => PartInv'
<1> SUFFICES ASSUME TypeInv, OrderInv, PartInv, [Next]_vars PROVE PartInv'
  OBVIOUS
<1>1. CASE ReceiverRuns
  BY <1>1, ReceiverKeepsPart DEF ReceiverRuns
<1>2. CASE DiskFails
  BY <1>2 DEF DiskFails, Misfortune, PartInv
<1>3. CASE \/ SenderRuns \/ BrowserUploads \/ SenderTimesOut \/ UserDecides \/ UserCancels
           \/ HandlersRun \/ ConnectionRefused \/ BrowserFails \/ BrowserHangsUp \/ AnswerTooLate
           \/ NetworkBreaks \/ DataCorrupted \/ UNCHANGED vars
  BY <1>3
     DEF SenderRuns, BrowserUploads, SenderTimesOut, UserDecides, UserCancels, HandlersRun,
         ConnectionRefused, BrowserFails, BrowserHangsUp, AnswerTooLate, NetworkBreaks,
         DataCorrupted, vars, receiverVars, PartInv
<1> QED
  BY <1>1, <1>2, <1>3 DEF Next, MisfortuneStrikes, Rests

(* However receiving ends -- refused, cancelled, cut or complete -- its    *)
(* .part file is gone, as long as the disk does not fail: a rename or a    *)
(* removal that fails leaves it (transfer.rs:422, 431, 460).               *)
THEOREM NothingLeft == ASSUME "disk" \notin Misfortunes PROVE Spec => []NoLeftovers
<1>1. OrderInv /\ PartInv => NoLeftovers
  BY DEF OrderInv, PartInv, NoLeftovers, Files
<1>2. Init => PartInv
  BY DEF Init, ReceiverInit, PartInv
<1>3. Spec => []PartInv
  BY <1>2, NextKeepsPart, OrderHolds, PTL DEF Spec
<1> QED
  BY <1>1, <1>3, OrderHolds, PTL

---------------------------------------------------------------------------
(* The session keeps the promise of module Delivery: each of its steps is  *)
(* one of the promise's, seen through DeliveryPhase and DeliveryPlace, or  *)
(* none of its business.                                                   *)
Places == [f \in Files |-> DeliveryPlace(f)]

(* One file changes its place.                                             *)
LEMMA PlaceMoves ==
  ASSUME NEW h \in Files, NEW to, DeliveryPlace(h)' = to,
         \A g \in Files : g # h => DeliveryPlace(g)' = DeliveryPlace(g)
  PROVE  Places' = [Places EXCEPT ![h] = to]
<1>1. DOMAIN Places' = Files /\ DOMAIN [Places EXCEPT ![h] = to] = Files
  BY DEF Places
<1>2. \A g \in Files : Places'[g] = DeliveryPlace(g)' /\ Places[g] = DeliveryPlace(g)
  BY DEF Places
<1>3. \A g \in Files : [Places EXCEPT ![h] = to][g] = IF g = h THEN to ELSE Places[g]
  BY DEF Places
<1>4. \A g \in Files : Places'[g] = [Places EXCEPT ![h] = to][g]
  BY <1>2, <1>3
<1> QED
  BY <1>4 DEF Places

(* The place of a file depends on what is said of that file only, and on   *)
(* whether it is the open one.                                             *)
LEMMA PlaceStays ==
  ASSUME NEW g \in Files, disk'[g] = disk[g], whole'[g] = whole[g],
         files'["rcv"][g] = files["rcv"][g], active' = g <=> active = g
  PROVE  DeliveryPlace(g)' = DeliveryPlace(g)
  BY DEF DeliveryPlace

(* Nothing of the promise changes.                                         *)
LEMMA Stutters ==
  ASSUME consent' = consent, DeliveryPhase' = DeliveryPhase,
         UNCHANGED <<active, disk, whole>>, files'["rcv"] = files["rcv"]
  PROVE  Promise!NoHarm
<1>1. \A g \in Files : DeliveryPlace(g)' = DeliveryPlace(g)
  BY PlaceStays
<1>2. Places' = Places
  BY <1>1 DEF Places
<1> QED
  BY <1>2 DEF Promise!NoHarm, Places

(* Nothing has been asked of the user yet.                                 *)
LEMMA PromiseInit == Init => Promise!Init
<1> SUFFICES ASSUME Init PROVE Promise!Init
  OBVIOUS
<1>1. \A f \in Files : DeliveryPlace(f) = "Absent"
  BY Ends DEF Init, StateInit, ReceiverInit, DeliveryPlace
<1>2. DeliveryPhase = "Asking" /\ consent = FALSE /\ misfortunes = 0
  BY DEF Init, StateInit, ReceiverInit, DeliveryPhase
<1> QED
  BY <1>1, <1>2 DEF Promise!Init, Promise!Files, Files

(* OpenFile begins the next file.                                          *)
LEMMA OpenFileBegins ==
  ASSUME TypeInv, LandedIsWhole, OrderInv, OpenFile
  PROVE  \E f \in Files : Promise!Begin(f)
<1> DEFINE f == NextFrame("rcv").file
<1>0. disk \in [Files -> {"None", "Part", "Final"}]
  BY DEF TypeInv, TypeOK, ReceiverTypeOK
<1>1. /\ rpc = "receiving" /\ rpc' = rpc /\ disk' = [disk EXCEPT ![f] = "Part"]
      /\ active' = f /\ UNCHANGED <<consent, files, whole>>
  BY DEF OpenFile, Reads, StaysReceiving, stateVars, approvalVars
<1>2. f \in Files /\ active = 0
  BY NextToOpen DEF OpenFile
<1>3. PICK k \in 0 .. NFiles : SettledUpTo(k) /\ f = k + 1
  BY NextToOpen DEF OpenFile
<1> HIDE DEF f
<1>4. k \in Nat /\ f - 1 = k /\ f \in k + 1 .. NFiles /\ (\A g \in 1 .. f - 1 : g \in Files /\ g \in 1 .. k)
  BY <1>2, <1>3, FilesAssumption DEF Files
<1>5. DeliveryPhase = "Open" /\ DeliveryPhase' = "Open"
  BY <1>1 DEF DeliveryPhase
<1>6. \A g \in 1 .. f - 1 : Places[g] \in {"Landed", "Lost", "Left"}
  <2> SUFFICES ASSUME NEW g \in 1 .. f - 1 PROVE Places[g] \in {"Landed", "Lost", "Left"}
    OBVIOUS
  <2>1. g \in Files /\ Settled(g) /\ g # active
    BY <1>2, <1>3, <1>4 DEF SettledUpTo, Files
  <2> QED
    BY <1>0, <2>1 DEF Settled, Places, DeliveryPlace, LandedIsWhole
<1>7. Places[f] = "Absent"
  <2>1. Untouched(f)
    BY <1>2, <1>3, <1>4 DEF SettledUpTo, Files
  <2> QED
    BY <1>2, <2>1 DEF Untouched, Places, DeliveryPlace
<1>8. Places' = [Places EXCEPT ![f] = "Partial"]
  <2>1. PICK h \in Files : h = f
    BY <1>2
  <2>2. DeliveryPlace(h)' = "Partial"
    BY <1>0, <1>1, <2>1 DEF DeliveryPlace
  <2>3. \A g \in Files : g # h => DeliveryPlace(g)' = DeliveryPlace(g)
    <3> SUFFICES ASSUME NEW g \in Files, g # h PROVE DeliveryPlace(g)' = DeliveryPlace(g)
      OBVIOUS
    <3>1. disk'[g] = disk[g] /\ (active' = g <=> active = g)
      BY <1>0, <1>1, <1>2, <2>1 DEF Files
    <3> QED
      BY <1>1, <3>1, PlaceStays
  <2> QED
    BY <2>1, <2>2, <2>3, PlaceMoves
<1> QED
  BY <1>1, <1>2, <1>5, <1>6, <1>7, <1>8 DEF Promise!Begin, Promise!Moves, Places

(* CompleteFile lands the open file, or loses it.                          *)
LEMMA CompleteFileLands ==
  ASSUME TypeInv, OrderInv, LandedIsWhole', CompleteFile
  PROVE  \E f \in Files : Promise!Land(f) \/ Promise!Lose(f)
<1>0. /\ disk \in [Files -> {"None", "Part", "Final"}] /\ whole \in [Files -> BOOLEAN]
      /\ files \in [End -> [Files -> FileProgress]]
  BY DEF TypeInv, TypeOK, ReceiverTypeOK, StateTypeOK
<1>1. active \in Files /\ active # 0 /\ NextFrame("rcv").file = active /\ disk[active] = "Part"
  BY OpenedBefore DEF CompleteFile, Files, OrderInv
<1>2. PICK h \in Files : h = active
  BY <1>1
<1>3. /\ rpc = "receiving" /\ rpc' = rpc /\ consent' = consent /\ active' = 0
      /\ KeepFile \/ DiscardFile
  BY <1>1 DEF CompleteFile, Reads, StaysReceiving, approvalVars
<1>4. DeliveryPhase = "Open" /\ DeliveryPhase' = "Open"
  BY <1>3 DEF DeliveryPhase
<1>5. Places[h] = "Partial"
  BY <1>1, <1>2 DEF Places, DeliveryPlace
<1>6. \A g \in Files : g # h => DeliveryPlace(g)' = DeliveryPlace(g)
  <2> SUFFICES ASSUME NEW g \in Files, g # h PROVE DeliveryPlace(g)' = DeliveryPlace(g)
    OBVIOUS
  <2>1. disk'[g] = disk[g] /\ whole'[g] = whole[g] /\ files'["rcv"][g] = files["rcv"][g]
    BY <1>0, <1>2, <1>3, Ends DEF KeepFile, DiscardFile, FinishFile
  <2>2. active # g /\ active' # g
    BY <1>2, <1>3 DEF Files
  <2> QED
    BY <2>1, <2>2, PlaceStays
<1>7. DeliveryPlace(h)' \in {"Landed", "Lost"}
  <2>1. CASE KeepFile
    <3>1. disk'[h] = "Final"
      BY <1>0, <1>2, <2>1 DEF KeepFile
    <3> QED
      BY <3>1 DEF LandedIsWhole, DeliveryPlace
  <2>2. CASE DiscardFile
    <3>1. disk'[h] = "None" /\ files'["rcv"][h] = "Error"
      BY <1>0, <1>2, <2>2, Ends DEF DiscardFile, FinishFile
    <3> QED
      BY <3>1 DEF DeliveryPlace
  <2> QED
    BY <1>3, <2>1, <2>2
<1>8. PICK to \in {"Landed", "Lost"} : DeliveryPlace(h)' = to
  BY <1>7
<1>9. Places' = [Places EXCEPT ![h] = to]
  BY <1>6, <1>8, PlaceMoves
<1> QED
  BY <1>3, <1>4, <1>5, <1>8, <1>9 DEF Promise!Land, Promise!Lose, Promise!Moves, Places

(* CleanUp sweeps the file that was open, if one was.                      *)
LEMMA CleanUpSweeps ==
  ASSUME TypeInv, OrderInv, CleanUp
  PROVE  Promise!NoHarm \/ \E f \in Files : Promise!Sweep(f)
<1>0. /\ disk \in [Files -> {"None", "Part", "Final"}] /\ active \in 0 .. NFiles
      /\ files \in [End -> [Files -> FileProgress]] /\ NFiles \in Nat
  BY FilesAssumption DEF TypeInv, TypeOK, ReceiverTypeOK, StateTypeOK
<1>1. /\ UNCHANGED <<consent, whole>> /\ active' = 0
      /\ DeliveryPhase = "Closed" /\ DeliveryPhase' = "Closed"
  BY DEF CleanUp, approvalVars, DeliveryPhase
<1>2. CASE active = 0
  BY <1>1, <1>2, Stutters DEF CleanUp
<1>3. CASE active # 0
  <2>1. PICK h \in Files : h = active
    BY <1>0, <1>3 DEF Files
  <2>2. /\ disk' = [disk EXCEPT ![h] = "None"]
        /\ files' = files \/ FinishFile("rcv", h, "Error")
    BY <1>3, <2>1 DEF CleanUp
  <2>3. Places[h] = "Partial"
    BY <1>3, <2>1 DEF OrderInv, Places, DeliveryPlace
  <2>4. DeliveryPlace(h)' \in {"Absent", "Lost"}
    <3>1. disk'[h] = "None"
      BY <1>0, <2>2
    <3> QED
      BY <3>1 DEF DeliveryPlace
  <2>5. PICK to \in {"Absent", "Lost"} : DeliveryPlace(h)' = to
    BY <2>4
  <2>6. \A g \in Files : g # h => DeliveryPlace(g)' = DeliveryPlace(g)
    <3> SUFFICES ASSUME NEW g \in Files, g # h PROVE DeliveryPlace(g)' = DeliveryPlace(g)
      OBVIOUS
    <3>1. disk'[g] = disk[g] /\ files'["rcv"][g] = files["rcv"][g]
      BY <1>0, <2>2, Ends DEF FinishFile
    <3>2. active # g /\ active' # g
      BY <1>1, <2>1 DEF Files
    <3> QED
      BY <1>1, <3>1, <3>2, PlaceStays
  <2>7. Places' = [Places EXCEPT ![h] = to]
    BY <2>5, <2>6, PlaceMoves
  <2> QED
    BY <1>1, <2>3, <2>5, <2>7 DEF Promise!Sweep, Promise!Moves, Places
<1> QED
  BY <1>2, <1>3

(* A step in which a rename or a removal fails leaves the open file behind. *)
TurnsAway == CompleteFails \/ DiscardFails \/ CleanUpFails

(* It goes on as if it had gone, or stops receiving; it was a misfortune.  *)
LEMMA TurningAwayLeaves ==
  ASSUME TypeInv, OrderInv, TurnsAway, misfortunes' # misfortunes
  PROVE  \E f \in Files : Promise!Leave(f)
<1>0. active \in 0 .. NFiles /\ files \in [End -> [Files -> FileProgress]] /\ NFiles \in Nat
  BY FilesAssumption DEF TypeInv, TypeOK, ReceiverTypeOK, StateTypeOK
<1>1. /\ active # 0 /\ active' = 0 /\ UNCHANGED <<consent, disk, whole>>
      /\ files' = files \/ FinishFile("rcv", active, "Error")
  BY DEF TurnsAway, CompleteFails, DiscardFails, CleanUpFails, stateVars, approvalVars, storage
<1>2. PICK h \in Files : h = active
  BY <1>0, <1>1 DEF Files
<1>3. /\ DeliveryPhase \in {"Open", "Closed"}
      /\ DeliveryPhase' \in {DeliveryPhase, "Closed"}
  BY DEF TurnsAway, CompleteFails, DiscardFails, CleanUpFails, Reads, ReceivingEnds, StaysReceiving,
     DeliveryPhase
<1>4. Places[h] = "Partial" /\ DeliveryPlace(h)' = "Left"
  BY <1>1, <1>2 DEF OrderInv, Places, DeliveryPlace, Files
<1>5. \A g \in Files : g # h => DeliveryPlace(g)' = DeliveryPlace(g)
  <2> SUFFICES ASSUME NEW g \in Files, g # h PROVE DeliveryPlace(g)' = DeliveryPlace(g)
    OBVIOUS
  <2>1. files'["rcv"][g] = files["rcv"][g]
    BY <1>0, <1>1, <1>2, Ends DEF FinishFile
  <2>2. active # g /\ active' # g
    BY <1>1, <1>2 DEF Files
  <2> QED
    BY <1>1, <2>1, <2>2, PlaceStays
<1>6. Places' = [Places EXCEPT ![h] = "Left"]
  BY <1>4, <1>5, PlaceMoves
<1> QED
  BY <1>1, <1>3, <1>4, <1>6 DEF Promise!Leave, Promise!Moves, Places

(* As long as nothing fails the task lets go of a file where it completes  *)
(* it or cleans up after it.                                               *)
LEMMA OwnStepsHold ==
  ASSUME ReceiverOwnStep, TurnsAway
  PROVE  OpenFile \/ CompleteFile \/ CleanUp
<1>1. active' # active
  BY DEF TurnsAway, CompleteFails, DiscardFails, CleanUpFails
<1> QED
  BY <1>1
     DEF ReceiverOwnStep, ReceivePrepare, PrepareUnsafe, RefusePaths, NoPrepare, RegisterSession,
         EmitIncoming, StartAsking, VerdictArrives, DecisionTimesOut, GiveUpAsking, StopAsking,
         SendVerdict, SendVerdictFails, StartReceiving, Activate, CancelNoticed, StoreData,
         StreamEnds, PeerCancels, StreamBreaks, NotifySender, Drain, DrainEnds, SettleReceiver,
         LeaveReceiver, EndReceive, transferring

(* Every other step of the receiving task moves the phase at most.         *)
LEMMA ReceiverMovesOn ==
  ASSUME TypeInv, ApprovalInv, OrderInv, ReceiverSide,
         ~OpenFile, ~CompleteFile, ~CleanUp, ~TurnsAway
  PROVE  Promise!NoHarm \/ Promise!Open \/ Promise!Shut \/ Promise!Finish
<1>1. UNCHANGED <<consent, active, disk, whole, files>>
  BY DEF ReceiverSide, ReceiverOwnStep, DiskFailure, ReceivePrepare, PrepareUnsafe, RefusePaths,
     NoPrepare, RegisterSession, EmitIncoming, StartAsking, AskForDecision, VerdictArrives,
     DropReceiver, DecisionTimesOut, GiveUpAsking, StopAsking, ForgetDecision, SendVerdict,
     SendVerdictFails, StartReceiving, NoDownloadDir, Activate, CancelNoticed, StoreData,
     StreamEnds, PeerCancels, StreamBreaks, OpenFails, StoreFails, TurnsAway, NotifySender,
     Drain, DrainEnds, SettleReceiver, LeaveReceiver, EndReceive, stateVars, approvalVars,
     transferring, storage
<1>2. \A g \in Files : DeliveryPlace(g)' = DeliveryPlace(g)
  BY <1>1, PlaceStays
<1>3. Places' = Places
  BY <1>2 DEF Places
<1>4. \/ DeliveryPhase' = DeliveryPhase
      \/ DeliveryPhase \in {"Asking", "Open"} /\ DeliveryPhase' = "Closed"
      \/ DeliveryPhase = "Asking" /\ DeliveryPhase' = "Open" /\ consent
      \/ EndReceive
  <2>1. CASE StartReceiving
    BY <2>1 DEF StartReceiving, Activate, Move, DeliveryPhase, ApprovalInv
  <2>2. CASE \/ ReceivePrepare \/ PrepareUnsafe \/ RefusePaths \/ NoPrepare
             \/ RegisterSession \/ EmitIncoming \/ StartAsking \/ VerdictArrives
             \/ DecisionTimesOut \/ GiveUpAsking \/ StopAsking \/ SendVerdict \/ SendVerdictFails
             \/ NoDownloadDir
    BY <2>2
       DEF ReceivePrepare, PrepareUnsafe, RefusePaths, NoPrepare, RegisterSession, EmitIncoming,
           StartAsking, VerdictArrives, DecisionTimesOut, GiveUpAsking, StopAsking, SendVerdict,
           SendVerdictFails, NoDownloadDir, Activate, Move, DeliveryPhase
  <2>3. CASE \/ CancelNoticed \/ StoreData \/ StreamEnds \/ PeerCancels \/ StreamBreaks
             \/ OpenFails \/ StoreFails
    BY <2>3
       DEF CancelNoticed, StoreData, StreamEnds, PeerCancels, StreamBreaks, OpenFails, StoreFails,
           Reads, ReceivingEnds, StaysReceiving, DeliveryPhase
  <2>4. CASE \/ NotifySender \/ Drain \/ DrainEnds \/ SettleReceiver \/ LeaveReceiver
    BY <2>4
       DEF NotifySender, Drain, DrainEnds, SettleReceiver, LeaveReceiver, Move, DeliveryPhase
  <2> QED
    BY <2>1, <2>2, <2>3, <2>4 DEF ReceiverSide, ReceiverOwnStep, DiskFailure, TurnsAway
<1>5. CASE DeliveryPhase' = DeliveryPhase
  BY <1>1, <1>3, <1>5 DEF Promise!NoHarm, Places
<1>6. CASE DeliveryPhase \in {"Asking", "Open"} /\ DeliveryPhase' = "Closed"
  BY <1>1, <1>3, <1>6 DEF Promise!Shut, Places
<1>7. CASE DeliveryPhase = "Asking" /\ DeliveryPhase' = "Open" /\ consent
  BY <1>1, <1>3, <1>7 DEF Promise!Open, Places
<1>8. CASE EndReceive
  <2>1. DeliveryPhase = "Closed" /\ DeliveryPhase' = "Over" /\ active = 0
    BY <1>8 DEF EndReceive, DeliveryPhase, OrderInv
  <2>2. \A f \in Files : Places[f] # "Partial"
    BY <2>1 DEF Places, DeliveryPlace, Files, TypeInv, TypeOK, ReceiverTypeOK
  <2> QED
    BY <1>1, <1>3, <2>1, <2>2 DEF Promise!Finish, Promise!Files, Files, Places
<1> QED
  BY <1>4, <1>5, <1>6, <1>7, <1>8

(* Nothing else touches what is promised, but the user who agrees.         *)
LEMMA OthersKeepPromise ==
  ASSUME TypeInv,
         \/ SenderSide /\ UNCHANGED receiverVars
         \/ UserDecides \/ UserCancels \/ HandlersRun \/ NetworkBreaks \/ DataCorrupted
         \/ UNCHANGED vars
  PROVE  Promise!NoHarm \/ Promise!Agree
<1>1. UNCHANGED <<rpc, active, disk, whole>> /\ files'["rcv"] = files["rcv"]
  <2>1. CASE SenderSide /\ UNCHANGED receiverVars
    BY <2>1, SenderLeavesReceiver DEF receiverVars
  <2>2. CASE \/ UserDecides \/ UserCancels \/ HandlersRun \/ NetworkBreaks \/ DataCorrupted
             \/ UNCHANGED vars
    BY <2>2
       DEF UserDecides, DecideTakes, UserCancels, CancelFires, HandlersRun, DecideSends,
           CancelRejects, NetworkBreaks, DataCorrupted, vars, stateVars, receiverVars
  <2> QED
    BY <2>1, <2>2
<1>2. DeliveryPhase' = DeliveryPhase
  BY <1>1 DEF DeliveryPhase
<1>3. consent' = consent \/ (UserDecides /\ consent' = TRUE)
  <2>1. CASE SenderSide
    BY <2>1
       DEF SenderSide, SenderOwnStep, UploadStep, Connect, SendPrepare, ListTransfer,
           CancelledWhileWaiting, PeerAccepts, PeerRejects, PeerGivesNoVerdict, SendStartFile,
           PushData, FlushBuffer, SendFileComplete, FileSent, SendSessionComplete, WriteFails,
           HandleError, NotifyPeer, SettleSender, LeaveSender, Respond, NextField, WriteChunk,
           WriteRefused, FieldEnds, ConnectFails, UploadFails, HandlerDropped, ResponseTimesOut,
           stateVars, approvalVars
  <2>2. CASE UserDecides
    <3>1. PICK verdict \in Verdicts : consent' = (consent \/ verdict = "Accept")
      BY <2>2 DEF UserDecides, DecideTakes
    <3>2. consent \in BOOLEAN
      BY DEF TypeInv, TypeOK, StateTypeOK
    <3> QED
      BY <2>2, <3>1, <3>2
  <2>3. CASE \/ UserCancels \/ HandlersRun \/ NetworkBreaks \/ DataCorrupted \/ UNCHANGED vars
    BY <2>3
       DEF UserCancels, CancelFires, HandlersRun, DecideSends, CancelRejects, NetworkBreaks,
           DataCorrupted, vars, stateVars, approvalVars
  <2> QED
    BY <2>1, <2>2, <2>3
<1>4. CASE consent' = consent
  BY <1>1, <1>2, <1>4, Stutters
<1>5. CASE consent' = TRUE
  <2>1. \A g \in Files : DeliveryPlace(g)' = DeliveryPlace(g)
    BY <1>1, PlaceStays
  <2>2. Places' = Places
    BY <2>1 DEF Places
  <2> QED
    BY <1>2, <1>5, <2>2 DEF Promise!Agree, Places
<1> QED
  BY <1>3, <1>4, <1>5

(* So each step of the session is a step of the promise, or none.          *)
LEMMA PromiseStep ==
  TypeInv /\ ApprovalInv /\ OrderInv /\ LandedIsWhole /\ LandedIsWhole' /\ [Next]_vars
    => [Promise!Next]_(Promise!vars)
<1> SUFFICES ASSUME TypeInv, ApprovalInv, OrderInv, LandedIsWhole, LandedIsWhole', [Next]_vars
             PROVE  [Promise!Next]_(Promise!vars)
  OBVIOUS
<1>0. Promise!Files = Files
  BY DEF Promise!Files, Files
<1>1. misfortunes' \in {misfortunes, misfortunes + 1}
  BY DEF Next, MisfortuneStrikes, Rests, SenderRuns, BrowserUploads, ReceiverRuns, SenderTimesOut,
     UserDecides, UserCancels, HandlersRun, ConnectionRefused, BrowserFails, BrowserHangsUp,
     DiskFails, NetworkBreaks, DataCorrupted, AnswerTooLate, Misfortune, vars
<1>2. CASE OpenFile
  BY <1>0, <1>1, <1>2, OpenFileBegins DEF Promise!Next
<1>3. CASE CompleteFile
  BY <1>0, <1>1, <1>3, CompleteFileLands DEF Promise!Next
<1>4. CASE CleanUp
  BY <1>0, <1>1, <1>4, CleanUpSweeps DEF Promise!Next
<1>5. CASE DiskFails /\ TurnsAway
  <2>1. misfortunes' # misfortunes
    BY <1>5 DEF DiskFails, Misfortune, TypeInv, TypeOK
  <2> QED
    BY <1>0, <1>1, <1>5, <2>1, TurningAwayLeaves DEF Promise!Next
<1>6. CASE ReceiverSide /\ ~OpenFile /\ ~CompleteFile /\ ~CleanUp /\ ~TurnsAway
  BY <1>1, <1>6, ReceiverMovesOn DEF Promise!Next
<1>7. CASE \/ SenderSide /\ UNCHANGED receiverVars
           \/ UserDecides \/ UserCancels \/ HandlersRun \/ NetworkBreaks \/ DataCorrupted
           \/ UNCHANGED vars
  BY <1>1, <1>7, OthersKeepPromise DEF Promise!Next
<1>8. ReceiverOwnStep /\ TurnsAway => OpenFile \/ CompleteFile \/ CleanUp
  BY OwnStepsHold
<1>9. \/ ReceiverOwnStep \/ DiskFails
      \/ SenderSide /\ UNCHANGED receiverVars
      \/ UserDecides \/ UserCancels \/ HandlersRun \/ NetworkBreaks \/ DataCorrupted
      \/ UNCHANGED vars
  BY DEF Next, MisfortuneStrikes, Rests, SenderRuns, BrowserUploads, SenderTimesOut,
     ConnectionRefused, BrowserFails, BrowserHangsUp, AnswerTooLate, ReceiverRuns, SenderSide
<1> QED
  BY <1>2, <1>3, <1>4, <1>5, <1>6, <1>7, <1>8, <1>9 DEF ReceiverSide, DiskFails

(* Whatever the sender, the network and the disk do, the session delivers  *)
(* as module Delivery promises: files start in order and one at a time,    *)
(* after consent only; what has landed whole stays; nothing starts or      *)
(* lands once receive_files has returned; and a .part is left behind only  *)
(* by a step in which a rename or a removal fails (transfer.rs:338-472).   *)
THEOREM KeepsItsPromise == Spec => DeliversAsPromised
<1>1. Init => Promise!Init
  BY PromiseInit
<1>2. TypeInv /\ ApprovalInv /\ OrderInv /\ LandedIsWhole /\ LandedIsWhole' /\ [Next]_vars
        => [Promise!Next]_(Promise!vars)
  BY PromiseStep
<1>3. Spec => Promise!Init /\ [][Promise!Next]_(Promise!vars)
  BY <1>1, <1>2, SessionInvHolds, OrderHolds, LandedFilesAreWhole, PTL DEF Spec
<1> QED
  BY <1>3 DEF DeliversAsPromised, Promise!Spec
=============================================================================
