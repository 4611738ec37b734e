------------------------------ MODULE Receiver ------------------------------
(***************************************************************************)
(* The receiving host's side of one session: the task TransferServer       *)
(* spawns per connection (receive and receive_files in                     *)
(* src/src/transfer.rs), and what it leaves on disk.  One action is the    *)
(* code up to and including one access to shared state; rpc says where     *)
(* the task is.                                                            *)
(***************************************************************************)
EXTENDS Tcp, AppState

VARIABLES
  rpc,          \* where the task is
  accepted,     \* what await_decision returned
  active,       \* the open file (Option<ActiveReceive>), 0 when there is none
  got,          \* ActiveReceive.received
  clean,        \* whether its hasher has seen the sender's bytes and only those
  rout,         \* how receiving ended (ReceiveOutcome), or the verdict Rejected
  disk,         \* per file: "None", "Part" (its .part file) or "Final"
  whole         \* per file that is Final: it has the content the sender read

receiverVars == <<rpc, accepted, active, got, clean, rout, disk, whole>>

ReceiverPhase ==
  {"accept", "refuse", "listed", "prompt", "prompted", "asking", "timedout",
   "forget", "reply", "start", "receiving", "cleanup", "notify", "drain",
   "settle", "leaving", "closing", "quit", "done"}
Outcome ==
  {"None", "Rejected", "Done", "CancelledLocally", "CancelledByPeer", "Err"}

ReceiverTypeOK ==
  /\ rpc \in ReceiverPhase
  /\ accepted \in BOOLEAN
  /\ active \in 0 .. NFiles
  /\ got \in Nat
  /\ clean \in BOOLEAN
  /\ rout \in Outcome
  /\ disk \in [Files -> {"None", "Part", "Final"}]
  /\ whole \in [Files -> BOOLEAN]

ReceiverInit ==
  /\ rpc = "accept"
  /\ accepted = FALSE
  /\ active = 0
  /\ got = 0
  /\ clean = TRUE
  /\ rout = "None"
  /\ disk = [f \in Files |-> "None"]
  /\ whole = [f \in Files |-> FALSE]

Move(from, to) == rpc = from /\ rpc' = to

transferring == <<active, got, clean>>
storage      == <<disk, whole>>

---------------------------------------------------------------------------
(* receive: up to the approval                                             *)

FirstFrame(type) == Readable("rcv") /\ NextFrame("rcv").type = type /\ Take("rcv")

(* Every path is inside the download directory: the session is listed.     *)
ReceivePrepare ==
  /\ Move("accept", "listed")
  /\ FirstFrame("PrepareTransfer") /\ NextFrame("rcv").safe
  /\ AddTransfer("rcv")
  /\ UNCHANGED <<files, tokenVars, approvalVars, accepted, transferring, rout, storage>>

(* Some path is not: the whole batch is refused, unlisted.                 *)
PrepareUnsafe ==
  /\ Move("accept", "refuse")
  /\ FirstFrame("PrepareTransfer") /\ ~NextFrame("rcv").safe
  /\ UNCHANGED <<stateVars, accepted, transferring, rout, storage>>

RefusePaths ==
  /\ Move("refuse", "quit")
  /\ SendIgnoringErrors("rcv", CancelTransfer)
  /\ UNCHANGED <<stateVars, accepted, transferring, rout, storage>>

NoPrepare ==
  /\ Move("accept", "quit")
  /\ \/ (AtEof("rcv") \/ ReadFails("rcv")) /\ UNCHANGED tcpVars
     \/ FirstFrame("CutFrame")
  /\ UNCHANGED <<stateVars, accepted, transferring, rout, storage>>

RegisterSession ==
  /\ Move("listed", "prompt")
  /\ RegisterCancellable("rcv")
  /\ UNCHANGED <<tcpVars, status, files, approvalVars, accepted, transferring, rout, storage>>

(* emit(Incoming): from here on the user sees the prompt.                  *)
EmitIncoming ==
  /\ Move("prompt", "prompted")
  /\ UNCHANGED <<tcpVars, stateVars, accepted, transferring, rout, storage>>

Prompted ==
  rpc \notin {"accept", "refuse", "listed", "prompt"} /\ status["rcv"] # "None"

---------------------------------------------------------------------------
(* await_decision                                                          *)

StartAsking ==
  /\ Move("prompted", "asking")
  /\ AskForDecision
  /\ UNCHANGED <<tcpVars, status, files, tokenVars, accepted, transferring, rout, storage>>

(* Variant for the runs to refute, not the code: any verdict is taken for  *)
(* a yes.                                                                  *)
AnyVerdictAccepts ==
  /\ Move("asking", "forget")
  /\ oneshot \in {"Accept", "Reject"}
  /\ accepted' = TRUE
  /\ DropReceiver
  /\ UNCHANGED <<tcpVars, status, files, tokenVars, transferring, rout, storage>>

VerdictArrives ==
  /\ Move("asking", "forget")
  /\ oneshot \in {"Accept", "Reject"}
  /\ accepted' = (oneshot = "Accept")
  /\ DropReceiver
  /\ UNCHANGED <<tcpVars, status, files, tokenVars, transferring, rout, storage>>

(* DECISION_TIMEOUT elapses with no verdict in the channel ...             *)
DecisionTimesOut ==
  /\ Move("asking", "timedout")
  /\ oneshot = "Empty"
  /\ UNCHANGED <<tcpVars, stateVars, accepted, transferring, rout, storage>>

(* Variant for the runs to refute, not the code: what has come meanwhile   *)
(* still counts.                                                           *)
GiveUpUnlessAnswered ==
  /\ Move("timedout", "forget")
  /\ accepted' = (oneshot = "Accept")
  /\ DropReceiver
  /\ UNCHANGED <<tcpVars, status, files, tokenVars, transferring, rout, storage>>

(* ... and only then is the receiving half dropped, with what it may have  *)
(* got meanwhile.                                                          *)
GiveUpAsking ==
  /\ Move("timedout", "forget")
  /\ accepted' = FALSE
  /\ DropReceiver
  /\ UNCHANGED <<tcpVars, status, files, tokenVars, transferring, rout, storage>>

StopAsking ==
  /\ Move("forget", "reply")
  /\ ForgetDecision
  /\ UNCHANGED <<tcpVars, status, files, tokenVars, accepted, transferring, rout, storage>>

---------------------------------------------------------------------------
(* receive: the verdict goes out                                           *)

(* Variant for the runs to refute, not the code: every response carries    *)
(* accepted tokens.                                                        *)
SendVerdictBlindly ==
  /\ rpc = "reply"
  /\ SendOk("rcv", TransferResponse(TRUE))
  /\ IF accepted THEN rpc' = "start" /\ UNCHANGED rout
                 ELSE rpc' = "settle" /\ rout' = "Rejected"
  /\ UNCHANGED <<stateVars, accepted, transferring, storage>>

SendVerdict ==
  /\ rpc = "reply"
  /\ SendOk("rcv", TransferResponse(accepted))
  /\ IF accepted THEN rpc' = "start" /\ UNCHANGED rout
                 ELSE rpc' = "settle" /\ rout' = "Rejected"
  /\ UNCHANGED <<stateVars, accepted, transferring, storage>>

(* The ? on that send leaves with nothing settled.                         *)
SendVerdictFails ==
  /\ Move("reply", "quit")
  /\ SendFails("rcv")
  /\ UNCHANGED <<stateVars, accepted, transferring, rout, storage>>

Activate(next) ==
  /\ Move("start", next)
  /\ SetStatus("rcv", "Active")
  /\ UNCHANGED <<tcpVars, files, tokenVars, approvalVars, accepted, transferring, rout, storage>>

StartReceiving == Activate("receiving")

(* create_dir_all of the download directory fails, after set_status        *)
NoDownloadDir == Activate("quit")

---------------------------------------------------------------------------
(* receive_files: the loop                                                 *)

ReceivingEnds(outcome) == rpc' = "cleanup" /\ rout' = outcome
StaysReceiving == UNCHANGED <<rpc, rout>>

(* Variant for the runs to refute, not the code: the token is looked at    *)
(* between frames, not while waiting for one.                              *)
CancelNoticedBetweenFrames ==
  /\ rpc = "receiving" /\ CancelFired("rcv") /\ ~Waiting("rcv")
  /\ ReceivingEnds("CancelledLocally")
  /\ UNCHANGED <<tcpVars, stateVars, accepted, transferring, storage>>

(* biased select: a fired token goes before any frame.                     *)
CancelNoticed ==
  /\ rpc = "receiving" /\ CancelFired("rcv")
  /\ ReceivingEnds("CancelledLocally")
  /\ UNCHANGED <<tcpVars, stateVars, accepted, transferring, storage>>

Reads(type) ==
  /\ rpc = "receiving" /\ ~CancelFired("rcv")
  /\ Readable("rcv") /\ NextFrame("rcv").type = type
  /\ Take("rcv")

OpenFile ==
  /\ Reads("StartFile")
  /\ LET f == NextFrame("rcv").file IN
       /\ active' = f
       /\ disk' = [disk EXCEPT ![f] = "Part"]
  /\ got' = 0 /\ clean' = TRUE
  /\ StaysReceiving
  /\ UNCHANGED <<stateVars, accepted, whole>>

StoreData ==
  /\ Reads("Data")
  /\ IF active = 0
       THEN ReceivingEnds("Err") /\ UNCHANGED transferring
       ELSE /\ got' = got + NextFrame("rcv").units
            /\ clean' = (clean /\ NextFrame("rcv").intact /\ NextFrame("rcv").file = active)
            /\ StaysReceiving
            /\ UNCHANGED active
  /\ UNCHANGED <<stateVars, accepted, storage>>

(* Variant for the runs to refute, not the code: only the length is        *)
(* compared.                                                               *)
LengthMatches == got = NextFrame("rcv").units

(* The SHA-256 of what was received is the one in FileComplete.            *)
ChecksumMatches == got = NextFrame("rcv").units /\ clean

KeepFile ==
  /\ disk' = [disk EXCEPT ![active] = "Final"]
  /\ whole' = [whole EXCEPT ![active] = (got = Size[active] /\ clean)]
  /\ FinishFile("rcv", active, "Done")

DiscardFile ==
  /\ disk' = [disk EXCEPT ![active] = "None"]
  /\ FinishFile("rcv", active, "Error")
  /\ UNCHANGED whole

(* Variant for the runs to refute, not the code: the file is completed but *)
(* stays open.                                                             *)
CompleteFileInPlace ==
  /\ Reads("FileComplete")
  /\ IF active = 0 \/ active # NextFrame("rcv").file
       THEN ReceivingEnds("Err") /\ UNCHANGED <<files, storage>>
       ELSE /\ IF ChecksumMatches THEN KeepFile ELSE DiscardFile
            /\ StaysReceiving
  /\ UNCHANGED <<status, tokenVars, approvalVars, accepted, transferring>>

(* The open file is taken out of active before anything is looked at.      *)
CompleteFile ==
  /\ Reads("FileComplete")
  /\ active' = 0
  /\ IF active = 0 \/ active # NextFrame("rcv").file
       THEN ReceivingEnds("Err") /\ UNCHANGED <<files, storage>>
       ELSE /\ IF ChecksumMatches THEN KeepFile ELSE DiscardFile
            /\ StaysReceiving
  /\ UNCHANGED <<status, tokenVars, approvalVars, accepted, got, clean>>

(* Variant for the runs to refute, not the code: only SessionComplete ends *)
(* the session.                                                            *)
StreamEndsOnComplete ==
  /\ Reads("SessionComplete")
  /\ ReceivingEnds("Done")
  /\ UNCHANGED <<stateVars, accepted, transferring, storage>>

(* SessionComplete, or the end of the stream at any frame boundary.        *)
StreamEnds ==
  /\ \/ Reads("SessionComplete")
     \/ rpc = "receiving" /\ ~CancelFired("rcv") /\ AtEof("rcv") /\ UNCHANGED tcpVars
  /\ ReceivingEnds("Done")
  /\ UNCHANGED <<stateVars, accepted, transferring, storage>>

PeerCancels ==
  /\ Reads("CancelTransfer")
  /\ ReceivingEnds("CancelledByPeer")
  /\ UNCHANGED <<stateVars, accepted, transferring, storage>>

StreamBreaks ==
  /\ \/ Reads("CutFrame")
     \/ rpc = "receiving" /\ ~CancelFired("rcv") /\ ReadFails("rcv") /\ UNCHANGED tcpVars
  /\ ReceivingEnds("Err")
  /\ UNCHANGED <<stateVars, accepted, transferring, storage>>

---------------------------------------------------------------------------
(* receive_files: failures of the disk, each where the code awaits it      *)

(* Creating the directory or the .part file for a StartFile fails.         *)
OpenFails ==
  /\ Reads("StartFile")
  /\ ReceivingEnds("Err")
  /\ UNCHANGED <<stateVars, accepted, transferring, storage>>

(* Writing a Data frame fails; the file stays in active.                   *)
StoreFails ==
  /\ Reads("Data")
  /\ active # 0
  /\ ReceivingEnds("Err")
  /\ UNCHANGED <<stateVars, accepted, transferring, storage>>

(* flush, shutdown or rename fails; the file is no longer in active.       *)
CompleteFails ==
  /\ Reads("FileComplete")
  /\ active # 0
  /\ active' = 0
  /\ ReceivingEnds("Err")
  /\ UNCHANGED <<stateVars, accepted, got, clean, storage>>

(* Removing a file with the wrong checksum fails, which the code ignores:  *)
(* the file is marked, its .part stays and the loop goes on.               *)
DiscardFails ==
  /\ Reads("FileComplete")
  /\ active # 0 /\ active = NextFrame("rcv").file /\ ~ChecksumMatches
  /\ active' = 0
  /\ FinishFile("rcv", active, "Error")
  /\ StaysReceiving
  /\ UNCHANGED <<status, tokenVars, approvalVars, accepted, got, clean, storage>>

---------------------------------------------------------------------------
(* After the loop                                                          *)

(* Variant for the runs to refute, not the code: a cancelled receive       *)
(* leaves its open file as it is.                                          *)
CleanUpErrorsOnly ==
  /\ rpc = "cleanup"
  /\ rpc' = IF rout = "CancelledLocally" THEN "notify" ELSE "settle"
  /\ active' = 0
  /\ IF active = 0 \/ rout # "Err"
       THEN UNCHANGED <<disk, files>>
       ELSE disk' = [disk EXCEPT ![active] = "None"] /\ UNCHANGED files
  /\ UNCHANGED <<tcpVars, status, tokenVars, approvalVars, accepted, got, clean, rout, whole>>

CleanUp ==
  /\ rpc = "cleanup"
  /\ rpc' = IF rout = "CancelledLocally" THEN "notify" ELSE "settle"
  /\ active' = 0
  /\ IF active = 0
       THEN UNCHANGED <<disk, files>>
       ELSE /\ disk' = [disk EXCEPT ![active] = "None"]
            /\ IF rout = "Err" THEN UNCHANGED files
                               ELSE FinishFile("rcv", active, "Error")
  /\ UNCHANGED <<tcpVars, status, tokenVars, approvalVars, accepted, got, clean, rout, whole>>

(* The removal fails, which is ignored here too: the .part stays, all else *)
(* goes on as if it had gone.                                              *)
CleanUpFails ==
  /\ rpc = "cleanup" /\ active # 0
  /\ rpc' = IF rout = "CancelledLocally" THEN "notify" ELSE "settle"
  /\ active' = 0
  /\ IF rout = "Err" THEN UNCHANGED files ELSE FinishFile("rcv", active, "Error")
  /\ UNCHANGED <<tcpVars, status, tokenVars, approvalVars, accepted, got, clean, rout, storage>>

NotifySender ==
  /\ Move("notify", "drain")
  /\ SendIgnoringErrors("rcv", CancelTransfer)
  /\ UNCHANGED <<stateVars, accepted, transferring, rout, storage>>

Drain ==
  /\ rpc = "drain"
  /\ Readable("rcv") /\ Take("rcv")
  /\ UNCHANGED <<rpc, stateVars, accepted, transferring, rout, storage>>

(* The stream has ended, or CANCEL_DRAIN_TIMEOUT has elapsed.              *)
DrainEnds ==
  /\ Move("drain", "settle")
  /\ UNCHANGED <<tcpVars, stateVars, accepted, transferring, rout, storage>>

FinalStatus ==
  CASE rout = "Rejected"                              -> "Rejected"
    [] rout = "Done"                                  -> "Completed"
    [] rout \in {"CancelledLocally", "CancelledByPeer"} -> "Cancelled"
    [] OTHER                                          -> "Failed"

SettleReceiver ==
  /\ Move("settle", "leaving")
  /\ SetStatus("rcv", FinalStatus)
  /\ UNCHANGED <<tcpVars, files, tokenVars, approvalVars, accepted, transferring, rout, storage>>

LeaveReceiver ==
  /\ Move("leaving", "closing")
  /\ DropToken("rcv")
  /\ UNCHANGED <<tcpVars, status, files, token, approvalVars, accepted, transferring, rout, storage>>

(* The task ends and its socket is dropped.                                *)
EndReceive ==
  /\ rpc \in {"closing", "quit"}
  /\ rpc' = "done"
  /\ Close("rcv")
  /\ UNCHANGED <<stateVars, accepted, transferring, rout, storage>>

---------------------------------------------------------------------------
ReceiverOwnStep ==
  \/ ReceivePrepare \/ PrepareUnsafe \/ RefusePaths \/ NoPrepare
  \/ RegisterSession \/ EmitIncoming \/ StartAsking \/ VerdictArrives
  \/ DecisionTimesOut \/ GiveUpAsking \/ StopAsking
  \/ SendVerdict \/ SendVerdictFails \/ StartReceiving
  \/ CancelNoticed \/ OpenFile \/ StoreData \/ CompleteFile \/ StreamEnds
  \/ PeerCancels \/ StreamBreaks
  \/ CleanUp \/ NotifySender \/ Drain \/ DrainEnds
  \/ SettleReceiver \/ LeaveReceiver \/ EndReceive

DiskFailure ==
  \/ NoDownloadDir \/ OpenFails \/ StoreFails \/ CompleteFails \/ DiscardFails
  \/ CleanUpFails
=============================================================================
