------------------------------ MODULE Transfer ------------------------------
(***************************************************************************)
(* One session between two hosts: the sending handler, the receiving task, *)
(* the web handlers of the receiving user (accept, reject, cancel) and of  *)
(* the sending one (cancel), and the environment -- the browser, the       *)
(* network and the disk.                                                   *)
(***************************************************************************)
EXTENDS Sender, Receiver

CONSTANTS
  Manifests,       \* what the receiver may find of the manifest's paths: all safe or not
  Verdicts,        \* what the receiving user may click on the prompt
  Cancels,         \* the hosts whose user may click Cancel
  Misfortunes,     \* what may go wrong around the program
  MaxMisfortunes   \* how many such events one behaviour has at most

MisfortuneKind ==
  {"refused", "browser", "hangup", "network", "data", "disk", "slow"}

ASSUME TransferAssumption ==
  /\ Manifests \subseteq BOOLEAN
  /\ Verdicts \subseteq {"Accept", "Reject"}
  /\ Cancels \subseteq End
  /\ Misfortunes \subseteq MisfortuneKind
  /\ MaxMisfortunes \in Nat

VARIABLE misfortunes   \* how many of them have happened

vars == <<tcpVars, stateVars, senderVars, receiverVars, misfortunes>>

Init ==
  /\ TcpInit
  /\ StateInit
  /\ SenderInit
  /\ ReceiverInit
  /\ misfortunes = 0

TypeOK ==
  /\ TcpTypeOK
  /\ StateTypeOK
  /\ SenderTypeOK
  /\ ReceiverTypeOK
  /\ misfortunes \in 0 .. MaxMisfortunes

Misfortune(kind) ==
  /\ kind \in Misfortunes
  /\ misfortunes < MaxMisfortunes
  /\ misfortunes' = misfortunes + 1

---------------------------------------------------------------------------
SenderRuns ==
  /\ \E safe \in Manifests : SenderOwnStep(safe)
  /\ UNCHANGED <<receiverVars, misfortunes>>

BrowserUploads == UploadStep /\ UNCHANGED <<receiverVars, misfortunes>>

ReceiverRuns == ReceiverOwnStep /\ UNCHANGED <<senderVars, misfortunes>>

(* RESPONSE_TIMEOUT outlasts DECISION_TIMEOUT by 15 s, so with both hosts  *)
(* running it only elapses when no answer can come any more.               *)
SenderTimesOut == ~up /\ ResponseTimesOut /\ UNCHANGED <<receiverVars, misfortunes>>

UserDecides ==
  /\ Prompted
  /\ \E verdict \in Verdicts : DecideTakes(verdict)
  /\ UNCHANGED <<tcpVars, senderVars, receiverVars, misfortunes>>

(* Only a session the host has listed shows a Cancel button.               *)
UserCancels ==
  /\ \E e \in Cancels : status[e] # "None" /\ CancelFires(e)
  /\ UNCHANGED <<tcpVars, senderVars, receiverVars, misfortunes>>

HandlersRun ==
  /\ DecideSends \/ CancelRejects
  /\ UNCHANGED <<tcpVars, senderVars, receiverVars, misfortunes>>

---------------------------------------------------------------------------
ConnectionRefused == Misfortune("refused") /\ ConnectFails /\ UNCHANGED receiverVars

BrowserFails == Misfortune("browser") /\ UploadFails /\ UNCHANGED receiverVars

BrowserHangsUp == Misfortune("hangup") /\ HandlerDropped /\ UNCHANGED receiverVars

DiskFails == Misfortune("disk") /\ DiskFailure /\ UNCHANGED senderVars

NetworkBreaks ==
  /\ Misfortune("network") /\ NetworkFails
  /\ UNCHANGED <<stateVars, senderVars, receiverVars>>

DataCorrupted ==
  /\ Misfortune("data") /\ DataAltered
  /\ UNCHANGED <<stateVars, senderVars, receiverVars>>

(* The receiving host is suspended or starved past the 15 s margin.        *)
AnswerTooLate == Misfortune("slow") /\ ResponseTimesOut /\ UNCHANGED receiverVars

MisfortuneStrikes ==
  \/ ConnectionRefused \/ BrowserFails \/ BrowserHangsUp \/ DiskFails \/ NetworkBreaks
  \/ DataCorrupted \/ AnswerTooLate

(* The handler is gone and no web handler is at work; the receiving task   *)
(* has ended too, or it waits for a connection or for bytes that will      *)
(* never come (there is no timeout on either).                             *)
Over ==
  /\ spc = "done"
  /\ rpc = "done" \/ (rpc \in {"accept", "receiving"} /\ Waiting("rcv"))
  /\ inHand = "None" /\ ~cancelling

Rests == Over /\ UNCHANGED vars

Next ==
  \/ SenderRuns \/ BrowserUploads \/ ReceiverRuns \/ SenderTimesOut
  \/ UserDecides \/ UserCancels \/ HandlersRun
  \/ MisfortuneStrikes
  \/ Rests

Spec == Init /\ [][Next]_vars

---------------------------------------------------------------------------
(* No byte reaches the disk unless the user clicked Accept: neither a      *)
(* timeout, nor a cancel, nor the order in which they and the verdict      *)
(* meet, opens a file (state.rs:324, README.md:8).                         *)
NothingWithoutApproval == (\E f \in Files : disk[f] # "None") => consent

(* A file under its final name has exactly the content the sender read,    *)
(* whatever was altered, lost or cut on the way (DEVELOPMENT.md:46,        *)
(* "solo se renombran si el SHA-256 cuadra").                              *)
LandedIsWhole == \A f \in Files : disk[f] = "Final" => whole[f]

(* The two hosts act on the same verdict: the sender takes the session for *)
(* accepted only if the receiver's user accepted it, and for rejected only *)
(* if the receiver writes nothing of it.                                   *)
VerdictsAgree ==
  /\ status["snd"] \in {"Active", "Completed"} => accepted /\ consent
  /\ status["snd"] = "Rejected" => \A f \in Files : disk[f] = "None"
  /\ status["rcv"] = "Rejected" => status["snd"] \notin {"Active", "Completed"}

(* When both hosts call the session completed, the receiver has every file *)
(* under its final name or has marked it with its error.                   *)
AgreedCompletion ==
  (\A e \in End : status[e] = "Completed") =>
    \A f \in Files : disk[f] = "Final" \/ files["rcv"][f] = "Error"

(* However receiving ends, no .part file is left behind -- as long as the  *)
(* disk itself does not fail (transfer.rs:458).  What a failing disk may   *)
(* leave is in DeliversAsPromised.                                         *)
NoLeftovers == rpc = "done" => \A f \in Files : disk[f] # "Part"

(* The sender shows Cancelled only when one of the two users clicked       *)
(* Cancel (state.rs:72).                                                   *)
SenderCancelledByClick ==
  status["snd"] = "Cancelled" => \E e \in End : CancelFired(e)

---------------------------------------------------------------------------
(* The session seen as what it delivers.  A .part file is partial as long  *)
(* as the task has it open; one it has turned away from is left behind.    *)
DeliveryPhase ==
  CASE rpc = "receiving" -> "Open"
    [] rpc \in {"cleanup", "notify", "drain", "settle", "leaving", "closing", "quit"} ->
         "Closed"
    [] rpc = "done" -> "Over"
    [] OTHER -> "Asking"

DeliveryPlace(f) ==
  CASE disk[f] = "Part"  -> IF active = f THEN "Partial" ELSE "Left"
    [] disk[f] = "Final" -> IF whole[f] THEN "Landed" ELSE "Spoiled"
    [] disk[f] = "None"  -> IF files["rcv"][f] = "Error" THEN "Lost" ELSE "Absent"

Promise == INSTANCE Delivery
  WITH agreed <- consent,
       phase  <- DeliveryPhase,
       place  <- [f \in Files |-> DeliveryPlace(f)],
       faults <- misfortunes

(* Every step of the two hosts and their environment is a step of the      *)
(* promise or leaves it alone: files start in order and one at a time,     *)
(* after consent only; what has landed whole stays; nothing starts or      *)
(* lands once receive_files has returned; the task does not turn away from *)
(* a .part but in a step in which the disk fails, the two removals whose   *)
(* result is ignored included (transfer.rs:338-472, 431 and 460).          *)
DeliversAsPromised == Promise!Spec

---------------------------------------------------------------------------
(* The receiving host seen as what it promises whoever answers its prompt: *)
(* an answer is given when it goes into the channel, and until then the    *)
(* question is open, though a handler may have taken the channel already.  *)
Stage ==
  CASE rpc \in {"accept", "listed", "prompt", "prompted"} -> "before"
    [] rpc = "asking"   -> "asking"
    [] rpc = "timedout" -> "late"
    [] OTHER            -> "over"

Verdict ==
  CASE oneshot \in {"None", "Empty"} -> "none"
    [] oneshot = "Accept" -> "yes"
    [] oneshot = "Reject" -> "no"
    [] oneshot = "Closed" -> IF accepted THEN "yes" ELSE "no"

Answers == INSTANCE Answering
  WITH Session <- {"rcv"}, Restarts <- FALSE,
       stage   <- [s \in {"rcv"} |-> Stage],
       open    <- IF pending \/ inHand # "None" THEN {"rcv"} ELSE {},
       verdict <- [s \in {"rcv"} |-> Verdict]

(* The steps of decide, of cancel and of await_decision, on threads of     *)
(* their own and in any order, come to the same as if each answer were     *)
(* given in one step, the way Approvals has it (state.rs:325-345).         *)
DecidesAtOnce == Answers!Spec

---------------------------------------------------------------------------
(* Liveness.  The tokio runtime keeps polling the two tasks, their timers  *)
(* and the web handlers it has started; nothing obliges a user, a browser  *)
(* or a misfortune to act.                                                 *)
Fairness ==
  /\ WF_vars(SenderRuns)
  /\ WF_vars(ReceiverRuns)
  /\ WF_vars(SenderTimesOut)
  /\ WF_vars(DecideSends /\ HandlersRun)
  /\ WF_vars(CancelRejects /\ HandlersRun)

FairSpec == Spec /\ Fairness

(* Once the sender has hung up, for whatever reason and in whatever state, *)
(* the receiving task comes to its end, unless the network failed with the *)
(* end of the stream still in flight (transfer.rs:342 has no idle timeout).*)
HungUp == spc = "done" /\ "rcv" \in fin
ReceiverFreed == HungUp ~> (rpc = "done" \/ ~HungUp)

(* A Cancel click on the receiving host that found the token registered    *)
(* ends the receiving task, before, during or after the approval, even if  *)
(* the sender is stuck or the network has gone silent (state.rs:37).       *)
ReceiverCancelEnds == CancelFired("rcv") ~> rpc = "done"

(* A Cancel click while the sender waits for the verdict ends the handler  *)
(* without waiting for the peer (transfer.rs:553).                         *)
CancelWhileWaitingEnds == (spc = "await" /\ CancelFired("snd")) ~> spc = "done"

(* A transfer the receiver accepts, that nobody cancels and nothing        *)
(* disturbs, ends with every file in place and both hosts calling it       *)
(* completed, given a browser that keeps uploading: the backpressure of    *)
(* the sockets never blocks the two hosts on each other.                   *)
Disturbed == misfortunes > 0 \/ \E e \in End : CancelFired(e)
Delivered ==
  /\ \A e \in End : status[e] = "Completed"
  /\ \A f \in Files : disk[f] = "Final"
  /\ reply = "Ok"
UndisturbedCompletes ==
  WF_vars(BrowserUploads) => ((rpc = "reply" /\ accepted) ~> (Delivered \/ Disturbed))
=============================================================================
