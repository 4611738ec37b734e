------------------------------- MODULE Sender -------------------------------
(***************************************************************************)
(* The sending host's side of one session: the /api/send handler           *)
(* (send_files in src/src/server.rs) driving a SendSession                 *)
(* (src/src/transfer.rs).  The browser uploads the files one multipart     *)
(* field at a time and the handler pushes them through to the peer as they *)
(* come.  One action is the code up to and including one access to shared  *)
(* state (a lock, the socket); spc says where the handler is waiting.      *)
(***************************************************************************)
EXTENDS Tcp, AppState

CONSTANTS
  ChunkSize,    \* units of content in a full Data frame (CHUNK_SIZE)
  MaxRead       \* most units the browser's upload yields in one read

ASSUME SenderAssumption == ChunkSize \in Nat \ {0} /\ MaxRead \in Nat \ {0}

VARIABLES
  spc,          \* where the handler is
  cur,          \* the file of the manifest it is at, 0 before the first
  sent,         \* units of that file read from the browser and hashed (CurrentSend)
  buf,          \* units read and not yet framed (SendSession.buf)
  peerCancel,   \* SendSession.cancelled_by_peer
  sout,         \* the status the session is about to be given
  reply         \* what the browser was answered: "None", "Ok", "Err", or "Lost"

senderVars == <<spc, cur, sent, buf, peerCancel, sout, reply>>

(* Waiting for the socket to take a frame.                                 *)
Writing == {"prepare", "start", "push", "flush", "complete", "finish", "notify"}
SenderPhase == Writing \cup
  {"connect", "list", "await", "field", "stream", "filed", "erring", "settle",
   "leaving", "closing", "quit", "done"}

SenderTypeOK ==
  /\ spc \in SenderPhase
  /\ cur \in 0 .. NFiles
  /\ sent \in Nat
  /\ buf \in Nat
  /\ peerCancel \in BOOLEAN
  /\ sout \in Finished \cup {"None"}
  /\ reply \in {"None", "Ok", "Err", "Lost"}

SenderInit ==
  /\ spc = "connect"
  /\ cur = 0
  /\ sent = 0
  /\ buf = 0
  /\ peerCancel = FALSE
  /\ sout = "None"
  /\ reply = "None"

Goto(from, to) == spc = from /\ spc' = to

(* The session is to end with status s; without one it ends unsettled.     *)
SettleAs(s) == sout' = s /\ spc' = "settle"

---------------------------------------------------------------------------
(* SendSession::open                                                       *)

Connect ==
  /\ Goto("connect", "prepare")
  /\ RegisterCancellable("snd")
  /\ UNCHANGED <<tcpVars, status, files, approvalVars, cur, sent, buf, peerCancel, sout, reply>>

ConnectFails ==
  /\ Goto("connect", "done")
  /\ reply' = "Err"
  /\ UNCHANGED <<tcpVars, stateVars, cur, sent, buf, peerCancel, sout>>

(* The manifest goes out first; safe says whether the receiver will find   *)
(* every path of it inside its download directory.                         *)
SendPrepare(safe) ==
  /\ Goto("prepare", "list")
  /\ SendOk("snd", PrepareTransfer(safe))
  /\ UNCHANGED <<stateVars, cur, sent, buf, peerCancel, sout, reply>>

ListTransfer ==
  /\ Goto("list", "await")
  /\ AddTransfer("snd")
  /\ UNCHANGED <<tcpVars, files, tokenVars, approvalVars, cur, sent, buf, peerCancel, sout, reply>>

(* Variant for the runs to refute, not the code: the token is looked at    *)
(* once an answer has come.                                                *)
CancelledAfterAnswer ==
  /\ spc = "await" /\ CancelFired("snd") /\ ~Waiting("snd")
  /\ SettleAs("Cancelled")
  /\ UNCHANGED <<tcpVars, stateVars, cur, sent, buf, peerCancel, reply>>

(* biased select: a fired token goes before any answer.                    *)
CancelledWhileWaiting ==
  /\ spc = "await" /\ CancelFired("snd")
  /\ SettleAs("Cancelled")
  /\ UNCHANGED <<tcpVars, stateVars, cur, sent, buf, peerCancel, reply>>

PeerAccepts ==
  /\ Goto("await", "field")
  /\ ~CancelFired("snd") /\ Readable("snd")
  /\ NextFrame("snd") = TransferResponse(TRUE)
  /\ Take("snd")
  /\ SetStatus("snd", "Active")
  /\ UNCHANGED <<files, tokenVars, approvalVars, cur, sent, buf, peerCancel, sout, reply>>

PeerRejects ==
  /\ spc = "await"
  /\ ~CancelFired("snd") /\ Readable("snd")
  /\ NextFrame("snd") = TransferResponse(FALSE)
  /\ Take("snd")
  /\ SettleAs("Rejected")
  /\ UNCHANGED <<stateVars, cur, sent, buf, peerCancel, reply>>

(* A CancelTransfer, the end of the stream or a read error instead of a    *)
(* verdict: open returns the error and settles nothing.                    *)
PeerGivesNoVerdict ==
  /\ Goto("await", "quit")
  /\ ~CancelFired("snd")
  /\ \/ /\ Readable("snd")
        /\ NextFrame("snd").type # "TransferResponse"
        /\ Take("snd")
     \/ (AtEof("snd") \/ ReadFails("snd")) /\ UNCHANGED tcpVars
  /\ UNCHANGED <<stateVars, cur, sent, buf, peerCancel, sout, reply>>

(* RESPONSE_TIMEOUT *)
ResponseTimesOut ==
  /\ Goto("await", "quit")
  /\ ~CancelFired("snd") /\ Waiting("snd")
  /\ UNCHANGED <<tcpVars, stateVars, cur, sent, buf, peerCancel, sout, reply>>

---------------------------------------------------------------------------
(* send_one_file: start_file, write for each chunk, finish_file            *)

(* The browser has got to the next file of its form.                       *)
NextField ==
  /\ Goto("field", "start")
  /\ cur' = cur + 1
  /\ UNCHANGED <<tcpVars, stateVars, sent, buf, peerCancel, sout, reply>>

SendStartFile ==
  /\ Goto("start", "stream")
  /\ SendOk("snd", StartFile(cur))
  /\ sent' = 0
  /\ UNCHANGED <<stateVars, cur, buf, peerCancel, sout, reply>>

(* Variant for the runs to refute, not the code: a chunk goes out before   *)
(* it is full.                                                             *)
AfterWriteEager(units) == IF units > 0 THEN "push" ELSE "stream"

AfterWrite(units) == IF units >= ChunkSize THEN "push" ELSE "stream"

(* check_live finds nothing against it: the chunk is hashed and buffered.  *)
WriteChunk(n) ==
  /\ spc = "stream" /\ sent + n <= Size[cur]
  /\ ~CancelFired("snd")
  /\ \/ Waiting("snd") /\ UNCHANGED tcpVars
     \/ Readable("snd") /\ NextFrame("snd").type # "CancelTransfer" /\ Take("snd")
  /\ sent' = sent + n
  /\ buf' = buf + n
  /\ spc' = AfterWrite(buf + n)
  /\ UNCHANGED <<stateVars, cur, peerCancel, sout, reply>>

(* check_live refuses: our token has fired, or the socket has ended, or    *)
(* the receiver's CancelTransfer is on it.                                 *)
CheckLive ==
  \/ CancelFired("snd") /\ UNCHANGED <<tcpVars, peerCancel>>
  \/ /\ ~CancelFired("snd") /\ (AtEof("snd") \/ ReadFails("snd"))
     /\ UNCHANGED <<tcpVars, peerCancel>>
  \/ /\ ~CancelFired("snd") /\ Readable("snd")
     /\ NextFrame("snd").type = "CancelTransfer"
     /\ Take("snd")
     /\ peerCancel' = TRUE

WriteRefused ==
  /\ Goto("stream", "erring")
  /\ sent < Size[cur]
  /\ CheckLive
  /\ UNCHANGED <<stateVars, cur, sent, buf, sout, reply>>

PushData ==
  /\ spc = "push"
  /\ SendOk("snd", Data(cur, ChunkSize))
  /\ buf' = buf - ChunkSize
  /\ spc' = AfterWrite(buf - ChunkSize)
  /\ UNCHANGED <<stateVars, cur, sent, peerCancel, sout, reply>>

(* Variant for the runs to refute, not the code: finish_file forgets what  *)
(* is left in the buffer.                                                  *)
FieldEndsUnflushed ==
  /\ spc = "stream" /\ sent = Size[cur]
  /\ spc' = "complete"
  /\ UNCHANGED <<tcpVars, stateVars, cur, sent, buf, peerCancel, sout, reply>>

FieldEnds ==
  /\ spc = "stream" /\ sent = Size[cur]
  /\ spc' = IF buf > 0 THEN "flush" ELSE "complete"
  /\ UNCHANGED <<tcpVars, stateVars, cur, sent, buf, peerCancel, sout, reply>>

FlushBuffer ==
  /\ Goto("flush", "complete")
  /\ SendOk("snd", Data(cur, buf))
  /\ buf' = 0
  /\ UNCHANGED <<stateVars, cur, sent, peerCancel, sout, reply>>

SendFileComplete ==
  /\ Goto("complete", "filed")
  /\ SendOk("snd", FileComplete(cur, sent))
  /\ UNCHANGED <<stateVars, cur, sent, buf, peerCancel, sout, reply>>

(* Variant for the runs to refute, not the code: the loop over the         *)
(* manifest stops one file short.                                          *)
FileSentTooFew ==
  /\ spc = "filed"
  /\ spc' = IF cur + 1 < NFiles THEN "field" ELSE "finish"
  /\ FinishFile("snd", cur, "Done")
  /\ UNCHANGED <<tcpVars, status, tokenVars, approvalVars, cur, sent, buf, peerCancel, sout, reply>>

FileSent ==
  /\ spc = "filed"
  /\ spc' = IF cur < NFiles THEN "field" ELSE "finish"
  /\ FinishFile("snd", cur, "Done")
  /\ UNCHANGED <<tcpVars, status, tokenVars, approvalVars, cur, sent, buf, peerCancel, sout, reply>>

SendSessionComplete ==
  /\ spc = "finish"
  /\ SendOk("snd", SessionComplete)
  /\ SettleAs("Completed")
  /\ UNCHANGED <<stateVars, cur, sent, buf, peerCancel, reply>>

(* A write returns Err.  While a file is being sent it goes through the    *)
(* error branch of send_files; in open and in finish the ? leaves at once. *)
WriteFails ==
  /\ spc \in Writing \ {"notify"}
  /\ SendFails("snd")
  /\ spc' = IF spc \in {"prepare", "finish"} THEN "quit" ELSE "erring"
  /\ UNCHANGED <<stateVars, cur, sent, buf, peerCancel, sout, reply>>

---------------------------------------------------------------------------
(* send_files: what becomes of an error, and the end of the handler        *)

(* Variant for the runs to refute, not the code: a peer that is gone       *)
(* counts as one that cancelled.                                           *)
IsCancelledOrGone == CancelFired("snd") \/ peerCancel \/ AtEof("snd")

IsCancelled == CancelFired("snd") \/ peerCancel

HandleError ==
  /\ Goto("erring", "notify")
  /\ sout' = IF IsCancelled THEN "Cancelled" ELSE "Failed"
  /\ UNCHANGED <<tcpVars, stateVars, cur, sent, buf, peerCancel, reply>>

(* fail always tells the peer; cancel_and_notify only if our own token     *)
(* fired.                                                                  *)
NotifyPeer ==
  /\ Goto("notify", "settle")
  /\ IF sout = "Failed" \/ CancelFired("snd")
       THEN SendIgnoringErrors("snd", CancelTransfer)
       ELSE UNCHANGED tcpVars
  /\ UNCHANGED <<stateVars, cur, sent, buf, peerCancel, sout, reply>>

SettleSender ==
  /\ Goto("settle", "leaving")
  /\ SetStatus("snd", sout)
  /\ UNCHANGED <<tcpVars, files, tokenVars, approvalVars, cur, sent, buf, peerCancel, sout, reply>>

LeaveSender ==
  /\ Goto("leaving", "closing")
  /\ DropToken("snd")
  /\ UNCHANGED <<tcpVars, status, files, token, approvalVars, cur, sent, buf, peerCancel, sout, reply>>

Respond ==
  /\ spc \in {"closing", "quit"}
  /\ spc' = "done"
  /\ Close("snd")
  /\ reply' = IF spc = "closing" /\ sout = "Completed" THEN "Ok" ELSE "Err"
  /\ UNCHANGED <<stateVars, cur, sent, buf, peerCancel, sout>>

---------------------------------------------------------------------------
(* What the browser may do to the handler                                  *)

(* The upload ends early or with an error.                                 *)
UploadFails ==
  /\ spc \in {"field", "stream"}
  /\ spc' = "erring"
  /\ UNCHANGED <<tcpVars, stateVars, cur, sent, buf, peerCancel, sout, reply>>

(* The browser hangs up and the handler is dropped where it waits, perhaps *)
(* half-way through writing a frame.                                       *)
HandlerDropped ==
  /\ spc \notin {"connect", "erring", "closing", "quit", "done"}
  /\ spc' = "done"
  /\ reply' = "Lost"
  /\ \/ Close("snd")
     \/ spc \in Writing /\ CloseAfter("snd", <<CutFrame>>)
  /\ UNCHANGED <<stateVars, cur, sent, buf, peerCancel, sout>>

---------------------------------------------------------------------------
(* What the handler does of itself, and what it needs the browser for.     *)
SenderOwnStep(safe) ==
  \/ Connect \/ SendPrepare(safe) \/ ListTransfer
  \/ CancelledWhileWaiting \/ PeerAccepts \/ PeerRejects \/ PeerGivesNoVerdict
  \/ SendStartFile \/ PushData \/ FlushBuffer \/ SendFileComplete \/ FileSent
  \/ SendSessionComplete \/ WriteFails \/ HandleError \/ NotifyPeer
  \/ SettleSender \/ LeaveSender \/ Respond

UploadStep ==
  \/ NextField
  \/ \E n \in 1 .. MaxRead : WriteChunk(n)
  \/ WriteRefused
  \/ FieldEnds
=============================================================================
