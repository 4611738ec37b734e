------------------------------- MODULE Claims -------------------------------
(***************************************************************************)
(* What comments, documents, tests and messages of the repository say of   *)
(* a session and the code does not keep.  Each is checked by a run of its  *)
(* own that shows how it fails; see the findings in README.md.             *)
(***************************************************************************)
EXTENDS Transfer

(* server.rs:212, "The response only comes back once the peer has the      *)
(* bytes"; DEVELOPMENT.md:14 says the same.  The handler answers as soon   *)
(* as its own socket has taken SessionComplete.                            *)
ReplyMeansDelivered ==
  reply = "Ok" => \A f \in Files : disk[f] = "Final" \/ files["rcv"][f] = "Error"

(* Completed is announced as "Recibiste {n} archivo(s)" with the number of *)
(* files of the manifest (src-tauri/src/lib.rs:179).  The end of the       *)
(* stream counts as the end of the session wherever it comes.              *)
CompletedMeansEveryFile ==
  status["rcv"] = "Completed" => \A f \in Files : files["rcv"][f] # "ToDo"

(* state.rs:339, decide "Returns false if the session already timed out or *)
(* was answered", and state.rs:449, "cancelling before approval must       *)
(* reject, not hang": a click the handlers are done with has ended the     *)
(* wait for the user.  The prompt is shown before anybody waits.           *)
ClickIsHeard == (consent \/ (CancelFired("rcv") /\ ~cancelling)) => ~pending
=============================================================================
