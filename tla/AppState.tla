------------------------------ MODULE AppState ------------------------------
(***************************************************************************)
(* What each of the two hosts keeps about one session in its AppState      *)
(* (src/src/state.rs): the entry of the transfers map, the cancellation    *)
(* token and its registration, and -- on the receiving host -- the         *)
(* approval the user is asked for.  The web handlers of server.rs that     *)
(* change it run on other threads than the session's own task, so each     *)
(* lock or channel they touch is a step of its own.                        *)
(***************************************************************************)
EXTENDS Protocol

VARIABLES
  status,       \* transfers[session].status per host, "None" before add_transfer
  files,        \* transfers[session].files per host: to do, done, or done with an error
  token,        \* the session's CancellationToken: "None", "Live" or "Fired"
  registered,   \* hosts whose cancel_tokens map holds that token
  pending,      \* the pending map holds the sender half of the verdict channel
  inHand,       \* what a handler that took it out of the map is about to send
  oneshot,      \* the verdict channel: "None", "Empty", "Accept", "Reject", "Closed"
  cancelling,   \* a cancel handler has fired the token and not yet called decide
  consent       \* the user has clicked Accept (history of the user, not of the code)

approvalVars == <<pending, inHand, oneshot, cancelling, consent>>
tokenVars    == <<token, registered>>
stateVars    == <<status, files, tokenVars, approvalVars>>

TransferStatus ==
  {"Pending", "Active", "Completed", "Rejected", "Cancelled", "Failed"}
Finished == TransferStatus \ {"Pending", "Active"}
FileProgress == {"ToDo", "Done", "Error"}

StateTypeOK ==
  /\ status \in [End -> TransferStatus \cup {"None"}]
  /\ files \in [End -> [Files -> FileProgress]]
  /\ token \in [End -> {"None", "Live", "Fired"}]
  /\ registered \subseteq End
  /\ pending \in BOOLEAN
  /\ inHand \in {"None", "Accept", "Reject", "Cancel"}
  /\ oneshot \in {"None", "Empty", "Accept", "Reject", "Closed"}
  /\ cancelling \in BOOLEAN
  /\ consent \in BOOLEAN

StateInit ==
  /\ status = [e \in End |-> "None"]
  /\ files = [e \in End |-> [f \in Files |-> "ToDo"]]
  /\ token = [e \in End |-> "None"]
  /\ registered = {}
  /\ pending = FALSE
  /\ inHand = "None"
  /\ oneshot = "None"
  /\ cancelling = FALSE
  /\ consent = FALSE

---------------------------------------------------------------------------
(* The methods of AppState a session's own task calls                      *)

AddTransfer(e) == status' = [status EXCEPT ![e] = "Pending"]

RegisterCancellable(e) ==
  /\ token' = [token EXCEPT ![e] = "Live"]
  /\ registered' = registered \cup {e}

CancelFired(e) == token[e] = "Fired"

(* set_status, first half: the entry is changed (and recorded in the       *)
(* history) under the transfers lock, if there is an entry.                *)
SetStatus(e, s) ==
  status' = IF status[e] = "None" THEN status ELSE [status EXCEPT ![e] = s]

(* set_status, second half, of a status in Finished: the token leaves the  *)
(* map and SessionDone is emitted.                                         *)
DropToken(e) == registered' = registered \ {e}

FinishFile(e, f, result) == files' = [files EXCEPT ![e][f] = result]

(* await_decision: its three steps on the shared state.                    *)
AskForDecision ==
  /\ pending' = TRUE
  /\ oneshot' = "Empty"
  /\ UNCHANGED <<inHand, cancelling, consent>>

DropReceiver ==
  /\ oneshot' = "Closed"
  /\ UNCHANGED <<pending, inHand, cancelling, consent>>

ForgetDecision ==
  /\ pending' = FALSE
  /\ UNCHANGED <<inHand, oneshot, cancelling, consent>>

---------------------------------------------------------------------------
(* The web handlers, each on the thread of its request                     *)

(* POST /api/decision: takes the channel out of the pending map; finding   *)
(* none there it only answers that the request expired or was answered.    *)
DecideTakes(verdict) ==
  /\ consent' = (consent \/ verdict = "Accept")
  /\ IF pending THEN pending' = FALSE /\ inHand' = verdict
                ELSE UNCHANGED <<pending, inHand>>
  /\ UNCHANGED <<oneshot, cancelling, status, files, tokenVars>>

(* ... and sends the verdict, unless the waiter has given up meanwhile.    *)
DecideSends ==
  /\ inHand # "None"
  /\ inHand' = "None"
  /\ oneshot' = IF oneshot # "Empty" THEN oneshot
                 ELSE IF inHand = "Accept" THEN "Accept" ELSE "Reject"
  /\ UNCHANGED <<pending, cancelling, consent, status, files, tokenVars>>

(* POST /api/transfers/cancel: the token, if it is still registered ...    *)
CancelFires(e) ==
  /\ e \in registered
  /\ token' = [token EXCEPT ![e] = "Fired"]
  /\ cancelling' = (cancelling \/ e = "rcv")
  /\ UNCHANGED <<registered, status, files, pending, inHand, oneshot, consent>>

(* ... then decide(session, false): a session still waiting for the user   *)
(* is rejected.  (The sending host has nothing pending for its session.)   *)
CancelRejects ==
  /\ cancelling
  /\ cancelling' = FALSE
  /\ IF pending THEN pending' = FALSE /\ inHand' = "Cancel"
                ELSE UNCHANGED <<pending, inHand>>
  /\ UNCHANGED <<oneshot, consent, status, files, tokenVars>>
=============================================================================
