------------------------------- MODULE Listing -------------------------------
(***************************************************************************)
(* What a host shows and remembers of its sessions.  AppState.transfers,   *)
(* which set_status, finish_file and list_transfers keep                   *)
(* (src/src/state.rs); the history table in SQLite (src/src/history.rs);   *)
(* and the transfer list of a tab (src/web/app.js), which learns from the  *)
(* events of its WebSocket and from the list it fetches every two seconds, *)
(* each of which may be older than the other.  Sender and Receiver say     *)
(* what a session does; here it is the calls it makes, with one file.      *)
(***************************************************************************)
EXTENDS Events, FiniteSets, SequencesExt

CONSTANTS
  Session,
  MaxUpsets,    \* reloads, lost WebSockets and restarts of the host
  None          \* no session, no answer

ASSUME ListingAssumption == None \notin Session /\ MaxUpsets \in Nat

VARIABLES
  outgoing,     \* the sessions this host starts, each from some tab
  pc,           \* where the handler of each session is
  list,         \* AppState.transfers: the status of each entry
  filed,        \* the sessions whose file is done
  opened,       \* the sessions by their started_at, the last one first
  history,      \* the status in each row of the table
  onDisk,       \* whether the table could be opened on disk
  told,         \* every SessionDone there has been
  excused,      \* sessions whose row was cleared, not written or only in memory
  rows,         \* rows of each tab: none, live (with a Cancel button) or done
  answer,       \* the entries each tab has asked for, if they are on their way
  upload,       \* the session each tab's own fetch starts, while sending
  tag,          \* currentUpload.sessionId
  upsets

listVars == <<list, filed, opened>>
dbVars   == <<history, onDisk, told, excused>>
pageVars == <<rows, answer, upload, tag>>
vars == <<linkVars, outgoing, pc, listVars, dbVars, pageVars, upsets>>

Phase      == {"new", "open", "active", "landed", "over", "left"}
Unfinished == {"pending", "active"}
Final      == {"completed", "rejected", "cancelled", "failed"}
Entry      == [session : Session, status : Unfinished \cup Final, done : BOOLEAN]

TypeOK ==
  /\ linked \subseteq Tab /\ DOMAIN events = Tab /\ DOMAIN answer = Tab
  /\ \A t \in Tab :
       /\ Len(events[t]) <= Capacity
       /\ ToSet(events[t]) \subseteq [type : {"progress", "fileDone", "sessionDone"}, session : Session]
       /\ answer[t] # None =>
            /\ answer[t] \subseteq Entry
            /\ \A e, f \in answer[t] : e.session = f.session => e = f
  /\ pc \in [Session -> Phase]
  /\ list \in [Session -> Unfinished \cup Final \cup {"none"}]
  /\ filed \subseteq Session /\ ToSet(opened) \subseteq Session
  /\ history \in [Session -> Final \cup {"none"}]
  /\ onDisk \in BOOLEAN
  /\ told \subseteq Session \X Final /\ excused \subseteq Session
  /\ rows \in [Tab -> [Session -> {"none", "live", "done"}]]
  /\ outgoing \subseteq Session
  /\ upload \in [Tab -> outgoing \cup {None}] /\ tag \in [Tab -> outgoing \cup {None}]
  /\ \A t \in Tab : tag[t] # None => pc[tag[t]] # "new"
  /\ upsets \in 0 .. MaxUpsets

Init ==
  /\ events = [t \in Tab |-> <<>>] /\ linked = {}
  /\ outgoing \in SUBSET Session
  /\ pc = [s \in Session |-> "new"]
  /\ list = [s \in Session |-> "none"] /\ filed = {} /\ opened = <<>>
  /\ history = [s \in Session |-> "none"] /\ onDisk \in BOOLEAN
  /\ told = {} /\ excused = {}
  /\ rows = [t \in Tab |-> [s \in Session |-> "none"]]
  /\ answer = [t \in Tab |-> None]
  /\ upload = [t \in Tab |-> None] /\ tag = [t \in Tab |-> None]
  /\ upsets = 0

Goes(s, from, to) == pc[s] \in from /\ pc' = [pc EXCEPT ![s] = to]

SetList(s, status) == list' = [list EXCEPT ![s] = status]

---------------------------------------------------------------------------
(* add_transfer, of a session that has come in or that a tab sends.        *)
AddTransfer(s) ==
  /\ s \in outgoing => \E t \in Tab : upload[t] = s
  /\ Goes(s, {"new"}, "open")
  /\ SetList(s, "pending")
  /\ opened' = <<s>> \o opened
  /\ UNCHANGED <<outgoing, linkVars, filed, dbVars, pageVars, upsets>>

Begin(s) ==
  /\ Goes(s, {"open"}, "active")
  /\ SetList(s, "active")
  /\ UNCHANGED <<outgoing, linkVars, filed, opened, dbVars, pageVars, upsets>>

Progress(s) ==
  /\ pc[s] = "active" /\ s \notin filed
  /\ Emit(Event("progress", s))
  /\ UNCHANGED <<outgoing, pc, listVars, dbVars, pageVars, upsets>>

FinishFile(s) ==
  /\ pc[s] = "active" /\ s \notin filed
  /\ filed' = filed \cup {s}
  /\ Emit(Event("fileDone", s))
  /\ UNCHANGED <<outgoing, pc, list, opened, dbVars, pageVars, upsets>>

(* How a session ends: rejected, cancelled or failed at any time, completed *)
(* when it was accepted; only the receiver may be so without its file.     *)
Ends(s, status) ==
  status = "completed" => pc[s] = "active" /\ (s \in outgoing => s \in filed)

(* Variant for the runs to refute, not the code: the row is written before *)
(* the status is set, and record passes over Pending and Active.           *)
RecordBefore(s, status) == UNCHANGED <<history, excused>>

(* record: a write that fails is logged, and that is all.                  *)
Record(s, status) ==
  \/ history' = [history EXCEPT ![s] = status] /\ UNCHANGED excused
  \/ excused' = excused \cup {s} /\ UNCHANGED history

(* set_status: the entry and its row, under the lock of the list ...       *)
SetStatus(s, status) ==
  /\ Ends(s, status)
  /\ Goes(s, {"open", "active"}, "landed")
  /\ SetList(s, status)
  /\ Record(s, status)
  /\ UNCHANGED <<outgoing, linkVars, filed, opened, onDisk, told, pageVars, upsets>>

(* ... and SessionDone without it.                                         *)
SessionDone(s) ==
  /\ Goes(s, {"landed"}, "over")
  /\ told' = told \cup {<<s, list[s]>>}
  /\ Emit(Event("sessionDone", s))
  /\ UNCHANGED <<outgoing, listVars, history, onDisk, excused, pageVars, upsets>>

(* The handler leaves by a ? or is dropped with its request, and nobody    *)
(* sets the status: the entry stays as it is.                              *)
Leave(s) ==
  /\ Goes(s, {"open", "active"}, "left")
  /\ UNCHANGED <<outgoing, linkVars, listVars, dbVars, pageVars, upsets>>

(* clear_history                                                           *)
ClearHistory ==
  LET there == {s \in Session : history[s] # "none"}
  IN  /\ there # {} /\ excused' = excused \cup there
      /\ history' = [s \in Session |-> "none"]
      /\ UNCHANGED <<outgoing, linkVars, pc, listVars, onDisk, told, pageVars, upsets>>

(* updateRow makes the row it does not find; finishRow does not.           *)
Animated(row, type) ==
  CASE type = "progress" /\ row = "none" -> "live"
    [] type = "fileDone" /\ row = "live" -> "done"
    [] OTHER -> row

(* handleEvent.  What SessionDone makes the page fetch is in FetchList.    *)
HandleEvent(t) ==
  /\ events[t] # <<>>
  /\ LET e == Head(events[t]) IN rows' = [rows EXCEPT ![t][e.session] = Animated(@, e.type)]
  /\ events' = [events EXCEPT ![t] = Tail(@)]
  /\ UNCHANGED <<outgoing, linked, pc, listVars, dbVars, answer, upload, tag, upsets>>

(* refreshTransfers asks for the list, the unfinished first and of those   *)
(* the last to start.  What ended HISTORY_TTL_SECS ago, long after         *)
(* anything happens in the session, goes from it before ...                *)
FetchList(t) ==
  /\ answer[t] = None
  /\ \E old \in SUBSET {s \in Session : list[s] \in Final /\ pc[s] = "over"} :
       list' = [s \in Session |-> IF s \in old THEN "none" ELSE list[s]]
  /\ answer' = [answer EXCEPT ![t] =
       {[session |-> s, status |-> list'[s], done |-> s \in filed] :
          s \in {x \in Session : list'[x] # "none"}}]
  /\ UNCHANGED <<outgoing, linkVars, pc, filed, opened, dbVars, rows, upload, tag, upsets>>

(* Variant for the runs to refute, not the code: rows are only added.      *)
RowStays(row, here) ==
  IF \E e \in here : e.done \/ e.status \in Final THEN "done"
  ELSE IF here # {} /\ row = "none" THEN "live" ELSE row

(* ... and makes the rows of it: what it does not have is removed.         *)
Row(row, here) ==
  CASE here = {} -> "none"
    [] \E e \in here : \/ e.status \in {"failed", "rejected", "cancelled"}
                       \/ e.done /\ e.status # "pending" -> "done"
    [] OTHER -> IF row = "none" THEN "live" ELSE row

IsUpload(e) == e.session \in outgoing /\ e.status \in Unfinished

(* The first unfinished upload in the list is taken for the tab's own.     *)
Tag(t) ==
  LET uploads == {e.session : e \in {x \in answer[t] : IsUpload(x)}}
      IsHere(s) == s \in uploads
  IN  IF upload[t] # None /\ tag[t] = None /\ uploads # {}
      THEN opened[SelectInSeq(opened, IsHere)] ELSE tag[t]

ShowList(t) ==
  /\ answer[t] # None
  /\ rows' = [rows EXCEPT ![t] =
       [s \in Session |-> Row(@[s], {e \in answer[t] : e.session = s})]]
  /\ tag' = [tag EXCEPT ![t] = Tag(t)]
  /\ answer' = [answer EXCEPT ![t] = None]
  /\ UNCHANGED <<outgoing, linkVars, pc, listVars, dbVars, upload, upsets>>

(* sendSelected: one upload at a time from a tab, until its request ends.  *)
SendSelected(t, s) ==
  /\ upload[t] = None /\ pc[s] = "new" /\ \A u \in Tab : upload[u] # s
  /\ upload' = [upload EXCEPT ![t] = s]
  /\ UNCHANGED <<outgoing, linkVars, pc, listVars, dbVars, rows, answer, tag, upsets>>

LetGo(t) == upload' = [upload EXCEPT ![t] = None] /\ tag' = [tag EXCEPT ![t] = None]

UploadEnds(t) ==
  /\ upload[t] # None /\ pc[upload[t]] \in {"over", "left"}
  /\ LetGo(t)
  /\ UNCHANGED <<outgoing, linkVars, pc, listVars, dbVars, rows, answer, upsets>>

(* cancelTransfer aborts the tab's own request if the row is tagged; what  *)
(* the server makes of either is up to the handler, see Leave, SetStatus.  *)
CancelTransfer(t, s) ==
  /\ rows[t][s] = "live" /\ tag[t] = s
  /\ LetGo(t)
  /\ UNCHANGED <<outgoing, linkVars, pc, listVars, dbVars, rows, answer, upsets>>

Upset == upsets < MaxUpsets /\ upsets' = upsets + 1

Disconnect(t) ==
  /\ Upset /\ t \in linked /\ Unsubscribe({t})
  /\ UNCHANGED <<outgoing, pc, listVars, dbVars, pageVars>>

Reload(t) ==
  /\ Upset /\ t \in linked /\ Unsubscribe({t})
  /\ rows' = [rows EXCEPT ![t] = [s \in Session |-> "none"]]
  /\ answer' = [answer EXCEPT ![t] = None]
  /\ LetGo(t)
  /\ UNCHANGED <<outgoing, pc, listVars, dbVars>>

(* The process ends and is started again: the table on disk is what stays. *)
Restart ==
  /\ Upset /\ Unsubscribe(Tab)
  /\ pc' = [s \in Session |-> IF pc[s] = "new" THEN "new" ELSE "left"]
  /\ list' = [s \in Session |-> "none"] /\ filed' = {} /\ opened' = <<>>
  /\ IF onDisk THEN UNCHANGED <<history, excused>>
     ELSE /\ excused' = excused \cup {s \in Session : history[s] # "none"}
          /\ history' = [s \in Session |-> "none"]
  /\ answer' = [t \in Tab |-> None]
  /\ UNCHANGED <<outgoing, onDisk, told, rows, upload, tag>>

Connect(t) == Subscribe(t) /\ UNCHANGED <<outgoing, pc, listVars, dbVars, pageVars, upsets>>

Next ==
  \/ \E s \in Session :
       \/ AddTransfer(s) \/ Begin(s) \/ Progress(s) \/ FinishFile(s)
       \/ \E status \in Final : SetStatus(s, status)
       \/ SessionDone(s) \/ Leave(s)
  \/ ClearHistory
  \/ \E t \in Tab :
       \/ Connect(t) \/ HandleEvent(t) \/ FetchList(t) \/ ShowList(t)
       \/ \E s \in outgoing : SendSelected(t, s)
       \/ UploadEnds(t)
       \/ \E s \in Session : CancelTransfer(t, s)
       \/ Disconnect(t) \/ Reload(t)
  \/ Restart

Spec == Init /\ [][Next]_vars

(* The tab keeps fetching the list and handling what comes.                *)
FairSpec ==
  /\ Spec
  /\ \A t \in Tab : WF_vars(HandleEvent(t)) /\ WF_vars(FetchList(t)) /\ WF_vars(ShowList(t))

---------------------------------------------------------------------------
(* Once SessionDone is out the row of the session is in the table with the *)
(* status announced, and stays there over restarts, unless it was cleared, *)
(* could not be written or was in memory only (app.js:386, history.rs:3).  *)
DoneIsRecorded == \A e \in told : e[1] \in excused \/ history[e[1]] = e[2]

(* Whatever order events and lists come in and whichever of them are lost, *)
(* the rows of a tab end up as the server's list is: "the server owns the  *)
(* list" (app.js:390, DEVELOPMENT.md:34).  Only a receiver completed       *)
(* without its file keeps a row that looks as if it were going on.         *)
Agrees(row, s) ==
  /\ row = "none" <=> list[s] = "none"
  /\ list[s] \in Final /\ (list[s] = "completed" => s \in filed) => row = "done"
RowsConverge == <>[](\A t \in Tab, s \in Session : Agrees(rows[t][s], s))

(* app.js:765, "Filled in once refreshTransfers() spots this session, so a *)
(* Cancel click on its row can abort this exact fetch": the tagged session *)
(* is the one the tab's request is for.                                    *)
TagIsOwn == \A t \in Tab : tag[t] \in {None, upload[t]}
=============================================================================
