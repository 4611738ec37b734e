---------------------------- MODULE ListingProofs ----------------------------
(***************************************************************************)
(* What the table of past sessions holds, for any number of sessions, of   *)
(* tabs and of restarts: what SessionDone announced is the status of the   *)
(* row (RowsRecorded); and that every variable has its type (TypesHold).   *)
(***************************************************************************)
EXTENDS Listing, EventsProofs

Recorded(s, status) == s \in excused \/ history[s] = status

(* A handler sets the status of its session once, and the entry of the     *)
(* list, which is what is announced, keeps it until then: it is not yet    *)
(* old enough to go.  After that nobody writes the row again but to clear  *)
(* the table.                                                              *)
RecordInv ==
  /\ DOMAIN pc = Session /\ DOMAIN history = Session /\ DOMAIN list = Session
  /\ \A s \in Session :
       pc[s] = "landed" => list[s] \in Final /\ Recorded(s, list[s])
  /\ \A e \in told :
       /\ e \in Session \X Final /\ pc[e[1]] \in {"over", "left"}
       /\ Recorded(e[1], e[2])

(* The steps of a handler that come before its status is set, or after it  *)
(* has been announced, and those that leave it where it is.                *)
LEMMA QuietStep ==
  ASSUME RecordInv, UNCHANGED dbVars,
         DOMAIN pc' = Session, DOMAIN list' = Session,
         \A s \in Session :
           /\ pc'[s] = "landed" => pc[s] = "landed" /\ list'[s] = list[s]
           /\ pc[s] \in {"over", "left"} => pc'[s] \in {"over", "left"}
  PROVE  RecordInv'
<1>1. ASSUME NEW e \in told
      PROVE  /\ e \in Session \X Final /\ pc'[e[1]] \in {"over", "left"}
             /\ Recorded(e[1], e[2])
  BY DEF RecordInv
<1> QED
  BY <1>1 DEF RecordInv, Recorded, dbVars

(* set_status writes the row of its own session, which was not told yet,   *)
(* or has it excused.                                                      *)
LEMMA StatusStep ==
  ASSUME RecordInv, NEW s \in Session, NEW status \in Final, SetStatus(s, status)
  PROVE  RecordInv'
<1>1. /\ pc[s] \in {"open", "active"} /\ pc' = [pc EXCEPT ![s] = "landed"]
      /\ list' = [list EXCEPT ![s] = status] /\ told' = told
  BY DEF SetStatus, Goes, SetList
<1>2. /\ DOMAIN history' = Session /\ excused \subseteq excused'
      /\ s \in excused' \/ history'[s] = status
      /\ \A x \in Session : x # s => history'[x] = history[x]
  BY DEF SetStatus, Record, RecordInv
<1>3. ASSUME NEW x \in Session, pc'[x] = "landed"
      PROVE  list'[x] \in Final /\ (x \in excused' \/ history'[x] = list'[x])
  <2>1. CASE x = s
    BY <1>1, <1>2, <2>1 DEF RecordInv
  <2>2. CASE x # s
    BY <1>1, <1>2, <1>3, <2>2 DEF RecordInv, Recorded
  <2> QED
    BY <2>1, <2>2
<1>4. ASSUME NEW e \in told
      PROVE  /\ e \in Session \X Final /\ pc'[e[1]] \in {"over", "left"}
             /\ e[1] \in excused' \/ history'[e[1]] = e[2]
  <2>1. e \in Session \X Final /\ pc[e[1]] \in {"over", "left"} /\ Recorded(e[1], e[2])
    BY DEF RecordInv
  <2>2. e[1] \in Session /\ e[1] # s
    BY <1>1, <2>1
  <2> QED
    BY <1>1, <1>2, <2>1, <2>2 DEF RecordInv, Recorded
<1> QED
  BY <1>1, <1>2, <1>3, <1>4 DEF RecordInv, Recorded

(* SessionDone announces what the row holds.                               *)
LEMMA DoneStep ==
  ASSUME RecordInv, NEW s \in Session, SessionDone(s)
  PROVE  RecordInv'
<1>1. /\ pc[s] = "landed" /\ pc' = [pc EXCEPT ![s] = "over"]
      /\ told' = told \cup {<<s, list[s]>>} /\ UNCHANGED <<list, history, excused>>
  BY DEF SessionDone, Goes, listVars
<1>2. ASSUME NEW e \in told'
      PROVE  /\ e \in Session \X Final /\ pc'[e[1]] \in {"over", "left"}
             /\ Recorded(e[1], e[2])
  <2>1. CASE e \in told
    BY <1>1, <2>1 DEF RecordInv
  <2>2. CASE e = <<s, list[s]>>
    BY <1>1, <2>2 DEF RecordInv
  <2> QED
    BY <1>1, <1>2, <2>1, <2>2
<1> QED
  BY <1>1, <1>2 DEF RecordInv, Recorded

(* Clearing the table excuses every row that was in it, and so does a      *)
(* restart of a process that had it in memory.                             *)
LEMMA EmptiedStep ==
  ASSUME RecordInv, UNCHANGED told,
         history' = [s \in Session |-> "none"],
         excused' = excused \cup {s \in Session : history[s] # "none"},
         DOMAIN pc' = Session, DOMAIN list' = Session,
         \A s \in Session :
           /\ pc'[s] = "landed" => pc[s] = "landed" /\ list'[s] = list[s]
           /\ pc[s] \in {"over", "left"} => pc'[s] \in {"over", "left"}
  PROVE  RecordInv'
<1>1. ASSUME NEW s \in Session, NEW status \in Final, Recorded(s, status)
      PROVE  s \in excused'
  BY <1>1 DEF Recorded, Final
<1>2. ASSUME NEW e \in told
      PROVE  e \in Session \X Final /\ pc'[e[1]] \in {"over", "left"} /\ e[1] \in excused'
  <2>1. e \in Session \X Final /\ pc[e[1]] \in {"over", "left"} /\ Recorded(e[1], e[2])
    BY DEF RecordInv
  <2> QED
    BY <1>1, <2>1
<1>3. ASSUME NEW s \in Session, pc'[s] = "landed"
      PROVE  list'[s] \in Final /\ s \in excused'
  BY <1>1, <1>3 DEF RecordInv
<1> QED
  BY <1>2, <1>3 DEF RecordInv, Recorded

(* A list is fetched without the entries that are old: their handlers are  *)
(* done.                                                                   *)
LEMMA FetchStep ==
  ASSUME RecordInv, NEW t \in Tab, FetchList(t)
  PROVE  RecordInv'
<1>1. PICK old \in SUBSET {s \in Session : list[s] \in Final /\ pc[s] = "over"} :
        list' = [s \in Session |-> IF s \in old THEN "none" ELSE list[s]]
  BY DEF FetchList
<1>2. UNCHANGED <<pc, dbVars>>
  BY DEF FetchList
<1>3. \A s \in Session : pc[s] = "landed" => list'[s] = list[s]
  BY <1>1
<1> QED
  BY <1>1, <1>2, <1>3, QuietStep DEF RecordInv

(* The process ends: what was going on is left, and the table on disk      *)
(* stays.                                                                  *)
LEMMA RestartStep == ASSUME RecordInv, Restart PROVE RecordInv'
<1>1. /\ pc' = [s \in Session |-> IF pc[s] = "new" THEN "new" ELSE "left"]
      /\ list' = [s \in Session |-> "none"] /\ UNCHANGED <<onDisk, told>>
  BY DEF Restart
<1>2. \A s \in Session : pc'[s] # "landed" /\ (pc[s] \in {"over", "left"} => pc'[s] = "left")
  BY <1>1
<1>3. CASE onDisk
  BY <1>1, <1>2, <1>3, QuietStep DEF Restart, dbVars
<1>4. CASE ~onDisk
  BY <1>1, <1>2, <1>4, EmptiedStep DEF Restart
<1> QED
  BY <1>3, <1>4

(* Every step keeps the rows as they were announced.                       *)
LEMMA RecordStep == ASSUME RecordInv, Next PROVE RecordInv'
<1>1. ASSUME NEW s \in Session, AddTransfer(s) \/ Begin(s) \/ Leave(s) PROVE RecordInv'
  <2>1. /\ \E from \in {"new", "open", "active"}, to \in {"open", "active", "left"} :
             pc[s] = from /\ pc' = [pc EXCEPT ![s] = to]
        /\ DOMAIN list' = Session /\ \A x \in Session : x # s => list'[x] = list[x]
        /\ UNCHANGED dbVars
    BY <1>1 DEF AddTransfer, Begin, Leave, Goes, SetList, listVars, RecordInv
  <2> QED
    BY <2>1, QuietStep DEF RecordInv
<1>2. ASSUME NEW s \in Session, Progress(s) \/ FinishFile(s) PROVE RecordInv'
  BY <1>2, QuietStep DEF Progress, FinishFile, listVars, RecordInv
<1>3. CASE ClearHistory
  BY <1>3, EmptiedStep DEF ClearHistory, listVars, RecordInv
<1>4. ASSUME NEW t \in Tab,
             \/ Connect(t) \/ HandleEvent(t) \/ ShowList(t) \/ UploadEnds(t)
             \/ Disconnect(t) \/ Reload(t)
             \/ \E s \in Session : CancelTransfer(t, s)
             \/ \E s \in outgoing : SendSelected(t, s)
      PROVE  RecordInv'
  <2>1. UNCHANGED <<pc, list, dbVars>>
    BY <1>4 DEF Connect, HandleEvent, ShowList, UploadEnds, Disconnect, Reload,
                CancelTransfer, SendSelected, listVars
  <2> QED
    BY <2>1, QuietStep DEF RecordInv
<1> QED
  BY <1>1, <1>2, <1>3, <1>4, StatusStep, DoneStep, FetchStep, RestartStep DEF Next

(* So it holds throughout.                                                 *)
LEMMA RecordInvHolds == Spec => []RecordInv
<1>1. Init => RecordInv
  BY DEF Init, RecordInv
<1>2. RecordInv /\ [Next]_vars => RecordInv'
  <2>1. RecordInv /\ UNCHANGED vars => RecordInv'
    BY DEF vars, listVars, dbVars, RecordInv, Recorded
  <2> QED
    BY <2>1, RecordStep
<1> QED
  BY <1>1, <1>2, PTL DEF Spec

(* Once SessionDone is out the row of the session is in the table with the *)
(* status announced, and stays there over restarts, unless it was cleared, *)
(* could not be written or was in memory only (app.js:386, history.rs:3).  *)
THEOREM RowsRecorded == Spec => []DoneIsRecorded
<1>1. RecordInv => DoneIsRecorded
  BY DEF RecordInv, Recorded, DoneIsRecorded
<1> QED
  BY <1>1, RecordInvHolds, PTL

---------------------------------------------------------------------------
Happening == [type : {"progress", "fileDone", "sessionDone"}, session : Session]

(* The inductive form of TypeOK: the channels are sequences, and what is   *)
(* listed, or on its way to a tab, has its place in the order of the list. *)
LinkShape == linked \subseteq Tab /\ Channels(Happening)

Placed(s) == list[s] # "none" \/ pc[s] \in {"open", "active"} => s \in ToSet(opened)

HostShape ==
  /\ outgoing \subseteq Session
  /\ pc \in [Session -> Phase]
  /\ list \in [Session -> Unfinished \cup Final \cup {"none"}]
  /\ filed \subseteq Session
  /\ opened \in Seq(Session)
  /\ \A s \in Session : Placed(s)
  /\ history \in [Session -> Final \cup {"none"}]
  /\ onDisk \in BOOLEAN
  /\ told \subseteq Session \X Final /\ excused \subseteq Session
  /\ upsets \in 0 .. MaxUpsets

IsAnswer(a) ==
  /\ a \subseteq Entry /\ \A e \in a : e.session \in ToSet(opened)
  /\ \A e, f \in a : e.session = f.session => e = f

PageShape ==
  /\ rows \in [Tab -> [Session -> {"none", "live", "done"}]]
  /\ DOMAIN answer = Tab /\ \A t \in Tab : answer[t] # None => IsAnswer(answer[t])
  /\ upload \in [Tab -> outgoing \cup {None}] /\ tag \in [Tab -> outgoing \cup {None}]

ShapeInv == LinkShape /\ HostShape /\ PageShape

(* What has a place in the order, or is tagged by a tab, has been opened.  *)
KnownInv ==
  /\ \A s \in ToSet(opened) : pc[s] # "new"
  /\ \A t \in Tab : tag[t] # None => pc[tag[t]] # "new"

(* Emit, of an event of a session, leaves the channels as they should be.  *)
LEMMA EmitShape ==
  ASSUME LinkShape, NEW s \in Session, NEW type \in {"progress", "fileDone", "sessionDone"},
         Emit(Event(type, s))
  PROVE  LinkShape'
<1>1. Event(type, s) \in Happening
  BY DEF Event, Happening
<1> QED
  BY <1>1, EmitEffect DEF LinkShape

(* What a tab was sent stays listed while the order only grows.            *)
LEMMA PageStays ==
  ASSUME PageShape, UNCHANGED <<outgoing, pageVars>>, ToSet(opened) \subseteq ToSet(opened')
  PROVE  PageShape'
BY DEF PageShape, IsAnswer, pageVars

(* The handler of a session.                                               *)
LEMMA HandlerShape ==
  ASSUME ShapeInv, RecordInv, NEW s \in Session,
         \/ AddTransfer(s) \/ Begin(s) \/ Progress(s) \/ FinishFile(s)
         \/ \E status \in Final : SetStatus(s, status)
         \/ SessionDone(s) \/ Leave(s)
  PROVE  ShapeInv'
<1>1. ASSUME NEW from, NEW to \in Phase, Goes(s, from, to)
      PROVE  /\ pc[s] \in from /\ pc' \in [Session -> Phase] /\ pc'[s] = to
             /\ \A x \in Session : x # s => pc'[x] = pc[x]
  BY <1>1 DEF Goes, ShapeInv, HostShape
<1>2. ASSUME NEW status \in Unfinished \cup Final, SetList(s, status)
      PROVE  /\ list' \in [Session -> Unfinished \cup Final \cup {"none"}]
             /\ \A x \in Session : x # s => list'[x] = list[x]
  BY <1>2 DEF SetList, ShapeInv, HostShape
<1>3. ASSUME UNCHANGED <<outgoing, pageVars, opened>> PROVE PageShape'
  BY <1>3, PageStays DEF ShapeInv
<1>4. CASE AddTransfer(s)
  <2>1. Goes(s, {"new"}, "open") /\ SetList(s, "pending")
    BY <1>4 DEF AddTransfer
  <2>2. opened' \in Seq(Session) /\ ToSet(opened') = ToSet(opened) \cup {s}
    <3>1. opened' = <<s>> \o opened /\ opened \in Seq(Session)
      BY <1>4 DEF AddTransfer, ShapeInv, HostShape
    <3> QED
      BY <3>1, PrependSet
  <2>3. /\ pc' \in [Session -> Phase] /\ \A x \in Session : x # s => pc'[x] = pc[x]
        /\ list' \in [Session -> Unfinished \cup Final \cup {"none"}]
        /\ \A x \in Session : x # s => list'[x] = list[x]
    BY <1>1, <1>2, <2>1 DEF Phase, Unfinished
  <2>4. \A x \in Session : Placed(x)'
    BY <2>2, <2>3 DEF ShapeInv, HostShape, Placed
  <2>5. HostShape'
    BY <1>4, <2>2, <2>3, <2>4 DEF AddTransfer, ShapeInv, HostShape, dbVars
  <2>6. PageShape'
    BY <1>4, <2>2, PageStays DEF AddTransfer, ShapeInv
  <2> QED
    BY <1>4, <2>5, <2>6 DEF AddTransfer, ShapeInv, LinkShape, linkVars, Channels
<1>5. CASE Begin(s)
  <2>1. Goes(s, {"open"}, "active") /\ SetList(s, "active")
    BY <1>5 DEF Begin
  <2>2. /\ pc[s] = "open" /\ pc' \in [Session -> Phase]
        /\ \A x \in Session : x # s => pc'[x] = pc[x]
        /\ list' \in [Session -> Unfinished \cup Final \cup {"none"}]
        /\ \A x \in Session : x # s => list'[x] = list[x]
    BY <1>1, <1>2, <2>1 DEF Phase, Unfinished
  <2>3. \A x \in Session : Placed(x)'
    BY <1>5, <2>2 DEF Begin, ShapeInv, HostShape, Placed
  <2>4. HostShape'
    BY <1>5, <2>2, <2>3 DEF Begin, ShapeInv, HostShape, dbVars
  <2> QED
    BY <1>3, <1>5, <2>4 DEF Begin, ShapeInv, LinkShape, linkVars, Channels
<1>6. CASE Progress(s)
  <2>1. LinkShape'
    BY <1>6, EmitShape DEF Progress, ShapeInv
  <2>2. HostShape'
    BY <1>6 DEF Progress, ShapeInv, HostShape, Placed, listVars, dbVars
  <2> QED
    BY <1>3, <1>6, <2>1, <2>2 DEF Progress, ShapeInv, listVars
<1>7. CASE FinishFile(s)
  <2>1. LinkShape'
    BY <1>7, EmitShape DEF FinishFile, ShapeInv
  <2>2. HostShape'
    BY <1>7 DEF FinishFile, ShapeInv, HostShape, Placed, dbVars
  <2> QED
    BY <1>3, <1>7, <2>1, <2>2 DEF FinishFile, ShapeInv
<1>8. ASSUME NEW status \in Final, SetStatus(s, status) PROVE ShapeInv'
  <2>1. Goes(s, {"open", "active"}, "landed") /\ SetList(s, status)
    BY <1>8 DEF SetStatus
  <2>2. /\ pc[s] \in {"open", "active"} /\ pc' \in [Session -> Phase]
        /\ \A x \in Session : x # s => pc'[x] = pc[x]
        /\ list' \in [Session -> Unfinished \cup Final \cup {"none"}]
        /\ \A x \in Session : x # s => list'[x] = list[x]
    BY <1>1, <1>2, <2>1 DEF Phase
  <2>3. \A x \in Session : Placed(x)'
    BY <1>8, <2>2 DEF SetStatus, ShapeInv, HostShape, Placed
  <2>4. history' \in [Session -> Final \cup {"none"}] /\ excused' \subseteq Session
    BY <1>8 DEF SetStatus, Record, ShapeInv, HostShape
  <2>5. HostShape'
    BY <1>8, <2>2, <2>3, <2>4 DEF SetStatus, ShapeInv, HostShape
  <2> QED
    BY <1>3, <1>8, <2>5 DEF SetStatus, ShapeInv, LinkShape, linkVars, Channels
<1>9. CASE SessionDone(s)
  <2>1. LinkShape'
    BY <1>9, EmitShape DEF SessionDone, ShapeInv
  <2>2. Goes(s, {"landed"}, "over")
    BY <1>9 DEF SessionDone
  <2>3. /\ pc[s] = "landed" /\ pc' \in [Session -> Phase] /\ pc'[s] = "over"
        /\ \A x \in Session : x # s => pc'[x] = pc[x]
    BY <1>1, <2>2 DEF Phase
  <2>4. told' \subseteq Session \X Final
    BY <1>9, <2>3 DEF SessionDone, ShapeInv, HostShape, RecordInv
  <2>5. HostShape'
    BY <1>9, <2>3, <2>4 DEF SessionDone, ShapeInv, HostShape, Placed, listVars
  <2> QED
    BY <1>3, <1>9, <2>1, <2>5 DEF SessionDone, ShapeInv, listVars
<1>10. CASE Leave(s)
  <2>1. Goes(s, {"open", "active"}, "left")
    BY <1>10 DEF Leave
  <2>2. /\ pc' \in [Session -> Phase] /\ pc'[s] = "left"
        /\ \A x \in Session : x # s => pc'[x] = pc[x]
    BY <1>1, <2>1 DEF Phase
  <2>3. HostShape'
    BY <1>10, <2>2 DEF Leave, ShapeInv, HostShape, Placed, listVars, dbVars
  <2> QED
    BY <1>3, <1>10, <2>3 DEF Leave, ShapeInv, LinkShape, linkVars, Channels, listVars
<1> QED
  BY <1>4, <1>5, <1>6, <1>7, <1>8, <1>9, <1>10

(* The session a list is taken to tag is one of the uploads in it: what is *)
(* in an answer has its place in the order of the list.                    *)
LEMMA TagShape ==
  ASSUME ShapeInv, NEW t \in Tab, answer[t] # None
  PROVE  Tag(t) \in outgoing \cup {None} /\ Tag(t) \in ToSet(opened) \cup {tag[t]}
<1> DEFINE uploads == {e.session : e \in {x \in answer[t] : IsUpload(x)}}
           I == {i \in 1 .. Len(opened) : opened[i] \in uploads}
<1>1. uploads \subseteq outgoing
  BY DEF IsUpload
<1>2. tag[t] \in outgoing \cup {None}
  BY DEF ShapeInv, PageShape
<1>3. ASSUME uploads # {} PROVE I # {} /\ I \subseteq Nat
  <2>1. PICK s \in uploads : TRUE
    BY <1>3
  <2>2. s \in ToSet(opened) /\ opened \in Seq(Session)
    BY <2>1 DEF ShapeInv, PageShape, HostShape, IsAnswer
  <2>3. PICK i \in 1 .. Len(opened) : opened[i] = s
    BY <2>2 DEF ToSet
  <2> QED
    BY <2>1, <2>3
<1>4. CASE upload[t] # None /\ tag[t] = None /\ uploads # {}
  <2>1. Tag(t) = opened[Min(I)]
    BY <1>3, <1>4 DEF Tag, SelectInSeq
  <2>2. Min(I) \in I
    <3>1. I \in SUBSET Nat /\ I # {}
      BY <1>3, <1>4
    <3> HIDE DEF I
    <3> QED
      BY <3>1, LeastIsMember
  <2>3. opened[Min(I)] \in uploads /\ opened[Min(I)] \in ToSet(opened)
    BY <2>2 DEF ToSet
  <2> QED
    BY <1>1, <2>1, <2>3
<1>5. CASE ~(upload[t] # None /\ tag[t] = None /\ uploads # {})
  BY <1>2, <1>5 DEF Tag
<1> QED
  BY <1>4, <1>5

(* A tab reads an event, or asks for the list ...                          *)
LEMMA FetchShape ==
  ASSUME ShapeInv, NEW t \in Tab, HandleEvent(t) \/ FetchList(t)
  PROVE  ShapeInv'
<1>1. CASE HandleEvent(t)
  <2>1. events[t] # <<>> /\ events' = [events EXCEPT ![t] = Tail(@)] /\ Channels(Happening)
    BY <1>1 DEF HandleEvent, ShapeInv, LinkShape
  <2>2. Channels(Happening)' /\ Head(events[t]) \in Happening
    BY <2>1, NextEvent
  <2>3. Head(events[t]).session \in Session
    BY <2>2 DEF Happening
  <2>4. \A type : \A row \in {"none", "live", "done"} :
          Animated(row, type) \in {"none", "live", "done"}
    BY DEF Animated
  <2>5. rows' \in [Tab -> [Session -> {"none", "live", "done"}]]
    BY <1>1, <2>3, <2>4 DEF HandleEvent, ShapeInv, PageShape
  <2> QED
    BY <1>1, <2>2, <2>5
    DEF HandleEvent, ShapeInv, LinkShape, HostShape, PageShape, IsAnswer, Placed, listVars, dbVars
<1>2. CASE FetchList(t)
  <2>1. PICK old \in SUBSET {s \in Session : list[s] \in Final /\ pc[s] = "over"} :
          list' = [s \in Session |-> IF s \in old THEN "none" ELSE list[s]]
    BY <1>2 DEF FetchList
  <2>2. /\ list' \in [Session -> Unfinished \cup Final \cup {"none"}]
        /\ \A s \in Session : list'[s] # "none" => list[s] # "none"
    BY <2>1 DEF ShapeInv, HostShape
  <2>3. HostShape'
    BY <1>2, <2>2 DEF FetchList, ShapeInv, HostShape, Placed, dbVars
  <2> DEFINE a == {[session |-> s, status |-> list'[s], done |-> s \in filed] :
                     s \in {x \in Session : list'[x] # "none"}}
  <2>4. IsAnswer(a)
    <3>1. ASSUME NEW s \in Session, list'[s] # "none"
          PROVE  /\ [session |-> s, status |-> list'[s], done |-> s \in filed] \in Entry
                 /\ s \in ToSet(opened)
      BY <2>2, <3>1 DEF Entry, ShapeInv, HostShape, Placed
    <3>2. \A e, f \in a : e.session = f.session => e = f
      OBVIOUS
    <3> QED
      BY <3>1, <3>2 DEF IsAnswer
  <2>5. /\ DOMAIN answer' = Tab /\ answer'[t] = a
        /\ \A u \in Tab : u # t => answer'[u] = answer[u]
    BY <1>2 DEF FetchList, ShapeInv, PageShape
  <2> HIDE DEF a
  <2>6. PageShape'
    BY <1>2, <2>4, <2>5 DEF FetchList, ShapeInv, PageShape, IsAnswer
  <2> QED
    BY <1>2, <2>3, <2>6 DEF FetchList, ShapeInv, LinkShape, linkVars, Channels
<1> QED
  BY <1>1, <1>2

(* ... makes rows of it, and sends, cancels, comes and goes.               *)
LEMMA TabShape ==
  ASSUME ShapeInv, NEW t \in Tab,
         \/ Connect(t) \/ ShowList(t) \/ UploadEnds(t)
         \/ Disconnect(t) \/ Reload(t)
         \/ \E s \in Session : CancelTransfer(t, s)
         \/ \E s \in outgoing : SendSelected(t, s)
  PROVE  ShapeInv'
<1>1. ASSUME UNCHANGED <<outgoing, pc, listVars, dbVars>>, upsets' \in 0 .. MaxUpsets
      PROVE  HostShape'
  BY <1>1 DEF ShapeInv, HostShape, Placed, listVars, dbVars
<1>2. UNCHANGED <<outgoing, pc, listVars, dbVars>>
  BY DEF Connect, ShowList, UploadEnds, Disconnect, Reload, CancelTransfer, SendSelected
<1>3. upsets' \in 0 .. MaxUpsets
  BY ListingAssumption
  DEF Connect, ShowList, UploadEnds, Disconnect, Reload, CancelTransfer, SendSelected,
      Upset, ShapeInv, HostShape
<1>4. HostShape'
  BY <1>1, <1>2, <1>3
<1>5. LinkShape'
  <2>1. CASE Disconnect(t) \/ Reload(t)
    <3>1. Unsubscribe({t}) /\ Channels(Happening) /\ linked \subseteq Tab
      BY <2>1 DEF Disconnect, Reload, ShapeInv, LinkShape
    <3> QED
      BY <3>1, UnsubscribeEffect DEF LinkShape
  <2>2. CASE Connect(t)
    BY <2>2 DEF Connect, Subscribe, ShapeInv, LinkShape, Channels
  <2>3. CASE ~(Connect(t) \/ Disconnect(t) \/ Reload(t))
    <3>1. UNCHANGED linkVars
      BY <2>3 DEF ShowList, UploadEnds, CancelTransfer, SendSelected
    <3> QED
      BY <3>1 DEF ShapeInv, LinkShape, Channels, linkVars
  <2> QED
    BY <2>1, <2>2, <2>3
<1>6. ASSUME LetGo(t)
      PROVE  /\ upload' \in [Tab -> outgoing \cup {None}]
             /\ tag' \in [Tab -> outgoing \cup {None}]
  BY <1>6 DEF LetGo, ShapeInv, PageShape
<1>7. UNCHANGED <<outgoing, opened>>
  BY <1>2 DEF listVars
<1>8. PageShape'
  <2>1. CASE Connect(t) \/ Disconnect(t)
    BY <1>7, <2>1, PageStays DEF Connect, Disconnect, ShapeInv
  <2>2. CASE UploadEnds(t) \/ \E s \in Session : CancelTransfer(t, s)
    BY <1>6, <1>7, <2>2 DEF UploadEnds, CancelTransfer, ShapeInv, PageShape, IsAnswer
  <2>3. CASE Reload(t)
    BY <1>6, <1>7, <2>3 DEF Reload, ShapeInv, PageShape, IsAnswer
  <2>4. CASE \E s \in outgoing : SendSelected(t, s)
    BY <1>7, <2>4 DEF SendSelected, ShapeInv, PageShape, IsAnswer
  <2>5. CASE ShowList(t)
    <3>1. tag' \in [Tab -> outgoing \cup {None}]
      BY <2>5, TagShape DEF ShowList, ShapeInv, PageShape
    <3>2. \A here : \A row \in {"none", "live", "done"} :
            Row(row, here) \in {"none", "live", "done"}
      BY DEF Row
    <3>3. rows' \in [Tab -> [Session -> {"none", "live", "done"}]]
      BY <2>5, <3>2 DEF ShowList, ShapeInv, PageShape
    <3>4. DOMAIN answer' = Tab /\ \A u \in Tab : answer'[u] # None => IsAnswer(answer[u]) /\ answer'[u] = answer[u]
      BY <2>5 DEF ShowList, ShapeInv, PageShape
    <3> QED
      BY <1>7, <2>5, <3>1, <3>3, <3>4 DEF ShowList, ShapeInv, PageShape, IsAnswer
  <2> QED
    BY <2>1, <2>2, <2>3, <2>4, <2>5
<1> QED
  BY <1>4, <1>5, <1>8 DEF ShapeInv

(* The table is cleared, or the process ends.                              *)
LEMMA HostStepShape == ASSUME ShapeInv, ClearHistory \/ Restart PROVE ShapeInv'
<1>1. CASE ClearHistory
  <2>1. HostShape'
    BY <1>1 DEF ClearHistory, ShapeInv, HostShape, Placed, listVars
  <2>2. PageShape'
    BY <1>1, PageStays DEF ClearHistory, ShapeInv, listVars
  <2> QED
    BY <1>1, <2>1, <2>2 DEF ClearHistory, ShapeInv, LinkShape, linkVars, Channels
<1>2. CASE Restart
  <2>1. LinkShape'
    <3>1. Unsubscribe(Tab) /\ Channels(Happening) /\ linked \subseteq Tab
      BY <1>2 DEF Restart, ShapeInv, LinkShape
    <3> QED
      BY <3>1, UnsubscribeEffect DEF LinkShape
  <2>2. /\ pc' = [s \in Session |-> IF pc[s] = "new" THEN "new" ELSE "left"]
        /\ list' = [s \in Session |-> "none"] /\ filed' = {} /\ opened' = <<>>
        /\ UNCHANGED <<outgoing, onDisk, told, rows, upload, tag>>
        /\ answer' = [t \in Tab |-> None]
    BY <1>2 DEF Restart
  <2>3. /\ pc' \in [Session -> Phase] /\ list' \in [Session -> Unfinished \cup Final \cup {"none"}]
        /\ \A s \in Session : Placed(s)'
    BY <2>2 DEF Phase, Placed
  <2>4. history' \in [Session -> Final \cup {"none"}] /\ excused' \subseteq Session
    BY <1>2 DEF Restart, ShapeInv, HostShape
  <2>5. upsets' \in 0 .. MaxUpsets
    BY <1>2, ListingAssumption DEF Restart, Upset, ShapeInv, HostShape
  <2>6. HostShape'
    BY <2>2, <2>3, <2>4, <2>5 DEF ShapeInv, HostShape
  <2>7. PageShape'
    BY <2>2 DEF ShapeInv, PageShape
  <2> QED
    BY <2>1, <2>6, <2>7 DEF ShapeInv
<1> QED
  BY <1>1, <1>2

(* A session that has been opened is never new again, and what is tagged   *)
(* has its place in the order.                                             *)
LEMMA KnownStep == ASSUME ShapeInv, KnownInv, Next PROVE KnownInv'
<1>1. /\ pc \in [Session -> Phase] /\ opened \in Seq(Session) /\ outgoing \subseteq Session
      /\ ToSet(opened) \subseteq Session /\ tag \in [Tab -> outgoing \cup {None}]
  BY ElementsOf DEF ShapeInv, HostShape, PageShape
<1>2. ASSUME UNCHANGED <<opened, tag>>, \A s \in Session : pc[s] # "new" => pc'[s] # "new"
      PROVE  KnownInv'
  BY <1>1, <1>2 DEF KnownInv
<1>3. ASSUME NEW s \in Session, AddTransfer(s) PROVE KnownInv'
  <2>1. opened' = <<s>> \o opened /\ UNCHANGED tag /\ pc' = [pc EXCEPT ![s] = "open"]
    BY <1>3 DEF AddTransfer, Goes, pageVars
  <2>2. ToSet(opened') = ToSet(opened) \cup {s}
    BY <1>1, <2>1, PrependSet
  <2> QED
    BY <1>1, <2>1, <2>2 DEF KnownInv
<1>4. ASSUME NEW s \in Session, Progress(s) \/ FinishFile(s) PROVE KnownInv'
  BY <1>2, <1>4 DEF Progress, FinishFile, listVars, pageVars
<1>5. ASSUME NEW s \in Session,
             \/ Begin(s) \/ SessionDone(s) \/ Leave(s)
             \/ \E status \in Final : SetStatus(s, status)
      PROVE  KnownInv'
  <2>1. /\ UNCHANGED <<opened, tag>>
        /\ \E to \in Phase \ {"new"} : pc' = [pc EXCEPT ![s] = to]
    BY <1>5 DEF Begin, SessionDone, Leave, SetStatus, Goes, Phase, listVars, pageVars
  <2> QED
    BY <1>1, <1>2, <2>1
<1>6. ASSUME ClearHistory PROVE KnownInv'
  BY <1>2, <1>6 DEF ClearHistory, listVars, pageVars
<1>7. ASSUME NEW t \in Tab,
             \/ Connect(t) \/ HandleEvent(t) \/ FetchList(t) \/ Disconnect(t)
             \/ \E s \in outgoing : SendSelected(t, s)
      PROVE  KnownInv'
  BY <1>2, <1>7 DEF Connect, HandleEvent, FetchList, Disconnect, SendSelected, listVars, pageVars
<1>8. ASSUME NEW t \in Tab,
             UploadEnds(t) \/ Reload(t) \/ \E s \in Session : CancelTransfer(t, s)
      PROVE  KnownInv'
  <2>1. UNCHANGED <<opened, pc>> /\ tag' = [tag EXCEPT ![t] = None]
    BY <1>8 DEF UploadEnds, Reload, CancelTransfer, LetGo, listVars
  <2> QED
    BY <1>1, <2>1 DEF KnownInv
<1>9. ASSUME NEW t \in Tab, ShowList(t) PROVE KnownInv'
  <2>1. UNCHANGED <<opened, pc>> /\ tag' = [tag EXCEPT ![t] = Tag(t)]
    BY <1>9 DEF ShowList, listVars
  <2>2. Tag(t) \in ToSet(opened) \cup {tag[t]}
    BY <1>9, TagShape DEF ShowList
  <2> QED
    BY <1>1, <2>1, <2>2 DEF KnownInv
<1>10. ASSUME Restart PROVE KnownInv'
  <2>1. /\ pc' = [s \in Session |-> IF pc[s] = "new" THEN "new" ELSE "left"]
        /\ opened' = <<>> /\ UNCHANGED tag
    BY <1>10 DEF Restart
  <2>2. ToSet(opened') = {}
    BY <2>1 DEF ToSet
  <2> QED
    BY <1>1, <2>1, <2>2 DEF KnownInv
<1> QED
  BY <1>3, <1>4, <1>5, <1>6, <1>7, <1>8, <1>9, <1>10 DEF Next

(* So every variable has its type: no channel holds more than Capacity, no *)
(* row is shown that is not one of the three kinds, no list a tab is sent  *)
(* has a session twice, and a tab takes for its own only a session this    *)
(* host sends and has listed (state.rs:83, app.js:405, app.js:765).        *)
THEOREM TypesHold == Spec => []TypeOK
<1>1. Init => ShapeInv
  <2> SUFFICES ASSUME Init PROVE ShapeInv
    OBVIOUS
  <2>1. LinkShape
    BY EventsAssumption DEF Init, LinkShape, Channels
  <2>2. HostShape
    BY ListingAssumption DEF Init, HostShape, Placed, Phase
  <2>3. PageShape
    BY DEF Init, PageShape
  <2> QED
    BY <2>1, <2>2, <2>3 DEF ShapeInv
<1>2. ShapeInv /\ RecordInv /\ [Next]_vars => ShapeInv'
  <2> SUFFICES ASSUME ShapeInv, RecordInv, [Next]_vars PROVE ShapeInv'
    OBVIOUS
  <2>1. CASE Next
    BY <2>1, HandlerShape, HostStepShape, FetchShape, TabShape DEF Next
  <2>2. CASE UNCHANGED vars
    BY <2>2 DEF vars, linkVars, listVars, dbVars, pageVars, ShapeInv, LinkShape, HostShape,
                PageShape, IsAnswer, Placed, Channels
  <2> QED
    BY <2>1, <2>2
<1>3. ShapeInv /\ KnownInv => TypeOK
  <2> SUFFICES ASSUME ShapeInv, KnownInv PROVE TypeOK
    OBVIOUS
  <2>1. \A t \in Tab : ToSet(events[t]) \subseteq Happening
    BY ElementsOf DEF ShapeInv, LinkShape, Channels
  <2>2. ToSet(opened) \subseteq Session
    BY ElementsOf DEF ShapeInv, HostShape
  <2>3. DOMAIN events = Tab
    BY DEF ShapeInv, LinkShape, Channels
  <2> QED
    BY <2>1, <2>2, <2>3 DEF ShapeInv, LinkShape, HostShape, PageShape, IsAnswer, Channels, KnownInv, TypeOK, Happening
<1>4. Init => KnownInv
  BY DEF Init, KnownInv, ToSet
<1>5. ShapeInv /\ KnownInv /\ [Next]_vars => KnownInv'
  <2>1. KnownInv /\ UNCHANGED vars => KnownInv'
    BY DEF vars, listVars, pageVars, KnownInv
  <2> QED
    BY <2>1, KnownStep
<1> QED
  BY <1>1, <1>2, <1>3, <1>4, <1>5, RecordInvHolds, PTL DEF Spec
=============================================================================
