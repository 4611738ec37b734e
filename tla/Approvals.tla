------------------------------ MODULE Approvals ------------------------------
(***************************************************************************)
(* Several sessions that wait for the user of one host, in all the tabs    *)
(* that show their prompts: await_decision and decide of src/src/state.rs, *)
(* POST /api/decision of src/src/server.rs, and incomingQueue of           *)
(* src/web/app.js.  The user may answer in any tab, the wait may be over   *)
(* first, and Incoming and Decided may not reach a tab.                    *)
(***************************************************************************)
EXTENDS Events, FiniteSets, SequencesExt

CONSTANTS
  Session,      \* sessions other hosts start
  MaxUpsets     \* reloads, lost WebSockets and restarts of the host

ASSUME ApprovalsAssumption == MaxUpsets \in Nat

VARIABLES
  pc,           \* where the handler of each session is
  pending,      \* AppState.pending
  verdict,      \* what is in the channel of each session, then how it ended
  prompts,      \* incomingQueue of each tab
  posts,        \* decisions on their way to the server
  acked,        \* decisions the server has answered with ok
  missed,       \* of what is not over, what each tab never got, lost or answered
  upsets

hostVars == <<pc, pending, verdict>>
userVars == <<posts, acked>>
vars == <<linkVars, hostVars, userVars, prompts, missed, upsets>>

Phase    == {"new", "open", "asking", "timedout", "expired", "over"}
Answer   == {"yes", "no"}
Decision == [session : Session, answer : Answer]

TypeOK ==
  /\ linked \subseteq Tab /\ DOMAIN events = Tab
  /\ \A t \in Tab :
       /\ Len(events[t]) <= Capacity
       /\ ToSet(events[t]) \subseteq [type : {"incoming", "decided"}, session : Session]
       /\ ToSet(prompts[t]) \subseteq Session /\ IsInjective(prompts[t])
  /\ pc \in [Session -> Phase]
  /\ pending \subseteq Session
  /\ verdict \in [Session -> Answer \cup {"none", "timeout"}]
  /\ posts \subseteq Decision /\ acked \subseteq Decision
  /\ missed \in [Tab -> SUBSET Session]
  /\ upsets \in 0 .. MaxUpsets

Init ==
  /\ events = [t \in Tab |-> <<>>] /\ linked = {}
  /\ pc = [s \in Session |-> "new"]
  /\ pending = {} /\ verdict = [s \in Session |-> "none"]
  /\ prompts = [t \in Tab |-> <<>>]
  /\ posts = {} /\ acked = {}
  /\ missed = [t \in Tab |-> {}]
  /\ upsets = 0

Goes(s, from, to) == pc[s] = from /\ pc' = [pc EXCEPT ![s] = to]

(* The sessions a tab will be asked about by what it has not read.         *)
Announced(es) == {e.session : e \in {x \in ToSet(es) : x.type = "incoming"}}

(* Emit, and which prompts do not get to a tab by it.                      *)
Tell(e) ==
  /\ Emit(e)
  /\ missed' = [t \in Tab |->
       {s \in missed[t] \cup (Announced(Append(events[t], e)) \ Announced(events'[t])) :
          pc'[s] # "over"}]

Misses(t, ss) == missed' = [missed EXCEPT ![t] = @ \cup {s \in ss : pc[s] # "over"}]

---------------------------------------------------------------------------
(* receive: the prompt is sent out ...                                     *)
Open(s) ==
  /\ Goes(s, "new", "open")
  /\ Tell(Event("incoming", s))
  /\ UNCHANGED <<pending, verdict, userVars, prompts, upsets>>

(* ... await_decision puts its channel into pending ...                    *)
Ask(s) ==
  /\ Goes(s, "open", "asking")
  /\ pending' = pending \cup {s}
  /\ UNCHANGED <<linkVars, verdict, userVars, prompts, missed, upsets>>

(* ... after 120 s it is tired of waiting ...                              *)
TimeOut(s) ==
  /\ verdict[s] = "none" /\ Goes(s, "asking", "timedout")
  /\ UNCHANGED <<linkVars, pending, verdict, userVars, prompts, missed, upsets>>

(* ... and drops its end of the channel with what may be in it by then:    *)
(* a timeout is a rejection ...                                            *)
GiveUp(s) ==
  /\ Goes(s, "timedout", "expired")
  /\ verdict' = [verdict EXCEPT ![s] = "timeout"]
  /\ UNCHANGED <<linkVars, pending, userVars, prompts, missed, upsets>>

(* ... and either way leaves pending and says so.                          *)
Decided(s) ==
  /\ Goes(s, "expired", "over") \/ (verdict[s] # "none" /\ Goes(s, "asking", "over"))
  /\ pending' = pending \ {s}
  /\ Tell(Event("decided", s))
  /\ UNCHANGED <<verdict, userVars, prompts, upsets>>

(* decide has got hold of the channel and its other end is still there.    *)
Listens(s) == s \in pending /\ pc[s] \in {"asking", "timedout"}

Sends(s, a) == verdict' = IF Listens(s) THEN [verdict EXCEPT ![s] = a] ELSE verdict

(* Variant for the runs to refute, not the code: the channel is left where *)
(* it is, for others to use.                                               *)
LeavesIn(s) == UNCHANGED pending

TakesOut(s) == pending' = pending \ {s}

(* POST /api/decision is answered with ok if the answer went out.          *)
PostDecision(p) ==
  /\ p \in posts /\ posts' = posts \ {p}
  /\ TakesOut(p.session) /\ Sends(p.session, p.answer)
  /\ acked' = IF Listens(p.session) THEN acked \cup {p} ELSE acked
  /\ UNCHANGED <<linkVars, pc, prompts, missed, upsets>>

(* cancel, from the row of a session: it says no to what is pending.       *)
CancelPending(s) ==
  /\ s \in pending
  /\ TakesOut(s) /\ Sends(s, "no")
  /\ UNCHANGED <<linkVars, pc, userVars, prompts, missed, upsets>>

(* queueIncoming                                                           *)
With(q, s) == IF Contains(q, s) THEN q ELSE Append(q, s)

(* Variant for the runs to refute, not the code: the prompt on top goes.   *)
WithoutTop(q, s) == IF q = <<>> THEN q ELSE Tail(q)

(* dismissIncoming                                                         *)
Without(q, s) == RemoveFirst(q, s)

(* handleEvent                                                             *)
HandleEvent(t) ==
  /\ events[t] # <<>>
  /\ LET e == Head(events[t])
     IN  prompts' = [prompts EXCEPT ![t] =
           CASE e.type = "incoming" -> With(@, e.session)
             [] e.type = "decided"  -> Without(@, e.session)
             [] OTHER               -> @]
  /\ events' = [events EXCEPT ![t] = Tail(@)]
  /\ UNCHANGED <<linked, hostVars, userVars, missed, upsets>>

(* Variant for the runs to refute, not the code: "purely informational".   *)
ShowsZero(q) == q

(* What renderIncoming's countdown does at 0, with the prompt on top.      *)
AtZero(q) == Tail(q)

(* It lasts as long as the wait it mirrors and starts when the prompt has  *)
(* come to the top of a tab: the wait is taken to be over first.           *)
Countdown(t) ==
  /\ prompts[t] # <<>> /\ pc[Head(prompts[t])] \in {"timedout", "expired", "over"}
  /\ prompts' = [prompts EXCEPT ![t] = AtZero(@)]
  /\ UNCHANGED <<linkVars, hostVars, userVars, missed, upsets>>

(* decide in the page: an answer to the prompt on top, which goes.         *)
Click(t, a) ==
  /\ prompts[t] # <<>>
  /\ LET s == Head(prompts[t])
     IN  /\ posts' = posts \cup {[session |-> s, answer |-> a]}
         /\ prompts' = [prompts EXCEPT ![t] = Without(@, s)]
         /\ Misses(t, {s})
  /\ UNCHANGED <<linkVars, hostVars, acked, upsets>>

Upset == upsets < MaxUpsets /\ upsets' = upsets + 1

(* The WebSocket of a tab breaks; setupWebSocket connects again.           *)
Disconnect(t) ==
  /\ Upset /\ t \in linked /\ Unsubscribe({t})
  /\ Misses(t, Announced(events[t]))
  /\ UNCHANGED <<hostVars, userVars, prompts>>

(* The page is loaded again: the server does not repeat its prompts.       *)
Reload(t) ==
  /\ Upset /\ t \in linked /\ Unsubscribe({t})
  /\ Misses(t, Announced(events[t]) \cup ToSet(prompts[t]))
  /\ prompts' = [prompts EXCEPT ![t] = <<>>]
  /\ UNCHANGED <<hostVars, userVars>>

(* The process ends, and with it every wait and every socket.              *)
Restart ==
  /\ Upset /\ Unsubscribe(Tab)
  /\ pc' = [s \in Session |-> IF pc[s] = "new" THEN "new" ELSE "over"]
  /\ pending' = {}
  /\ missed' = [t \in Tab |-> {}]
  /\ UNCHANGED <<verdict, userVars, prompts>>

Connect(t) == Subscribe(t) /\ UNCHANGED <<hostVars, userVars, prompts, missed, upsets>>

Next ==
  \/ \E s \in Session :
       \/ Open(s) \/ Ask(s) \/ TimeOut(s) \/ GiveUp(s) \/ Decided(s)
       \/ CancelPending(s)
  \/ \E p \in posts : PostDecision(p)
  \/ \E t \in Tab :
       \/ Connect(t) \/ HandleEvent(t) \/ Countdown(t)
       \/ \E a \in Answer : Click(t, a)
       \/ Disconnect(t) \/ Reload(t)
  \/ Restart

Spec == Init /\ [][Next]_vars

(* The tab's timers and event loop turn and a wait ends; nobody has to     *)
(* click.                                                                  *)
FairSpec ==
  /\ Spec
  /\ \A t \in Tab : WF_vars(HandleEvent(t) \/ Countdown(t))
  /\ \A s \in Session : WF_vars(Ask(s) \/ TimeOut(s) \/ GiveUp(s) \/ Decided(s))

---------------------------------------------------------------------------
(* A session that waits for the user has its prompt on screen, or on its   *)
(* way, in every tab that could get it: whatever other prompts come, go,   *)
(* time out or are answered elsewhere, a prompt leaves a tab only with its *)
(* own session (app.js:171).                                               *)
PromptShown ==
  \A s \in pending, t \in linked :
    pc[s] = "asking" => s \in ToSet(prompts[t]) \cup Announced(events[t]) \cup missed[t]

(* Of the tabs that answer, nobody is told "ok" and overruled by another   *)
(* answer or a cancel: what was answered with ok is the verdict, or the    *)
(* wait was just timing out, which rejects (state.rs:321, 339).            *)
AckedIsVerdict ==
  \A p \in acked : verdict[p.session] \in {p.answer, "timeout"}

---------------------------------------------------------------------------
(* The host seen as what it promises whoever answers.                      *)
Stage(s) ==
  CASE pc[s] \in {"new", "open"}     -> "before"
    [] pc[s] = "asking"             -> "asking"
    [] pc[s] = "timedout"           -> "late"
    [] pc[s] \in {"expired", "over"} -> "over"

Answers == INSTANCE Answering
  WITH Restarts <- MaxUpsets > 0,
       stage   <- [s \in Session |-> Stage(s)],
       open    <- pending,
       verdict <- [s \in Session |-> IF verdict[s] = "timeout" THEN "no" ELSE verdict[s]]

(* However many tabs answer, cancel or come too late, one answer counts:   *)
(* whoever takes the channel out of pending first settles the session, and *)
(* what he said stands unless the wait was timing out (state.rs:325-345).  *)
AnsweredOnce == Answers!Spec

(* No prompt stays on screen for ever, there are only so many sessions:    *)
(* where Decided does not come, as the tab lagged, was cut off or the host *)
(* was started again, the countdown takes it away (app.js:212).            *)
StalePromptsGo == []<>(\A t \in Tab : prompts[t] = <<>>)
=============================================================================
