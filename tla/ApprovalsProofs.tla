--------------------------- MODULE ApprovalsProofs ---------------------------
(***************************************************************************)
(* What holds of the prompts for any number of sessions, of tabs, of       *)
(* answers given at the same time and of restarts: nobody who was told     *)
(* that his answer counted is overruled (AckedCounts), every variable has  *)
(* its type (TypesHold), and no tab loses the prompt of a session that     *)
(* waits to the comings and goings of others (PromptsStay).                *)
(***************************************************************************)
EXTENDS Approvals, EventsProofs

(* An answer is final because the channel it went through has left pending *)
(* with it, and a session puts a channel there only once, before anybody   *)
(* can have answered.                                                      *)
AnswerInv ==
  /\ DOMAIN pc = Session /\ DOMAIN verdict = Session /\ pending \subseteq Session
  /\ \A p \in acked :
       /\ p.session \in Session \ pending /\ pc[p.session] \notin {"new", "open"}
       /\ verdict[p.session] \in {p.answer, "timeout"}

(* The steps of a session that leave pending and the answers alone, or     *)
(* only take something out of pending.                                     *)
LEMMA PhaseStep ==
  ASSUME AnswerInv, NEW s \in Session, NEW from, NEW to, Goes(s, from, to),
         to \notin {"new", "open"} \/ from = "new",
         pending' \subseteq pending, UNCHANGED <<acked, verdict>>
  PROVE  AnswerInv'
<1>1. DOMAIN pc' = Session /\ pc'[s] = to /\ \A x \in Session : x # s => pc'[x] = pc[x]
  BY DEF Goes, AnswerInv
<1>2. ASSUME NEW p \in acked'
      PROVE  /\ p.session \in Session \ pending' /\ pc'[p.session] \notin {"new", "open"}
             /\ verdict'[p.session] \in {p.answer, "timeout"}
  <2>1. p.session \in Session /\ p.session \notin pending /\ pc[p.session] \notin {"new", "open"}
    BY DEF AnswerInv
  <2> QED
    BY <1>1, <2>1 DEF AnswerInv, Goes
<1> QED
  BY <1>1, <1>2 DEF AnswerInv

(* Whoever takes a channel out of pending settles no other session, and    *)
(* his own only if nobody has before.                                      *)
LEMMA SendStep ==
  ASSUME AnswerInv, NEW s, NEW a, TakesOut(s), Sends(s, a), UNCHANGED pc
  PROVE  /\ DOMAIN verdict' = Session
         /\ \A p \in acked :
              /\ p.session \in Session \ pending' /\ pc'[p.session] \notin {"new", "open"}
              /\ verdict'[p.session] \in {p.answer, "timeout"}
         /\ s \notin pending'
         /\ Listens(s) => verdict'[s] = a
<1>1. s \notin pending' /\ pending' = pending \ {s}
  BY DEF TakesOut
<1>2. /\ DOMAIN verdict' = Session
      /\ \A x \in Session : x # s \/ s \notin pending => verdict'[x] = verdict[x]
      /\ Listens(s) => verdict'[s] = a
  BY DEF Sends, Listens, AnswerInv
<1>3. ASSUME NEW p \in acked
      PROVE  /\ p.session \in Session \ pending' /\ pc'[p.session] \notin {"new", "open"}
             /\ verdict'[p.session] \in {p.answer, "timeout"}
  <2>1. p.session \in Session /\ p.session \notin pending
    BY DEF AnswerInv
  <2>2. verdict'[p.session] = verdict[p.session]
    BY <1>2, <2>1
  <2> QED
    BY <1>1, <2>1, <2>2 DEF AnswerInv
<1> QED
  BY <1>1, <1>2, <1>3

(* The task of a session.                                                  *)
LEMMA SessionStep ==
  ASSUME AnswerInv, NEW s \in Session,
         Open(s) \/ Ask(s) \/ TimeOut(s) \/ GiveUp(s) \/ Decided(s) \/ CancelPending(s)
  PROVE  AnswerInv'
<1>1. CASE Open(s)
  BY <1>1, PhaseStep DEF Open, userVars
<1>2. CASE Ask(s)
  <2>1. /\ DOMAIN pc' = Session /\ pc'[s] = "asking" /\ pc[s] = "open"
        /\ \A x \in Session : x # s => pc'[x] = pc[x]
    BY <1>2 DEF Ask, Goes, AnswerInv
  <2>2. ASSUME NEW p \in acked
        PROVE  p.session \in Session \ pending' /\ pc'[p.session] \notin {"new", "open"}
    <3>1. p.session \in Session /\ p.session \notin pending /\ pc[p.session] \notin {"new", "open"}
      BY DEF AnswerInv
    <3>2. p.session # s
      BY <2>1, <3>1
    <3> QED
      BY <1>2, <2>1, <3>1, <3>2 DEF Ask
  <2> QED
    BY <1>2, <2>1, <2>2 DEF Ask, AnswerInv, userVars
<1>3. CASE TimeOut(s)
  BY <1>3, PhaseStep DEF TimeOut, userVars
<1>4. CASE GiveUp(s)
  <2>1. /\ DOMAIN pc' = Session /\ pc'[s] = "expired"
        /\ \A x \in Session : x # s => pc'[x] = pc[x]
    BY <1>4 DEF GiveUp, Goes, AnswerInv
  <2>2. /\ DOMAIN verdict' = Session /\ verdict'[s] = "timeout"
        /\ \A x \in Session : x # s => verdict'[x] = verdict[x]
    BY <1>4 DEF GiveUp, AnswerInv
  <2>3. ASSUME NEW p \in acked
        PROVE  pc'[p.session] \notin {"new", "open"} /\ verdict'[p.session] \in {p.answer, "timeout"}
    <3>1. /\ p.session \in Session /\ pc[p.session] \notin {"new", "open"}
          /\ verdict[p.session] \in {p.answer, "timeout"}
      BY DEF AnswerInv
    <3> QED
      BY <2>1, <2>2, <3>1
  <2> QED
    BY <1>4, <2>1, <2>2, <2>3 DEF GiveUp, AnswerInv, userVars
<1>5. CASE Decided(s)
  <2>1. pending' \subseteq pending /\ UNCHANGED <<acked, verdict>>
    BY <1>5 DEF Decided, userVars
  <2>2. CASE Goes(s, "expired", "over")
    BY <2>1, <2>2, PhaseStep
  <2>3. CASE Goes(s, "asking", "over")
    BY <2>1, <2>3, PhaseStep
  <2> QED
    BY <1>5, <2>2, <2>3 DEF Decided
<1>6. CASE CancelPending(s)
  <2>1. TakesOut(s) /\ Sends(s, "no") /\ UNCHANGED <<pc, acked>>
    BY <1>6 DEF CancelPending, userVars
  <2>2. pending' \subseteq Session
    BY <2>1 DEF TakesOut, AnswerInv
  <2>3. DOMAIN verdict' = Session /\ \A p \in acked :
          /\ p.session \in Session \ pending' /\ pc'[p.session] \notin {"new", "open"}
          /\ verdict'[p.session] \in {p.answer, "timeout"}
    BY <2>1, SendStep
  <2> QED
    BY <2>1, <2>2, <2>3 DEF AnswerInv
<1> QED
  BY <1>1, <1>2, <1>3, <1>4, <1>5, <1>6

(* An answer from a page.                                                  *)
LEMMA AnswerStep ==
  ASSUME AnswerInv, NEW p \in posts, PostDecision(p)
  PROVE  AnswerInv'
<1>1. TakesOut(p.session) /\ Sends(p.session, p.answer) /\ UNCHANGED pc
  BY DEF PostDecision
<1>2. /\ DOMAIN verdict' = Session
      /\ \A q \in acked :
           /\ q.session \in Session \ pending' /\ pc'[q.session] \notin {"new", "open"}
           /\ verdict'[q.session] \in {q.answer, "timeout"}
      /\ p.session \notin pending'
      /\ Listens(p.session) => verdict'[p.session] = p.answer
  BY <1>1, SendStep
<1>3. Listens(p.session) => p.session \in Session /\ pc'[p.session] \notin {"new", "open"}
  BY <1>1 DEF Listens, AnswerInv
<1>4. pending' \subseteq Session /\ DOMAIN pc' = Session
  BY <1>1 DEF TakesOut, AnswerInv
<1>5. ASSUME NEW q \in acked'
      PROVE  /\ q.session \in Session \ pending' /\ pc'[q.session] \notin {"new", "open"}
             /\ verdict'[q.session] \in {q.answer, "timeout"}
  <2>1. q \in acked \/ (q = p /\ Listens(p.session))
    BY DEF PostDecision
  <2> QED
    BY <1>2, <1>3, <2>1
<1> QED
  BY <1>2, <1>4, <1>5 DEF AnswerInv

(* The pages, and the user who answers in one of them.                     *)
LEMMA TabStep ==
  ASSUME AnswerInv, NEW t \in Tab,
         \/ Connect(t) \/ HandleEvent(t) \/ Countdown(t)
         \/ \E a \in Answer : Click(t, a)
         \/ Disconnect(t) \/ Reload(t)
  PROVE  AnswerInv'
<1>1. CASE Connect(t) \/ HandleEvent(t) \/ Countdown(t) \/ Disconnect(t) \/ Reload(t)
  BY <1>1 DEF Connect, HandleEvent, Countdown, Disconnect, Reload, hostVars, userVars, AnswerInv
<1>2. ASSUME NEW a \in Answer, Click(t, a) PROVE AnswerInv'
  BY <1>2 DEF Click, hostVars, userVars, AnswerInv
<1> QED
  BY <1>1, <1>2

(* The process ends.                                                       *)
LEMMA RestartStep == ASSUME AnswerInv, Restart PROVE AnswerInv'
<1>1. pending' = {} /\ DOMAIN pc' = Session /\ UNCHANGED <<verdict, acked>>
  BY DEF Restart, userVars
<1>2. \A s \in Session : pc[s] # "new" => pc'[s] \notin {"new", "open"}
  BY DEF Restart
<1> QED
  BY <1>1, <1>2 DEF AnswerInv

(* Every step keeps the answers final.                                     *)
LEMMA AnswerInvHolds == Spec => []AnswerInv
<1>1. Init => AnswerInv
  BY DEF Init, AnswerInv
<1>2. AnswerInv /\ [Next]_vars => AnswerInv'
  <2> SUFFICES ASSUME AnswerInv, [Next]_vars PROVE AnswerInv'
    OBVIOUS
  <2>1. CASE Next
    BY <2>1, SessionStep, AnswerStep, TabStep, RestartStep DEF Next
  <2>2. CASE UNCHANGED vars
    BY <2>2 DEF vars, hostVars, userVars, AnswerInv
  <2> QED
    BY <2>1, <2>2
<1> QED
  BY <1>1, <1>2, PTL DEF Spec

---------------------------------------------------------------------------
(* Whoever is told that his answer counted is not overruled: it is the     *)
(* verdict of the session, unless the wait was timing out just then        *)
(* (state.rs:321, 339).                                                    *)
THEOREM AckedCounts == Spec => []AckedIsVerdict
<1>1. AnswerInv => AckedIsVerdict
  BY DEF AnswerInv, AckedIsVerdict
<1> QED
  BY <1>1, AnswerInvHolds, PTL

---------------------------------------------------------------------------
(* What the operators on the queues of a tab do.                           *)

(* queueIncoming puts a prompt at the end of the queue, unless it is there. *)
LEMMA WithPrompt ==
  ASSUME NEW q \in Seq(Session), NEW s \in Session
  PROVE  /\ With(q, s) \in Seq(Session)
         /\ ToSet(With(q, s)) = ToSet(q) \cup {s}
         /\ IsInjective(q) => IsInjective(With(q, s))
<1>1. DOMAIN q = 1 .. Len(q) /\ Len(q) \in Nat
  OBVIOUS
<1>2. CASE Contains(q, s)
  BY <1>1, <1>2 DEF With, Contains, ToSet
<1>3. CASE ~Contains(q, s)
  <2> DEFINE r == Append(q, s)
  <2>1. With(q, s) = r
    BY <1>3 DEF With
  <2>2. r \in Seq(Session) /\ ToSet(r) = ToSet(q) \cup {s}
    BY AppendSet
  <2>3. /\ DOMAIN r = 1 .. Len(q) + 1 /\ r[Len(q) + 1] = s
        /\ \A i \in 1 .. Len(q) : r[i] = q[i] /\ q[i] # s
    BY <1>1, <1>3 DEF Contains
  <2>4. ASSUME IsInjective(q) PROVE IsInjective(r)
    <3>1. ASSUME NEW a \in 1 .. Len(q) + 1, NEW b \in 1 .. Len(q) + 1, r[a] = r[b]
          PROVE  a = b
      <4>1. CASE a \in 1 .. Len(q) /\ b \in 1 .. Len(q)
        BY <1>1, <2>3, <2>4, <3>1, <4>1 DEF IsInjective
      <4>2. CASE a = Len(q) + 1 \/ b = Len(q) + 1
        BY <1>1, <2>3, <3>1, <4>2
      <4> QED
        BY <1>1, <4>1, <4>2
    <3> QED
      BY <2>3, <3>1 DEF IsInjective
  <2> QED
    BY <2>1, <2>2, <2>4
<1> QED
  BY <1>2, <1>3

(* dismissIncoming takes one prompt from the queue, the one it is asked to. *)
LEMMA WithoutPrompt ==
  ASSUME NEW q \in Seq(Session), NEW s \in Session
  PROVE  /\ Without(q, s) \in Seq(Session)
         /\ ToSet(q) \subseteq ToSet(Without(q, s)) \cup {s}
         /\ IsInjective(q) => IsInjective(Without(q, s))
<1>1. DOMAIN q = 1 .. Len(q) /\ Len(q) \in Nat
  OBVIOUS
<1>2. CASE ~\E i \in 1 .. Len(q) : q[i] = s
  BY <1>2 DEF Without, RemoveFirst
<1>3. CASE \E i \in 1 .. Len(q) : q[i] = s
  <2> DEFINE I == {i \in 1 .. Len(q) : q[i] = s}
             k == Min(I)
             r == Without(q, s)
  <2>1. r = RemoveAt(q, k)
    BY <1>3 DEF Without, RemoveFirst, SelectInSeq
  <2>2. k \in I
    <3>1. I \in SUBSET Nat /\ I # {}
      BY <1>3
    <3> HIDE DEF I
    <3> QED
      BY <3>1, LeastIsMember
  <2>3. k \in 1 .. Len(q) /\ q[k] = s
    BY <2>2
  <2> HIDE DEF k
  <2>4. /\ SubSeq(q, 1, k - 1) \in Seq(Session) /\ Len(SubSeq(q, 1, k - 1)) = k - 1
        /\ \A i \in 1 .. k - 1 : SubSeq(q, 1, k - 1)[i] = q[i]
    BY <1>1, <2>3
  <2>5. /\ SubSeq(q, k + 1, Len(q)) \in Seq(Session) /\ Len(SubSeq(q, k + 1, Len(q))) = Len(q) - k
        /\ \A i \in 1 .. Len(q) - k : SubSeq(q, k + 1, Len(q))[i] = q[i + k]
    <3>1. k + 1 \in 1 .. Len(q) + 1 /\ Len(q) \in (k + 1) - 1 .. Len(q)
      BY <1>1, <2>3
    <3>2. Len(q) - (k + 1) + 1 = Len(q) - k
      BY <1>1, <2>3
    <3>3. \A i \in 1 .. Len(q) - k : (k + 1) + i - 1 = i + k
      BY <1>1, <2>3
    <3> QED
      BY <3>1, <3>2, <3>3, SubSeqProperties
  <2>6. /\ r \in Seq(Session) /\ Len(r) = Len(q) - 1 /\ DOMAIN r = 1 .. Len(q) - 1
        /\ \A i \in 1 .. Len(q) - 1 : r[i] = IF i < k THEN q[i] ELSE q[i + 1]
    <3> DEFINE u == SubSeq(q, 1, k - 1)
               v == SubSeq(q, k + 1, Len(q))
    <3>1. r = u \o v
      BY <2>1 DEF RemoveAt
    <3>2. /\ u \in Seq(Session) /\ Len(u) = k - 1 /\ \A i \in 1 .. k - 1 : u[i] = q[i]
          /\ v \in Seq(Session) /\ Len(v) = Len(q) - k
          /\ \A i \in 1 .. Len(q) - k : v[i] = q[i + k]
      BY <2>4, <2>5
    <3> HIDE DEF u, v, r
    <3>3. /\ r \in Seq(Session) /\ Len(r) = Len(u) + Len(v) /\ DOMAIN r = 1 .. Len(r)
          /\ \A i \in 1 .. Len(u) + Len(v) : r[i] = IF i <= Len(u) THEN u[i] ELSE v[i - Len(u)]
      <4>1. /\ r \in Seq(Session) /\ Len(r) = Len(u) + Len(v)
            /\ \A i \in 1 .. Len(u) + Len(v) : r[i] = IF i <= Len(u) THEN u[i] ELSE v[i - Len(u)]
        BY <3>1, <3>2, ConcatProperties
      <4>2. DOMAIN r = 1 .. Len(r)
        BY <4>1
      <4> QED
        BY <4>1, <4>2
    <3>4. Len(u) + Len(v) = Len(q) - 1
      BY <1>1, <2>3, <3>2
    <3>5. ASSUME NEW i \in 1 .. Len(q) - 1
          PROVE  r[i] = IF i < k THEN q[i] ELSE q[i + 1]
      <4>1. CASE i < k
        <5>1. i \in 1 .. k - 1 /\ i \in 1 .. Len(u) + Len(v) /\ i <= Len(u)
          BY <1>1, <2>3, <3>2, <3>4, <4>1
        <5> QED
          BY <3>2, <3>3, <4>1, <5>1
      <4>2. CASE ~(i < k)
        <5>1. i - (k - 1) \in 1 .. Len(q) - k /\ (i - (k - 1)) + k = i + 1 /\ ~(i <= Len(u))
          BY <1>1, <2>3, <3>2, <4>2
        <5>2. r[i] = v[i - (k - 1)]
          BY <3>2, <3>3, <3>4, <5>1
        <5>3. v[i - (k - 1)] = q[i + 1]
          BY <3>2, <5>1
        <5> QED
          BY <4>2, <5>2, <5>3
      <4> QED
        BY <4>1, <4>2
    <3> QED
      BY <3>3, <3>4, <3>5
  <2> HIDE DEF r
  <2>7. ASSUME NEW i \in 1 .. Len(q), q[i] # s PROVE q[i] \in ToSet(r)
    <3>1. CASE i < k
      <4>1. i \in DOMAIN r /\ r[i] = q[i]
        BY <1>1, <2>3, <2>6, <3>1
      <4> QED
        BY <4>1 DEF ToSet
    <3>2. CASE i > k
      <4>1. i - 1 \in DOMAIN r /\ r[i - 1] = q[i]
        BY <1>1, <2>3, <2>6, <3>2
      <4> QED
        BY <4>1 DEF ToSet
    <3> QED
      BY <1>1, <2>3, <2>7, <3>1, <3>2
  <2>8. ToSet(q) \subseteq ToSet(r) \cup {s}
    BY <1>1, <2>7 DEF ToSet
  <2>9. ASSUME IsInjective(q), NEW a \in DOMAIN r, NEW b \in DOMAIN r, r[a] = r[b]
        PROVE  a = b
    <3> DEFINE at(i) == IF i < k THEN i ELSE i + 1
    <3>1. at(a) \in DOMAIN q /\ at(b) \in DOMAIN q /\ r[a] = q[at(a)] /\ r[b] = q[at(b)]
      BY <1>1, <2>3, <2>6
    <3>2. at(a) = at(b)
      BY <2>9, <3>1 DEF IsInjective
    <3> QED
      BY <1>1, <2>3, <2>6, <3>2
  <2>10. IsInjective(q) => IsInjective(r)
    BY <2>9 DEF IsInjective
  <2> QED
    BY <2>6, <2>8, <2>10 DEF r
<1> QED
  BY <1>2, <1>3

---------------------------------------------------------------------------
Happening == [type : {"incoming", "decided"}, session : Session]

(* The inductive form of TypeOK: the queues are sequences.                 *)
QueueInv ==
  /\ linked \subseteq Tab
  /\ Channels(Happening)
  /\ prompts \in [Tab -> Seq(Session)] /\ \A t \in Tab : IsInjective(prompts[t])
  /\ pc \in [Session -> Phase]
  /\ pending \subseteq Session
  /\ verdict \in [Session -> Answer \cup {"none", "timeout"}]
  /\ posts \subseteq Decision /\ acked \subseteq Decision
  /\ missed \in [Tab -> SUBSET Session]
  /\ upsets \in 0 .. MaxUpsets

(* No tab loses the prompt of a session from the time it is sent out until *)
(* the wait is over but by a cause "missed" names: Decided comes only when *)
(* the wait is over, so what is dismissed is not waited for.               *)
PromptInv ==
  \A t \in Tab :
    /\ \A e \in ToSet(events[t]) : e.type = "decided" => pc[e.session] = "over"
    /\ \A s \in Session :
         pc[s] \in {"open", "asking"} =>
           s \in ToSet(prompts[t]) \cup Announced(events[t]) \cup missed[t]

(* What Tell announces reaches a tab or is counted as missed by it, and    *)
(* what was announced before it is not forgotten either.                   *)
LEMMA TellEffect ==
  ASSUME QueueInv, NEW e \in Happening, Tell(e)
  PROVE  /\ missed' \in [Tab -> SUBSET Session]
         /\ \A t \in Tab, s \in Session :
              /\ pc'[s] # "over"
              /\ \/ s \in Announced(events[t]) \cup missed[t]
                 \/ e.type = "incoming" /\ s = e.session
              => s \in Announced(events'[t]) \cup missed'[t]
<1>1. ASSUME NEW t \in Tab
      PROVE  /\ Announced(Append(events[t], e)) \subseteq Session
             /\ Announced(events[t]) \subseteq Announced(Append(events[t], e))
             /\ e.type = "incoming" => e.session \in Announced(Append(events[t], e))
  <2>1. events[t] \in Seq(Happening) /\ ToSet(events[t]) \subseteq Happening
    BY DEF Channels, QueueInv, ToSet
  <2>2. ToSet(Append(events[t], e)) = ToSet(events[t]) \cup {e}
    BY <2>1, AppendSet
  <2> QED
    BY <2>1, <2>2 DEF Announced, Happening
<1> DEFINE kept(t) == {s \in missed[t] \cup (Announced(Append(events[t], e)) \ Announced(events'[t])) :
                         pc'[s] # "over"}
<1>2. missed' = [t \in Tab |-> kept(t)]
  BY DEF Tell
<1>3. \A t \in Tab : kept(t) \subseteq Session
  BY <1>1 DEF QueueInv
<1> QED
  BY <1>1, <1>2, <1>3

(* The shape of the state is kept by the task of a session ...             *)
LEMMA SessionShape ==
  ASSUME QueueInv, NEW s \in Session,
         Open(s) \/ Ask(s) \/ TimeOut(s) \/ GiveUp(s) \/ Decided(s) \/ CancelPending(s)
  PROVE  QueueInv'
<1>1. ASSUME NEW from, NEW to \in Phase, Goes(s, from, to)
      PROVE  pc' \in [Session -> Phase]
  BY <1>1 DEF Goes, QueueInv
<1>2. "incoming" \in {"incoming", "decided"} /\ "decided" \in {"incoming", "decided"}
  OBVIOUS
<1>3. Event("incoming", s) \in Happening /\ Event("decided", s) \in Happening
  BY DEF Event, Happening
<1>4. CASE Open(s)
  <2>1. Tell(Event("incoming", s)) /\ pc' \in [Session -> Phase]
    BY <1>1, <1>4 DEF Open, Phase
  <2>2. Emit(Event("incoming", s))
    BY <2>1 DEF Tell
  <2> QED
    BY <1>3, <1>4, <2>1, <2>2, EmitEffect, TellEffect DEF Open, QueueInv, userVars
<1>5. CASE Decided(s)
  <2>1. Tell(Event("decided", s)) /\ pc' \in [Session -> Phase]
    BY <1>1, <1>5 DEF Decided, Phase
  <2>2. Emit(Event("decided", s))
    BY <2>1 DEF Tell
  <2>3. pending' \subseteq Session
    BY <1>5 DEF Decided, QueueInv
  <2> QED
    BY <1>3, <1>5, <2>1, <2>2, <2>3, EmitEffect, TellEffect DEF Decided, QueueInv, userVars
<1>6. CASE Ask(s) \/ TimeOut(s)
  <2>1. pc' \in [Session -> Phase] /\ pending' \subseteq Session
    BY <1>1, <1>6 DEF Ask, TimeOut, Phase, QueueInv
  <2> QED
    BY <1>6, <2>1 DEF Channels, Ask, TimeOut, QueueInv, userVars, linkVars
<1>7. CASE GiveUp(s)
  <2>1. pc' \in [Session -> Phase] /\ verdict' \in [Session -> Answer \cup {"none", "timeout"}]
    BY <1>1, <1>7 DEF GiveUp, Phase, QueueInv
  <2> QED
    BY <1>7, <2>1 DEF Channels, GiveUp, QueueInv, userVars, linkVars
<1>8. CASE CancelPending(s)
  <2>1. pending' \subseteq Session /\ verdict' \in [Session -> Answer \cup {"none", "timeout"}]
    BY <1>8 DEF CancelPending, TakesOut, Sends, Answer, QueueInv
  <2> QED
    BY <1>8, <2>1 DEF Channels, CancelPending, QueueInv, userVars, linkVars
<1> QED
  BY <1>4, <1>5, <1>6, <1>7, <1>8

(* ... by an answer that comes in ...                                      *)
LEMMA AnswerShape ==
  ASSUME QueueInv, NEW p \in posts, PostDecision(p)
  PROVE  QueueInv'
<1>1. p \in Decision /\ p.answer \in Answer /\ p.session \in Session
  BY DEF QueueInv, Decision
<1>2. /\ pending' \subseteq Session /\ verdict' \in [Session -> Answer \cup {"none", "timeout"}]
      /\ posts' \subseteq Decision /\ acked' \subseteq Decision
  BY <1>1 DEF PostDecision, TakesOut, Sends, QueueInv
<1> QED
  BY <1>2 DEF Channels, PostDecision, QueueInv, linkVars

(* What a tab reads is what has come first, and it goes from the channel.  *)
LEMMA ReadEffect ==
  ASSUME QueueInv, NEW t \in Tab, HandleEvent(t)
  PROVE  LET e == Head(events[t])
         IN  /\ e \in Happening
             /\ ToSet(events[t]) = ToSet(events'[t]) \cup {e}
             /\ Channels(Happening)'
             /\ \A u \in Tab : u # t => events'[u] = events[u] /\ prompts'[u] = prompts[u]
             /\ prompts' \in [Tab -> Seq(Session)]
             /\ prompts'[t] = IF e.type = "incoming" THEN With(prompts[t], e.session)
                              ELSE Without(prompts[t], e.session)
<1> DEFINE e == Head(events[t])
<1>1. events[t] # <<>> /\ events' = [events EXCEPT ![t] = Tail(@)] /\ Channels(Happening)
  BY DEF HandleEvent, QueueInv
<1>2. /\ Channels(Happening)' /\ e \in Happening
      /\ ToSet(events[t]) = ToSet(events'[t]) \cup {e}
      /\ \A u \in Tab : u # t => events'[u] = events[u]
  BY <1>1, NextEvent
<1>5. e.type \in {"incoming", "decided"} /\ e.session \in Session
  BY <1>2 DEF Happening
<1>6. prompts' = [prompts EXCEPT ![t] = IF e.type = "incoming" THEN With(prompts[t], e.session)
                                        ELSE Without(prompts[t], e.session)]
  BY <1>5 DEF HandleEvent
<1>7. /\ With(prompts[t], e.session) \in Seq(Session)
      /\ Without(prompts[t], e.session) \in Seq(Session)
  BY <1>5, WithPrompt, WithoutPrompt DEF QueueInv
<1> HIDE DEF e
<1>8. /\ prompts' \in [Tab -> Seq(Session)]
      /\ prompts'[t] = IF e.type = "incoming" THEN With(prompts[t], e.session)
                       ELSE Without(prompts[t], e.session)
      /\ \A u \in Tab : u # t => prompts'[u] = prompts[u]
  BY <1>6, <1>7 DEF QueueInv
<1> QED
  BY <1>2, <1>8 DEF e

(* ... by a tab ...                                                        *)
LEMMA TabShape ==
  ASSUME QueueInv, NEW t \in Tab,
         \/ Connect(t) \/ HandleEvent(t) \/ Countdown(t)
         \/ \E a \in Answer : Click(t, a)
         \/ Disconnect(t) \/ Reload(t)
  PROVE  QueueInv'
<1>1. ASSUME NEW q \in Seq(Session), IsInjective(q),
             prompts' = [prompts EXCEPT ![t] = q]
      PROVE  prompts' \in [Tab -> Seq(Session)] /\ \A u \in Tab : IsInjective(prompts'[u])
  BY <1>1 DEF QueueInv
<1>2. CASE Connect(t)
  BY <1>2 DEF Channels, Connect, Subscribe, QueueInv, hostVars, userVars
<1>3. CASE HandleEvent(t)
  <2>1. \A u \in Tab : IsInjective(prompts'[u])
    <3>1. Head(events[t]).session \in Session
      BY <1>3, ReadEffect DEF Happening
    <3>2. IsInjective(prompts'[t])
      BY <1>3, <3>1, ReadEffect, WithPrompt, WithoutPrompt DEF QueueInv
    <3> QED
      BY <1>3, <3>2, ReadEffect DEF QueueInv
  <2> QED
    BY <1>3, <2>1, ReadEffect DEF HandleEvent, QueueInv, hostVars, userVars
<1>4. CASE Countdown(t)
  <2>1. Tail(prompts[t]) \in Seq(Session) /\ IsInjective(Tail(prompts[t]))
    <3> DEFINE q == prompts[t]
               r == Tail(q)
    <3>1. q \in Seq(Session) /\ q # <<>> /\ IsInjective(q)
      BY <1>4 DEF Countdown, QueueInv
    <3> HIDE DEF q
    <3>2. Len(q) \in Nat \ {0} /\ DOMAIN q = 1 .. Len(q)
      BY <3>1
    <3>3. r \in Seq(Session) /\ DOMAIN r = 1 .. Len(q) - 1 /\ \A i \in 1 .. Len(q) - 1 : r[i] = q[i + 1]
      BY <3>1, <3>2
    <3> HIDE DEF r
    <3>4. ASSUME NEW a \in DOMAIN r, NEW b \in DOMAIN r, r[a] = r[b]
          PROVE  a = b
      <4>1. a + 1 \in DOMAIN q /\ b + 1 \in DOMAIN q /\ q[a + 1] = q[b + 1]
        BY <3>2, <3>3, <3>4
      <4> QED
        BY <3>1, <3>3, <4>1 DEF IsInjective
    <3>5. r \in Seq(Session) /\ IsInjective(r)
      BY <3>3, <3>4 DEF IsInjective
    <3> QED
      BY <3>5 DEF q, r
  <2>2. prompts' \in [Tab -> Seq(Session)] /\ \A u \in Tab : IsInjective(prompts'[u])
    BY <1>1, <1>4, <2>1 DEF Countdown, AtZero
  <2> QED
    BY <1>4, <2>2 DEF Channels, Countdown, QueueInv, linkVars, hostVars, userVars
<1>5. ASSUME NEW ss \in SUBSET Session, Misses(t, ss) PROVE missed' \in [Tab -> SUBSET Session]
  BY <1>5 DEF Misses, QueueInv
<1>6. ASSUME NEW a \in Answer, Click(t, a) PROVE QueueInv'
  <2>1. Head(prompts[t]) \in Session
    BY <1>6, TailSet DEF Click, QueueInv
  <2>2. missed' \in [Tab -> SUBSET Session]
    BY <1>5, <1>6, <2>1 DEF Click
  <2>3. posts' \subseteq Decision
    BY <1>6, <2>1 DEF Click, Decision, QueueInv
  <2>4. prompts' \in [Tab -> Seq(Session)] /\ \A u \in Tab : IsInjective(prompts'[u])
    BY <1>1, <1>6, <2>1, WithoutPrompt DEF Click, QueueInv
  <2> QED
    BY <1>6, <2>2, <2>3, <2>4 DEF Channels, Click, QueueInv, linkVars, hostVars
<1>7. Announced(events[t]) \subseteq Session /\ ToSet(prompts[t]) \subseteq Session
  <2>1. ToSet(events[t]) \subseteq Happening /\ ToSet(prompts[t]) \subseteq Session
    BY ElementsOf DEF Channels, QueueInv
  <2> QED
    BY <2>1 DEF Announced, Happening
<1>8. CASE Disconnect(t) \/ Reload(t)
  <2>1. missed' \in [Tab -> SUBSET Session]
    BY <1>5, <1>7, <1>8 DEF Disconnect, Reload
  <2>2. prompts' \in [Tab -> Seq(Session)] /\ \A u \in Tab : IsInjective(prompts'[u])
    <3>1. <<>> \in Seq(Session) /\ IsInjective(<<>>)
      BY DEF IsInjective
    <3> QED
      BY <1>1, <1>8, <3>1 DEF Disconnect, Reload, QueueInv
  <2>3. Channels(Happening)' /\ linked' \subseteq Tab
    BY <1>8, UnsubscribeEffect DEF Disconnect, Reload, QueueInv
  <2>4. upsets' \in 0 .. MaxUpsets
    BY <1>8, ApprovalsAssumption DEF Disconnect, Reload, Upset, QueueInv
  <2> QED
    BY <1>8, <2>1, <2>2, <2>3, <2>4 DEF Disconnect, Reload, QueueInv, hostVars, userVars
<1> QED
  BY <1>2, <1>3, <1>4, <1>6, <1>8

(* ... and by a restart.                                                   *)
LEMMA RestartShape == ASSUME QueueInv, Restart PROVE QueueInv'
<1>1. Channels(Happening)' /\ linked' \subseteq Tab
  BY UnsubscribeEffect DEF Restart, QueueInv
<1>2. upsets' \in 0 .. MaxUpsets
  BY ApprovalsAssumption DEF Restart, Upset, QueueInv
<1>3. pc' \in [Session -> Phase] /\ pending' \subseteq Session /\ missed' \in [Tab -> SUBSET Session]
  BY DEF Restart, Phase, QueueInv
<1> QED
  BY <1>1, <1>2, <1>3 DEF Restart, QueueInv, userVars

(* So it is every state's.                                                 *)
LEMMA QueueInvHolds == Spec => []QueueInv
<1>1. Init => QueueInv
  BY EventsAssumption, ApprovalsAssumption DEF Channels, Init, QueueInv, Phase, IsInjective
<1>2. QueueInv /\ [Next]_vars => QueueInv'
  <2> SUFFICES ASSUME QueueInv, [Next]_vars PROVE QueueInv'
    OBVIOUS
  <2>1. CASE Next
    BY <2>1, SessionShape, AnswerShape, TabShape, RestartShape DEF Next
  <2>2. CASE UNCHANGED vars
    BY <2>2 DEF Channels, vars, linkVars, hostVars, userVars, QueueInv
  <2> QED
    BY <2>1, <2>2
<1> QED
  BY <1>1, <1>2, PTL DEF Spec

(* Every variable has its type: no tab shows a session twice, and no       *)
(* channel holds more than Capacity (state.rs:83, app.js:161).             *)
THEOREM TypesHold == Spec => []TypeOK
<1>1. QueueInv => TypeOK
  <2> SUFFICES ASSUME QueueInv PROVE TypeOK
    OBVIOUS
  <2>1. \A t \in Tab : ToSet(events[t]) \subseteq Happening /\ ToSet(prompts[t]) \subseteq Session
    BY ElementsOf DEF Channels, QueueInv
  <2> QED
    BY <2>1 DEF Channels, QueueInv, TypeOK, Happening
<1> QED
  BY <1>1, QueueInvHolds, PTL

---------------------------------------------------------------------------
(* The task of a session: sending a prompt out makes it known to every tab *)
(* or missed by it, and Decided is sent by a session that is over.         *)
LEMMA SessionPrompts ==
  ASSUME QueueInv, PromptInv, NEW s \in Session,
         Open(s) \/ Ask(s) \/ TimeOut(s) \/ GiveUp(s) \/ Decided(s) \/ CancelPending(s)
  PROVE  PromptInv'
<1>1. ASSUME NEW from, NEW to, Goes(s, from, to)
      PROVE  pc[s] = from /\ pc'[s] = to /\ \A x \in Session : x # s => pc'[x] = pc[x]
  BY <1>1 DEF Goes, QueueInv
<1>2. ASSUME NEW e \in Happening, e.session = s, Tell(e), UNCHANGED prompts,
             pc[s] # "over",
             \A x \in Session : x # s => pc'[x] = pc[x],
             \/ e.type = "incoming" /\ pc'[s] = "open"
             \/ e.type = "decided" /\ pc'[s] = "over"
      PROVE  PromptInv'
  <2> SUFFICES ASSUME NEW t \in Tab
               PROVE  /\ \A f \in ToSet(events'[t]) : f.type = "decided" => pc'[f.session] = "over"
                      /\ \A x \in Session :
                           pc'[x] \in {"open", "asking"} =>
                             x \in ToSet(prompts'[t]) \cup Announced(events'[t]) \cup missed'[t]
    BY DEF PromptInv, Announced
  <2>1. ToSet(events[t]) \subseteq Happening
    BY ElementsOf DEF Channels, QueueInv
  <2>2. ToSet(events'[t]) \subseteq ToSet(events[t]) \cup {e}
    BY <1>2, EmitEffect DEF Tell, QueueInv
  <2>3. ASSUME NEW f \in ToSet(events'[t]), f.type = "decided" PROVE pc'[f.session] = "over"
    <3>1. CASE f = e
      BY <1>2, <2>3, <3>1
    <3>2. CASE f \in ToSet(events[t])
      <4>1. f.session \in Session /\ pc[f.session] = "over"
        BY <2>1, <2>3, <3>2 DEF PromptInv, Happening
      <4> QED
        BY <1>2, <4>1
    <3> QED
      BY <2>2, <3>1, <3>2
  <2>4. ASSUME NEW x \in Session, pc'[x] \in {"open", "asking"}
        PROVE  x \in ToSet(prompts'[t]) \cup Announced(events'[t]) \cup missed'[t]
    <3>1. pc'[x] # "over"
      BY <2>4
    <3>2. CASE x = s
      BY <1>2, <2>4, <3>1, <3>2, TellEffect
    <3>3. CASE x # s
      <4>1. x \in ToSet(prompts[t]) \cup Announced(events[t]) \cup missed[t]
        BY <1>2, <2>4, <3>3 DEF PromptInv
      <4>2. x \in Announced(events[t]) \cup missed[t] => x \in Announced(events'[t]) \cup missed'[t]
        BY <1>2, <3>1, TellEffect
      <4> QED
        BY <1>2, <4>1, <4>2
    <3> QED
      BY <3>2, <3>3
  <2> QED
    BY <2>3, <2>4
<1>3. "incoming" # "decided"
  OBVIOUS
<1>4. CASE Open(s)
  <2> DEFINE e == Event("incoming", s)
  <2>1. e \in Happening /\ e.session = s /\ e.type = "incoming"
    BY DEF Event, Happening
  <2>2. Tell(e) /\ UNCHANGED prompts /\ Goes(s, "new", "open")
    BY <1>4 DEF Open
  <2> HIDE DEF e
  <2> QED
    BY <1>1, <1>2, <2>1, <2>2
<1>5. CASE Decided(s)
  <2> DEFINE e == Event("decided", s)
  <2>1. e \in Happening /\ e.session = s /\ e.type = "decided"
    BY DEF Event, Happening
  <2>2. Tell(e) /\ UNCHANGED prompts /\ (Goes(s, "expired", "over") \/ Goes(s, "asking", "over"))
    BY <1>5 DEF Decided
  <2>3. pc[s] # "over" /\ pc'[s] = "over" /\ \A x \in Session : x # s => pc'[x] = pc[x]
    BY <1>1, <2>2
  <2> HIDE DEF e
  <2> QED
    BY <1>2, <2>1, <2>2, <2>3
<1>6. CASE Ask(s) \/ TimeOut(s) \/ GiveUp(s) \/ CancelPending(s)
  <2>1. UNCHANGED <<events, prompts, missed>>
    BY <1>6 DEF Ask, TimeOut, GiveUp, CancelPending, linkVars
  <2>2. \A x \in Session : /\ pc[x] = "over" => pc'[x] = "over"
                           /\ pc'[x] \in {"open", "asking"} => pc[x] \in {"open", "asking"}
    <3>1. CASE Ask(s)
      BY <1>1, <3>1 DEF Ask
    <3>2. CASE TimeOut(s)
      BY <1>1, <3>2 DEF TimeOut
    <3>3. CASE GiveUp(s)
      BY <1>1, <3>3 DEF GiveUp
    <3>4. CASE CancelPending(s)
      BY <3>4 DEF CancelPending
    <3> QED
      BY <1>6, <3>1, <3>2, <3>3, <3>4
  <2>3. \A t \in Tab : \A e \in ToSet(events[t]) : e.session \in Session
    <3>1. \A t \in Tab : ToSet(events[t]) \subseteq Happening
      BY ElementsOf DEF Channels, QueueInv
    <3> QED
      BY <3>1 DEF Happening
  <2> QED
    BY <2>1, <2>2, <2>3 DEF PromptInv, Announced
<1> QED
  BY <1>4, <1>5, <1>6

(* A tab: what it handles, dismisses, answers or loses.                    *)
LEMMA TabPrompts ==
  ASSUME QueueInv, PromptInv, NEW t \in Tab,
         \/ Connect(t) \/ HandleEvent(t) \/ Countdown(t)
         \/ \E a \in Answer : Click(t, a)
         \/ Disconnect(t) \/ Reload(t)
  PROVE  PromptInv'
<1>1. UNCHANGED pc
  BY DEF Connect, HandleEvent, Countdown, Click, Disconnect, Reload, hostVars
<1>2. ASSUME \A u \in Tab :
               /\ ToSet(events'[u]) \subseteq ToSet(events[u])
               /\ \A x \in Session :
                    /\ pc[x] \in {"open", "asking"}
                    /\ x \in ToSet(prompts[u]) \cup Announced(events[u]) \cup missed[u]
                    => x \in ToSet(prompts'[u]) \cup Announced(events'[u]) \cup missed'[u]
      PROVE  PromptInv'
  <2> SUFFICES ASSUME NEW u \in Tab
               PROVE  /\ \A f \in ToSet(events'[u]) : f.type = "decided" => pc'[f.session] = "over"
                      /\ \A x \in Session :
                           pc'[x] \in {"open", "asking"} =>
                             x \in ToSet(prompts'[u]) \cup Announced(events'[u]) \cup missed'[u]
    BY DEF PromptInv, Announced
  <2> QED
    BY <1>1, <1>2 DEF PromptInv
<1>3. CASE Connect(t)
  BY <1>2, <1>3 DEF Connect, Subscribe
<1>4. CASE HandleEvent(t)
  <2> DEFINE e == Head(events[t])
  <2>1. /\ e \in Happening /\ ToSet(events[t]) = ToSet(events'[t]) \cup {e}
        /\ \A u \in Tab : u # t => events'[u] = events[u] /\ prompts'[u] = prompts[u]
        /\ prompts'[t] = IF e.type = "incoming" THEN With(prompts[t], e.session)
                         ELSE Without(prompts[t], e.session)
    BY <1>4, ReadEffect
  <2>2. missed' = missed
    BY <1>4 DEF HandleEvent
  <2> HIDE DEF e
  <2>3. e.session \in Session /\ e.type \in {"incoming", "decided"}
    BY <2>1 DEF Happening
  <2>4. e.type = "decided" => pc[e.session] = "over"
    BY <2>1 DEF PromptInv
  <2>5. ASSUME NEW x \in Session, pc[x] \in {"open", "asking"},
               x \in ToSet(prompts[t]) \cup Announced(events[t]) \cup missed[t]
        PROVE  x \in ToSet(prompts'[t]) \cup Announced(events'[t]) \cup missed'[t]
    <3>1. CASE e.type = "incoming"
      <4>1. ToSet(prompts'[t]) = ToSet(prompts[t]) \cup {e.session}
        <5>1. prompts'[t] = With(prompts[t], e.session) /\ prompts[t] \in Seq(Session)
          BY <2>1, <3>1 DEF QueueInv
        <5>2. ToSet(With(prompts[t], e.session)) = ToSet(prompts[t]) \cup {e.session}
          BY <2>3, <5>1, WithPrompt
        <5> QED
          BY <5>1, <5>2
      <4>2. Announced(events[t]) \subseteq Announced(events'[t]) \cup {e.session}
        BY <2>1 DEF Announced
      <4> QED
        BY <2>2, <2>5, <4>1, <4>2
    <3>2. CASE e.type = "decided"
      <4>1. prompts'[t] = Without(prompts[t], e.session)
        BY <2>1, <3>2
      <4>2. ToSet(prompts[t]) \subseteq ToSet(prompts'[t]) \cup {e.session}
        BY <2>3, <4>1, WithoutPrompt DEF QueueInv
      <4>3. Announced(events[t]) \subseteq Announced(events'[t])
        BY <2>1, <3>2 DEF Announced
      <4>4. x # e.session
        BY <2>4, <2>5, <3>2
      <4> QED
        BY <2>2, <2>5, <4>2, <4>3, <4>4
    <3> QED
      BY <2>3, <3>1, <3>2
  <2> QED
    BY <1>2, <2>1, <2>2, <2>5
<1>5. CASE Countdown(t)
  <2>1. ToSet(prompts[t]) = ToSet(Tail(prompts[t])) \cup {Head(prompts[t])}
    BY <1>5, TailSet DEF Countdown, QueueInv
  <2>2. /\ prompts'[t] = Tail(prompts[t]) /\ pc[Head(prompts[t])] \notin {"open", "asking"}
        /\ \A u \in Tab : u # t => prompts'[u] = prompts[u]
        /\ UNCHANGED <<events, missed>>
    BY <1>5 DEF Countdown, AtZero, QueueInv, linkVars
  <2> QED
    BY <1>2, <2>1, <2>2
<1>6. ASSUME NEW ss, Misses(t, ss)
      PROVE  /\ \A u \in Tab : missed[u] \subseteq missed'[u]
             /\ \A x \in ss : pc[x] # "over" => x \in missed'[t]
  BY <1>6 DEF Misses, QueueInv
<1>7. ASSUME NEW a \in Answer, Click(t, a) PROVE PromptInv'
  <2> DEFINE s == Head(prompts[t])
  <2>1. s \in Session
    BY <1>7, TailSet DEF Click, QueueInv
  <2>2. ToSet(prompts[t]) \subseteq ToSet(Without(prompts[t], s)) \cup {s}
    BY <2>1, WithoutPrompt DEF QueueInv
  <2>3. /\ prompts'[t] = Without(prompts[t], s)
        /\ \A u \in Tab : u # t => prompts'[u] = prompts[u]
        /\ UNCHANGED events
    BY <1>7 DEF Click, QueueInv, linkVars
  <2>4. Misses(t, {s})
    BY <1>7 DEF Click
  <2> HIDE DEF s
  <2>5. /\ \A u \in Tab : missed[u] \subseteq missed'[u]
        /\ pc[s] # "over" => s \in missed'[t]
    BY <1>6, <2>4
  <2> QED
    BY <1>2, <2>2, <2>3, <2>5
<1>8. ASSUME Unsubscribe({t})
      PROVE  \A u \in Tab : /\ u # t => events'[u] = events[u]
                            /\ ToSet(events'[u]) \subseteq ToSet(events[u])
  <2>1. events' = [u \in Tab |-> IF u \in {t} THEN <<>> ELSE events[u]]
    BY <1>8 DEF Unsubscribe
  <2>2. DOMAIN <<>> = {}
    OBVIOUS
  <2>3. ToSet(<<>>) = {}
    BY <2>2 DEF ToSet
  <2> QED
    BY <2>1, <2>3
<1>9. CASE Disconnect(t)
  <2>1. /\ \A u \in Tab : missed[u] \subseteq missed'[u]
        /\ \A x \in Announced(events[t]) : pc[x] # "over" => x \in missed'[t]
    BY <1>6, <1>9 DEF Disconnect
  <2> QED
    BY <1>2, <1>8, <1>9, <2>1 DEF Disconnect
<1>10. CASE Reload(t)
  <2>1. /\ \A u \in Tab : missed[u] \subseteq missed'[u]
        /\ \A x \in Announced(events[t]) \cup ToSet(prompts[t]) : pc[x] # "over" => x \in missed'[t]
    BY <1>6, <1>10 DEF Reload
  <2>2. \A u \in Tab : u # t => prompts'[u] = prompts[u]
    BY <1>10 DEF Reload, QueueInv
  <2> QED
    BY <1>2, <1>8, <1>10, <2>1, <2>2 DEF Reload
<1> QED
  BY <1>3, <1>4, <1>5, <1>7, <1>9, <1>10

(* After a restart nobody waits, and no channel holds anything.            *)
LEMMA RestartPrompts == ASSUME QueueInv, Restart PROVE PromptInv'
<1>1. events' = [u \in Tab |-> IF u \in Tab THEN <<>> ELSE events[u]]
  BY DEF Restart, Unsubscribe
<1>2. DOMAIN <<>> = {}
  OBVIOUS
<1>3. \A u \in Tab : ToSet(events'[u]) = {}
  BY <1>1, <1>2 DEF ToSet
<1>4. \A s \in Session : pc'[s] \in {"new", "over"}
  BY DEF Restart
<1> QED
  BY <1>3, <1>4 DEF PromptInv

(* A session that waits has its prompt on screen or on its way in every    *)
(* tab that could get it (app.js:171).                                     *)
THEOREM PromptsStay == Spec => []PromptShown
<1>1. Init => PromptInv
  <2>1. DOMAIN <<>> = {}
    OBVIOUS
  <2>2. ToSet(<<>>) = {}
    BY <2>1 DEF ToSet
  <2>3. ASSUME Init PROVE /\ \A t \in Tab : events[t] = <<>>
                          /\ \A s \in Session : pc[s] = "new"
    BY <2>3 DEF Init
  <2> QED
    BY <2>2, <2>3 DEF PromptInv
<1>2. QueueInv /\ PromptInv /\ [Next]_vars => PromptInv'
  <2> SUFFICES ASSUME QueueInv, PromptInv, [Next]_vars PROVE PromptInv'
    OBVIOUS
  <2>1. CASE \E p \in posts : PostDecision(p)
    BY <2>1 DEF PostDecision, PromptInv, Announced, linkVars
  <2>2. CASE UNCHANGED vars
    BY <2>2 DEF vars, linkVars, hostVars, PromptInv, Announced
  <2> QED
    BY <2>1, <2>2, SessionPrompts, TabPrompts, RestartPrompts DEF Next
<1>3. QueueInv /\ PromptInv => PromptShown
  BY DEF QueueInv, PromptInv, PromptShown
<1> QED
  BY <1>1, <1>2, <1>3, QueueInvHolds, PTL DEF Spec

---------------------------------------------------------------------------
(* The refinement of Answering.  A channel that can still be taken is      *)
(* empty, while somebody listens to it.                                    *)
OfferInv ==
  \A s \in Session :
    /\ pc[s] \in {"new", "open"} => s \notin pending /\ verdict[s] = "none"
    /\ pc[s] \in {"asking", "timedout"} /\ s \in pending => verdict[s] = "none"

Seen(s) == IF verdict[s] = "timeout" THEN "no" ELSE verdict[s]
Stages  == [s \in Session |-> Stage(s)]
Seens   == [s \in Session |-> Seen(s)]

(* If one session goes on, its stage changes and those of others do not.   *)
LEMMA StageMoves ==
  ASSUME QueueInv, NEW s \in Session, NEW from, NEW to, Goes(s, from, to)
  PROVE  Stages' = [Stages EXCEPT ![s] = Stage(s)'] /\ Stages[s] = Stage(s)
<1>1. pc'[s] = to /\ \A x \in Session : x # s => pc'[x] = pc[x]
  BY DEF Goes, QueueInv
<1>2. \A x \in Session : x # s => Stage(x)' = Stage(x)
  BY <1>1 DEF Stage
<1>3. \A x \in Session : Stages'[x] = [Stages EXCEPT ![s] = Stage(s)'][x]
  BY <1>2 DEF Stages
<1> QED
  BY <1>3 DEF Stages

(* What is in the channels is seen as it was if it is as it was.           *)
LEMMA SameVerdicts == ASSUME UNCHANGED verdict PROVE UNCHANGED Seens
  BY DEF Seens, Seen

(* Every step of the task of a session is a step of the question.          *)
LEMMA SessionAnswers ==
  ASSUME QueueInv, OfferInv, NEW s \in Session,
         Open(s) \/ Ask(s) \/ TimeOut(s) \/ GiveUp(s) \/ Decided(s)
  PROVE  OfferInv' /\ [Answers!Next]_(Answers!vars)
<1>1. CASE Open(s)
  <2>1. Goes(s, "new", "open") /\ UNCHANGED <<pending, verdict>>
    BY <1>1 DEF Open
  <2>2. pc[s] = "new" /\ pc'[s] = "open" /\ \A x \in Session : x # s => pc'[x] = pc[x]
    BY <2>1 DEF Goes, QueueInv
  <2>3. OfferInv'
    BY <2>1, <2>2 DEF OfferInv
  <2>4. Stage(s)' = Stage(s)
    BY <2>2 DEF Stage
  <2>5. Stages' = Stages
    BY <2>1, <2>4, StageMoves DEF Stages
  <2> QED
    BY <2>1, <2>3, <2>5, SameVerdicts DEF Answers!vars, Stages, Seens, Seen
<1>2. CASE Ask(s)
  <2>1. Goes(s, "open", "asking") /\ pending' = pending \cup {s} /\ UNCHANGED verdict
    BY <1>2 DEF Ask
  <2>2. pc[s] = "open" /\ pc'[s] = "asking" /\ \A x \in Session : x # s => pc'[x] = pc[x]
    BY <2>1 DEF Goes, QueueInv
  <2>3. OfferInv'
    BY <2>1, <2>2 DEF OfferInv
  <2>4. Stage(s) = "before" /\ Stage(s)' = "asking"
    BY <2>2 DEF Stage
  <2>5. Stages[s] = "before" /\ Stages' = [Stages EXCEPT ![s] = "asking"]
    BY <2>1, <2>4, StageMoves
  <2>6. Answers!Ask(s)
    BY <2>1, <2>5, SameVerdicts DEF Answers!Ask, Answers!Goes, Stages, Seens, Seen
  <2> QED
    BY <2>3, <2>6 DEF Answers!Next
<1>3. CASE TimeOut(s)
  <2>1. Goes(s, "asking", "timedout") /\ verdict[s] = "none" /\ UNCHANGED <<pending, verdict>>
    BY <1>3 DEF TimeOut
  <2>2. pc[s] = "asking" /\ pc'[s] = "timedout" /\ \A x \in Session : x # s => pc'[x] = pc[x]
    BY <2>1 DEF Goes, QueueInv
  <2>3. OfferInv'
    BY <2>1, <2>2 DEF OfferInv
  <2>4. Stage(s) = "asking" /\ Stage(s)' = "late" /\ Seens[s] = "none"
    BY <2>1, <2>2 DEF Stage, Seens, Seen
  <2>5. Stages[s] = "asking" /\ Stages' = [Stages EXCEPT ![s] = "late"]
    BY <2>1, <2>4, StageMoves
  <2>6. Answers!Expire(s)
    BY <2>1, <2>4, <2>5, SameVerdicts DEF Answers!Expire, Answers!Goes, Stages, Seens, Seen
  <2> QED
    BY <2>3, <2>6 DEF Answers!Next
<1>4. CASE GiveUp(s)
  <2>1. /\ Goes(s, "timedout", "expired") /\ verdict' = [verdict EXCEPT ![s] = "timeout"]
        /\ UNCHANGED pending
    BY <1>4 DEF GiveUp
  <2>2. pc[s] = "timedout" /\ pc'[s] = "expired" /\ \A x \in Session : x # s => pc'[x] = pc[x]
    BY <2>1 DEF Goes, QueueInv
  <2>3. verdict'[s] = "timeout" /\ \A x \in Session : x # s => verdict'[x] = verdict[x]
    BY <2>1 DEF QueueInv
  <2>4. OfferInv'
    BY <2>1, <2>2, <2>3 DEF OfferInv
  <2>5. Stage(s) = "late" /\ Stage(s)' = "over"
    BY <2>2 DEF Stage
  <2>6. Stages[s] = "late" /\ Stages' = [Stages EXCEPT ![s] = "over"]
    BY <2>1, <2>5, StageMoves
  <2>7. Seens' = [Seens EXCEPT ![s] = "no"]
    <3>1. \A x \in Session : Seens'[x] = [Seens EXCEPT ![s] = "no"][x]
      BY <2>3 DEF Seens, Seen
    <3> QED
      BY <3>1 DEF Seens
  <2>8. Answers!Reject(s)
    BY <2>1, <2>6, <2>7 DEF Answers!Reject, Answers!Goes, Answers!Says, Stages, Seens, Seen
  <2> QED
    BY <2>4, <2>8 DEF Answers!Next
<1>5. CASE Decided(s)
  <2>1. pending' = pending \ {s} /\ UNCHANGED verdict
    BY <1>5 DEF Decided
  <2>2. CASE Goes(s, "expired", "over")
    <3>1. pc[s] = "expired" /\ pc'[s] = "over" /\ \A x \in Session : x # s => pc'[x] = pc[x]
      BY <2>2 DEF Goes, QueueInv
    <3>2. OfferInv'
      BY <2>1, <3>1 DEF OfferInv
    <3>3. Stage(s) = "over" /\ Stage(s)' = "over"
      BY <3>1 DEF Stage
    <3>4. Stages[s] = "over" /\ Stages' = Stages
      BY <2>2, <3>3, StageMoves DEF Stages
    <3>5. Answers!Withdraw(s)
      BY <2>1, <3>4, SameVerdicts DEF Answers!Withdraw, Stages, Seens, Seen
    <3> QED
      BY <3>2, <3>5 DEF Answers!Next
  <2>3. CASE verdict[s] # "none" /\ Goes(s, "asking", "over")
    <3>1. pc[s] = "asking" /\ pc'[s] = "over" /\ \A x \in Session : x # s => pc'[x] = pc[x]
      BY <2>3 DEF Goes, QueueInv
    <3>2. OfferInv' /\ pending' = pending
      BY <2>1, <2>3, <3>1 DEF OfferInv
    <3>3. Stage(s) = "asking" /\ Stage(s)' = "over" /\ Seens[s] # "none"
      BY <2>3, <3>1 DEF Stage, Seens, Seen
    <3>4. Stages[s] = "asking" /\ Stages' = [Stages EXCEPT ![s] = "over"]
      BY <2>3, <3>3, StageMoves
    <3>5. Answers!Conclude(s)
      BY <2>1, <3>2, <3>3, <3>4, SameVerdicts
      DEF Answers!Conclude, Answers!Goes, Stages, Seens, Seen
    <3> QED
      BY <3>2, <3>5 DEF Answers!Next
  <2> QED
    BY <1>5, <2>2, <2>3 DEF Decided
<1> QED
  BY <1>1, <1>2, <1>3, <1>4, <1>5

(* decide, from whatever tab or cancel: it answers an open question, takes *)
(* one that is over, or finds none.                                        *)
LEMMA DecideAnswers ==
  ASSUME QueueInv, OfferInv, NEW s \in Session, NEW a \in Answer,
         TakesOut(s), Sends(s, a), UNCHANGED pc
  PROVE  OfferInv' /\ [Answers!Next]_(Answers!vars)
<1>1. pending' = pending \ {s} /\ Stages' = Stages
  BY DEF TakesOut, Stages, Stage
<1>2. CASE Listens(s)
  <2>1. s \in pending /\ pc[s] \in {"asking", "timedout"} /\ verdict[s] = "none"
    BY <1>2 DEF Listens, OfferInv
  <2>2. verdict'[s] = a /\ \A x \in Session : x # s => verdict'[x] = verdict[x]
    BY <1>2 DEF Sends, QueueInv
  <2>3. OfferInv'
    BY <1>1, <2>1, <2>2 DEF OfferInv
  <2>4. Stages[s] \in {"asking", "late"} /\ Seens[s] = "none"
    BY <2>1 DEF Stages, Stage, Seens, Seen
  <2>5. Seens' = [Seens EXCEPT ![s] = a]
    <3>1. a # "timeout"
      BY DEF Answer
    <3>2. \A x \in Session : Seens'[x] = [Seens EXCEPT ![s] = a][x]
      BY <2>2, <3>1 DEF Seens, Seen
    <3> QED
      BY <3>2 DEF Seens
  <2>6. Answers!Answer(s, a)
    BY <1>1, <2>1, <2>4, <2>5 DEF Answers!Answer, Answers!Says, Stages, Seens, Seen
  <2> QED
    BY <2>3, <2>6 DEF Answers!Next, Answer
<1>3. CASE ~Listens(s)
  <2>1. UNCHANGED verdict /\ Seens' = Seens
    BY <1>3, SameVerdicts DEF Sends
  <2>2. OfferInv'
    BY <1>1, <2>1 DEF OfferInv
  <2>3. CASE s \notin pending
    <3>1. pending' = pending
      BY <1>1, <2>3
    <3> QED
      BY <1>1, <2>1, <2>2, <3>1 DEF Answers!vars, Stages, Seens, Seen
  <2>4. CASE s \in pending
    <3>1. pc[s] \in {"expired", "over"}
      BY <1>3, <2>4 DEF Listens, OfferInv, QueueInv, Phase
    <3>2. Stages[s] = "over"
      BY <3>1 DEF Stages, Stage
    <3>3. Answers!Withdraw(s)
      BY <1>1, <2>1, <3>2 DEF Answers!Withdraw, Stages, Seens, Seen
    <3> QED
      BY <2>2, <3>3 DEF Answers!Next
  <2> QED
    BY <2>3, <2>4
<1> QED
  BY <1>2, <1>3

(* A restart stops every question that was put.                            *)
LEMMA RestartStops ==
  ASSUME QueueInv, OfferInv, Restart
  PROVE  OfferInv' /\ [Answers!Next]_(Answers!vars)
<1> DEFINE ss == {s \in Session : pc[s] # "new"}
<1>1. /\ pc' = [s \in Session |-> IF pc[s] = "new" THEN "new" ELSE "over"]
      /\ pending' = {} /\ UNCHANGED verdict
  BY DEF Restart
<1>2. OfferInv'
  BY <1>1 DEF OfferInv
<1>3. \A s \in Session : Stage(s)' = IF s \in ss THEN "over" ELSE Stage(s)
  BY <1>1 DEF Stage
<1>4. Stages' = [s \in Session |-> IF s \in ss THEN "over" ELSE Stages[s]]
  BY <1>3 DEF Stages
<1>5. \A s \in Session \ ss : Stages[s] \notin {"asking", "late"}
  BY DEF Stages, Stage
<1>6. MaxUpsets > 0
  BY ApprovalsAssumption DEF Restart, Upset, QueueInv
<1>7. Answers!Stop(ss)
  BY <1>1, <1>4, <1>5, <1>6, SameVerdicts DEF Answers!Stop, Stages, Seens, Seen
<1> QED
  BY <1>2, <1>7 DEF Answers!Next

(* However many tabs answer, cancel or come too late, one answer counts:   *)
(* whoever takes the channel out of pending first settles the session, and *)
(* what he said stands unless the wait was timing out (state.rs:325-345).  *)
THEOREM OneAnswerCounts == Spec => AnsweredOnce
<1>1. Init => OfferInv /\ Answers!Init
  BY DEF Init, OfferInv, Answers!Init, Stage
<1>2. QueueInv /\ OfferInv /\ [Next]_vars => OfferInv' /\ [Answers!Next]_(Answers!vars)
  <2> SUFFICES ASSUME QueueInv, OfferInv, [Next]_vars
               PROVE  OfferInv' /\ [Answers!Next]_(Answers!vars)
    OBVIOUS
  <2>1. ASSUME NEW s \in Session, CancelPending(s)
        PROVE  OfferInv' /\ [Answers!Next]_(Answers!vars)
    BY <2>1, DecideAnswers DEF CancelPending, Answer
  <2>2. ASSUME NEW p \in posts, PostDecision(p)
        PROVE  OfferInv' /\ [Answers!Next]_(Answers!vars)
    BY <2>2, DecideAnswers DEF PostDecision, Decision, QueueInv
  <2>3. ASSUME UNCHANGED hostVars
        PROVE  OfferInv' /\ [Answers!Next]_(Answers!vars)
    <3>1. OfferInv' /\ Stages' = Stages
      BY <2>3 DEF hostVars, OfferInv, Stages, Stage
    <3> QED
      BY <2>3, <3>1, SameVerdicts DEF hostVars, Answers!vars, Stages, Seens, Seen
  <2>4. ASSUME NEW t \in Tab,
               \/ Connect(t) \/ HandleEvent(t) \/ Countdown(t)
               \/ \E a \in Answer : Click(t, a)
               \/ Disconnect(t) \/ Reload(t)
        PROVE  OfferInv' /\ [Answers!Next]_(Answers!vars)
    BY <2>3, <2>4 DEF Connect, HandleEvent, Countdown, Click, Disconnect, Reload
  <2>5. CASE UNCHANGED vars
    BY <2>3, <2>5 DEF vars
  <2> QED
    BY <2>1, <2>2, <2>4, <2>5, SessionAnswers, RestartStops DEF Next
<1>3. Spec => Answers!Init /\ [][Answers!Next]_(Answers!vars)
  BY <1>1, <1>2, QueueInvHolds, PTL DEF Spec
<1> QED
  BY <1>3 DEF AnsweredOnce, Answers!Spec
=============================================================================
