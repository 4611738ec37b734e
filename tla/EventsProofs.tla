---------------------------- MODULE EventsProofs ----------------------------
(***************************************************************************)
(* What the operations of the event channel preserve, and facts about the  *)
(* sequences in it: lemmas the proofs about what tabs show cite.  They are *)
(* stated for any set S the events belong to.                              *)
(***************************************************************************)
EXTENDS Events, SequencesExt, SequenceTheorems, WellFoundedInduction, TLAPS

(* No channel is beyond its capacity.                                      *)
Channels(S) == events \in [Tab -> Seq(S)] /\ \A t \in Tab : Len(events[t]) <= Capacity

(* What is in a sequence over a set is in the set.                         *)
LEMMA ElementsOf == ASSUME NEW S, NEW q \in Seq(S) PROVE ToSet(q) \subseteq S
<1>1. \A i \in DOMAIN q : q[i] \in S
  OBVIOUS
<1> QED
  BY <1>1 DEF ToSet

(* Append adds its element to those of the sequence.                       *)
LEMMA AppendSet ==
  ASSUME NEW S, NEW q \in Seq(S), NEW x \in S
  PROVE  Append(q, x) \in Seq(S) /\ ToSet(Append(q, x)) = ToSet(q) \cup {x}
<1>1. /\ Append(q, x) \in Seq(S) /\ DOMAIN Append(q, x) = 1 .. Len(q) + 1
      /\ DOMAIN q = 1 .. Len(q) /\ Len(q) \in Nat
      /\ \A i \in 1 .. Len(q) : Append(q, x)[i] = q[i]
      /\ Append(q, x)[Len(q) + 1] = x
  OBVIOUS
<1> QED
  BY <1>1 DEF ToSet

(* A new first element is added to those of the sequence.                  *)
LEMMA PrependSet ==
  ASSUME NEW S, NEW q \in Seq(S), NEW x \in S
  PROVE  <<x>> \o q \in Seq(S) /\ ToSet(<<x>> \o q) = ToSet(q) \cup {x}
<1> DEFINE r == <<x>> \o q
<1>1. /\ r \in Seq(S) /\ DOMAIN r = 1 .. Len(q) + 1 /\ r[1] = x
      /\ DOMAIN q = 1 .. Len(q) /\ Len(q) \in Nat
      /\ \A i \in 1 .. Len(q) : r[i + 1] = q[i]
  OBVIOUS
<1> HIDE DEF r
<1>2. ASSUME NEW i \in DOMAIN r PROVE r[i] \in ToSet(q) \cup {x}
  <2>1. CASE i = 1
    BY <1>1, <2>1
  <2>2. CASE i # 1
    <3>1. i - 1 \in DOMAIN q /\ r[i] = q[i - 1]
      BY <1>1, <2>2
    <3> QED
      BY <3>1 DEF ToSet
  <2> QED
    BY <2>1, <2>2
<1>3. ASSUME NEW i \in DOMAIN q PROVE q[i] \in ToSet(r)
  <2>1. i + 1 \in DOMAIN r /\ r[i + 1] = q[i]
    BY <1>1
  <2> QED
    BY <2>1 DEF ToSet
<1>4. x \in ToSet(r)
  BY <1>1 DEF ToSet
<1>5. ToSet(r) \subseteq ToSet(q) \cup {x}
  BY <1>2 DEF ToSet
<1>6. ToSet(q) \subseteq ToSet(r)
  BY <1>3 DEF ToSet
<1> QED
  BY <1>1, <1>4, <1>5, <1>6 DEF r

(* Tail takes the head of a sequence from it.                              *)
LEMMA TailSet ==
  ASSUME NEW S, NEW q \in Seq(S), q # <<>>
  PROVE  /\ Tail(q) \in Seq(S) /\ Len(Tail(q)) = Len(q) - 1 /\ Head(q) \in S
         /\ ToSet(q) = ToSet(Tail(q)) \cup {Head(q)}
<1> DEFINE r == Tail(q)
<1>1. Len(q) \in Nat \ {0}
  OBVIOUS
<1>2. /\ r \in Seq(S) /\ DOMAIN r = 1 .. Len(q) - 1 /\ DOMAIN q = 1 .. Len(q)
      /\ Len(r) = Len(q) - 1
      /\ Head(q) = q[1] /\ Head(q) \in S
      /\ \A i \in 1 .. Len(q) - 1 : r[i] = q[i + 1]
  BY <1>1
<1>3. ASSUME NEW i \in 1 .. Len(q) PROVE q[i] \in ToSet(r) \cup {Head(q)}
  <2>1. CASE i = 1
    BY <1>2, <2>1
  <2>2. CASE i # 1
    <3>1. i - 1 \in DOMAIN r /\ r[i - 1] = q[i]
      BY <1>1, <1>2, <2>2
    <3> QED
      BY <3>1 DEF ToSet
  <2> QED
    BY <2>1, <2>2
<1>4. ASSUME NEW i \in 1 .. Len(q) - 1 PROVE r[i] \in ToSet(q)
  <2>1. i + 1 \in DOMAIN q /\ r[i] = q[i + 1]
    BY <1>1, <1>2
  <2> QED
    BY <2>1 DEF ToSet
<1>5. Head(q) \in ToSet(q)
  BY <1>1, <1>2 DEF ToSet
<1>6. ToSet(q) \subseteq ToSet(r) \cup {Head(q)}
  BY <1>2, <1>3 DEF ToSet
<1>7. ToSet(r) \subseteq ToSet(q)
  BY <1>2, <1>4 DEF ToSet
<1> QED
  BY <1>2, <1>5, <1>6, <1>7

(* A set of numbers has a least one.                                       *)
LEMMA LeastIsMember ==
  ASSUME NEW S \in SUBSET Nat, S # {}
  PROVE  Min(S) \in S
<1> DEFINE R == OpToRel(<, Nat)
<1>1. IsWellFoundedOn(R, Nat)
  BY NatLessThanWellFounded
<1>2. \A y, x \in Nat : y < x => <<y, x>> \in R
  BY DEF OpToRel
<1> HIDE DEF R
<1>3. PICK x \in S : \A y \in S : ~(<<y, x>> \in R)
  BY <1>1, WFMin
<1>4. ASSUME NEW y \in S PROVE x <= y
  <2>1. x \in Nat /\ y \in Nat /\ ~(y < x)
    BY <1>2, <1>3
  <2> QED
    BY <2>1
<1> QED
  BY <1>4 DEF Min

---------------------------------------------------------------------------
(* What emit leaves in the channel of each tab.                            *)
LEMMA EmitEffect ==
  ASSUME NEW S, Channels(S), NEW e \in S, Emit(e)
  PROVE  /\ Channels(S)'
         /\ \A t \in Tab : ToSet(events'[t]) \subseteq ToSet(events[t]) \cup {e}
         /\ linked' = linked
<1>1. ASSUME NEW t \in Tab
      PROVE  LET r == IF t \in linked THEN Kept(Append(events[t], e)) ELSE <<>>
             IN  /\ r \in Seq(S) /\ Len(r) <= Capacity
                 /\ ToSet(r) \subseteq ToSet(events[t]) \cup {e}
  <2> DEFINE q == events[t]
             a == Append(q, e)
             r == IF t \in linked THEN Kept(a) ELSE <<>>
  <2>1. q \in Seq(S) /\ Len(q) <= Capacity /\ Len(q) \in Nat
    BY DEF Channels
  <2> HIDE DEF q
  <2>2. a \in Seq(S) /\ ToSet(a) = ToSet(q) \cup {e}
    BY <2>1, AppendSet
  <2>3. Len(a) = Len(q) + 1 /\ a # <<>>
    BY <2>1
  <2> HIDE DEF a
  <2>4. /\ Tail(a) \in Seq(S) /\ Len(Tail(a)) = Len(a) - 1
        /\ ToSet(Tail(a)) \subseteq ToSet(a)
    BY <2>2, <2>3, TailSet
  <2>5. r \in Seq(S) /\ Len(r) <= Capacity /\ ToSet(r) \subseteq ToSet(q) \cup {e}
    <3>1. Len(a) \in Nat /\ Len(a) <= Capacity + 1 /\ Capacity \in Nat
      BY <2>1, <2>3, EventsAssumption
    <3>2. CASE t \in linked /\ Len(a) > Capacity
      <4>1. r = Tail(a)
        BY <3>2 DEF Kept
      <4>2. Len(Tail(a)) <= Capacity
        BY <2>4, <3>1
      <4> QED
        BY <2>2, <2>4, <4>1, <4>2
    <3>3. CASE t \in linked /\ ~(Len(a) > Capacity)
      <4>1. r = a /\ Len(a) <= Capacity
        BY <3>1, <3>3 DEF Kept
      <4> QED
        BY <2>2, <4>1
    <3>4. CASE t \notin linked
      <4>1. r = <<>>
        BY <3>4
      <4> HIDE DEF r
      <4>2. r \in Seq(S) /\ Len(r) = 0 /\ DOMAIN r = {}
        BY <4>1
      <4>3. ToSet(r) = {}
        BY <4>2 DEF ToSet
      <4> QED
        BY <3>1, <4>2, <4>3
    <3> QED
      BY <3>2, <3>3, <3>4
  <2> QED
    BY <2>5 DEF a, q
<1> QED
  BY <1>1 DEF Emit, Channels

(* What was not read goes with the socket (server.rs, handle_ws).          *)
LEMMA UnsubscribeEffect ==
  ASSUME NEW S, Channels(S), linked \subseteq Tab, NEW tabs, Unsubscribe(tabs)
  PROVE  Channels(S)' /\ linked' \subseteq Tab
<1>1. events' = [t \in Tab |-> IF t \in tabs THEN <<>> ELSE events[t]]
  BY DEF Unsubscribe
<1>2. <<>> \in Seq(S) /\ Len(<<>>) = 0 /\ 0 <= Capacity
  BY EventsAssumption
<1> QED
  BY <1>1, <1>2 DEF Unsubscribe, Channels

(* The next event of a tab is the head of its channel, which then goes.    *)
LEMMA NextEvent ==
  ASSUME NEW S, Channels(S), NEW t \in Tab, events[t] # <<>>,
         events' = [events EXCEPT ![t] = Tail(@)]
  PROVE  /\ Channels(S)' /\ Head(events[t]) \in S
         /\ ToSet(events[t]) = ToSet(events'[t]) \cup {Head(events[t])}
         /\ \A u \in Tab : u # t => events'[u] = events[u]
<1> DEFINE q == events[t]
<1>1. q \in Seq(S) /\ q # <<>> /\ Len(q) \in Nat /\ Len(q) <= Capacity
  BY DEF Channels
<1>2. /\ Tail(q) \in Seq(S) /\ Len(Tail(q)) = Len(q) - 1 /\ Head(q) \in S
      /\ ToSet(q) = ToSet(Tail(q)) \cup {Head(q)}
  BY <1>1, TailSet
<1>3. Len(Tail(q)) <= Capacity
  BY <1>1, <1>2, EventsAssumption
<1>4. /\ events' \in [Tab -> Seq(S)] /\ events'[t] = Tail(q)
      /\ \A u \in Tab : u # t => events'[u] = events[u]
  BY <1>2 DEF Channels
<1>5. \A u \in Tab : Len(events'[u]) <= Capacity
  BY <1>3, <1>4 DEF Channels
<1> QED
  BY <1>2, <1>4, <1>5 DEF Channels
=============================================================================
