--------------------------- MODULE DiscoveryProofs ---------------------------
(***************************************************************************)
(* What holds of discovery for any number of hosts, any network between    *)
(* them and any lengths of its timers: it is well typed (TypeCorrect), a   *)
(* peer that is gone does not stay in the list (GhostsGo), and one that is *)
(* heard does not flicker there (PeersStay).                               *)
(***************************************************************************)
EXTENDS Discovery, TLAPS

(* NoGhosts is not inductive: how old an entry may become depends on when  *)
(* the next pruning comes.  An entry is fresh after a pruning, so its age  *)
(* exceeds the time since then by less than STALE_TIMEOUT, and a host that *)
(* is down, where nothing is pruned, has no entries.                       *)
AgeInv ==
  \A h \in Host :
    /\ h \notin on => Known(h) = {}
    /\ \A o \in Known(h) : peers[h][o] - pruned[h] < Stale

DiscoveryInv == TypeOK /\ AgeInv

---------------------------------------------------------------------------
(* One more entry, or one as good as new, in the list of a host that runs. *)
LEMMA AddPeerInv ==
  ASSUME DiscoveryInv, NEW h \in Host, NEW o \in Host, h \in on, AddPeer(h, o),
         UNCHANGED <<on, pruned>>
  PROVE  /\ DOMAIN peers' = Host
         /\ \A x \in Host : DOMAIN peers'[x] \subseteq Host /\ peers'[x] \in [DOMAIN peers'[x] -> Nat]
         /\ AgeInv'
<1> USE DiscoveryAssumption
<1> DEFINE entries == [x \in Known(h) \cup {o} |-> IF x = o THEN 0 ELSE peers[h][x]]
<1>1. DOMAIN peers = Host /\ peers' = [peers EXCEPT ![h] = entries]
  BY DEF AddPeer, DiscoveryInv, TypeOK
<1>2. peers'[h] = entries /\ \A x \in Host : x # h => peers'[x] = peers[x]
  BY <1>1
<1>3. \A x \in Host : Known(x) \subseteq Host /\ peers[x] \in [Known(x) -> Nat]
  BY DEF DiscoveryInv, TypeOK
<1>4. /\ DOMAIN entries = Known(h) \cup {o}
      /\ entries \in [Known(h) \cup {o} -> Nat]
  BY <1>3
<1>5. \A x \in DOMAIN entries : entries[x] - pruned[h] < Stale
  <2>1. pruned[h] \in Nat /\ \A x \in Known(h) : peers[h][x] - pruned[h] < Stale
    BY DEF DiscoveryInv, TypeOK, AgeInv
  <2> QED
    BY <2>1, <1>3
<1>6. AgeInv'
  BY <1>2, <1>4, <1>5 DEF AgeInv, Known, DiscoveryInv
<1> QED
  BY <1>1, <1>2, <1>3, <1>4, <1>6 DEF Known

(* Counting the losses between two hosts.                                  *)
LEMMA LossType ==
  ASSUME TypeOK, NEW h \in Host, NEW o \in Host, NEW k \in Nat, NEW n \in Arrivals(h, o, k)
  PROVE  n \in Nat /\ Loss(h, o, n) \in 0 .. MaxLost
  BY DiscoveryAssumption DEF Arrivals, Loss, TypeOK

(* The steps of a host's tasks, of its user and of its process.            *)
LEMMA HostStep ==
  ASSUME DiscoveryInv, NEW h \in Host,
         Start(h) \/ Stop(h) \/ PeriodicAnnounce(h) \/ PruneStalePeers(h)
  PROVE  DiscoveryInv'
<1> USE DiscoveryAssumption
<1>1. CASE Start(h)
  <2>1. TypeOK'
    BY <1>1 DEF Start, DiscoveryInv, TypeOK, Known
  <2>2. AgeInv'
    BY <1>1 DEF Start, DiscoveryInv, AgeInv, Known
  <2> QED
    BY <2>1, <2>2 DEF DiscoveryInv
<1>2. CASE Stop(h)
  <2>1. DOMAIN peers' = Host /\ peers'[h] = Nobody /\ \A x \in Host : x # h => peers'[x] = peers[x]
    BY <1>2 DEF Stop, DiscoveryInv, TypeOK
  <2>2. DOMAIN Nobody = {} /\ Nobody \in [{} -> Nat]
    BY DEF Nobody
  <2>3. TypeOK'
    BY <1>2, <2>1, <2>2 DEF Stop, DiscoveryInv, TypeOK, Known
  <2>4. pruned'[h] = 0 /\ \A x \in Host : x # h => pruned'[x] = pruned[x]
    BY <1>2 DEF Stop, DiscoveryInv, TypeOK
  <2>5. AgeInv'
    BY <1>2, <2>1, <2>2, <2>4 DEF Stop, DiscoveryInv, AgeInv, Known
  <2> QED
    BY <2>3, <2>5 DEF DiscoveryInv
<1>3. CASE PeriodicAnnounce(h)
  <2> DEFINE reached == {o \in Host : <<h, o>> \in Passes}
  <2>1. PICK n \in [reached -> 0 .. Targets] :
          /\ \A o \in reached : n[o] \in Arrivals(h, o, Targets)
          /\ net' = [m \in Datagram |->
                       IF m.from = h /\ m.to \in reached /\ m.announce
                         THEN net[m] + n[m.to] ELSE net[m]]
          /\ lost' = [p \in Host \X Host |->
                        IF p[1] = h /\ p[2] \in reached THEN Loss(h, p[2], n[p[2]]) ELSE lost[p]]
    BY <1>3 DEF PeriodicAnnounce, Broadcast
  <2>2. \A o \in reached : n[o] \in Nat /\ Loss(h, o, n[o]) \in 0 .. MaxLost
    BY <2>1, LossType DEF DiscoveryInv
  <2>3. net' \in [Datagram -> Nat]
    BY <2>1, <2>2 DEF DiscoveryInv, TypeOK
  <2>4. lost' \in [Host \X Host -> 0 .. MaxLost]
    BY <2>1, <2>2 DEF DiscoveryInv, TypeOK
  <2>5. announced' \in [Host -> 0 .. Announce + Late]
    BY <1>3 DEF PeriodicAnnounce, DiscoveryInv, TypeOK
  <2>6. UNCHANGED <<on, peers, pruned>>
    BY <1>3 DEF PeriodicAnnounce
  <2>7. TypeOK'
    BY <2>3, <2>4, <2>5, <2>6 DEF DiscoveryInv, TypeOK, Known
  <2>8. AgeInv'
    BY <2>6 DEF DiscoveryInv, AgeInv, Known
  <2> QED
    BY <2>7, <2>8 DEF DiscoveryInv
<1>4. CASE PruneStalePeers(h)
  <2> DEFINE entries == [o \in {x \in Known(h) : Fresh(peers[h][x])} |-> peers[h][o]]
  <2>1. /\ DOMAIN peers' = Host /\ peers'[h] = entries
        /\ \A x \in Host : x # h => peers'[x] = peers[x]
    BY <1>4 DEF PruneStalePeers, DiscoveryInv, TypeOK
  <2>2. /\ DOMAIN entries \subseteq Host /\ entries \in [DOMAIN entries -> Nat]
        /\ \A o \in DOMAIN entries : entries[o] < Stale
    BY DEF DiscoveryInv, TypeOK, Fresh
  <2>3. pruned'[h] = 0 /\ \A x \in Host : x # h => pruned'[x] = pruned[x]
    BY <1>4 DEF PruneStalePeers, DiscoveryInv, TypeOK
  <2>4. TypeOK'
    BY <1>4, <2>1, <2>2 DEF PruneStalePeers, DiscoveryInv, TypeOK, Known
  <2>5. AgeInv'
    BY <1>4, <2>1, <2>2, <2>3 DEF PruneStalePeers, DiscoveryInv, AgeInv, Known
  <2> QED
    BY <2>4, <2>5 DEF DiscoveryInv
<1> QED
  BY <1>1, <1>2, <1>3, <1>4

(* A probe of the user's changes only what is on its way.                  *)
LEMMA ProbeStep ==
  ASSUME DiscoveryInv, NEW h \in Host, NEW o \in Host, ManualConnect(h, o)
  PROVE  DiscoveryInv'
<1> USE DiscoveryAssumption
<1> DEFINE probe == [from |-> h, to |-> o, announce |-> TRUE]
<1>1. PICK n \in Arrivals(h, o, 1) :
        /\ net' = [net EXCEPT ![probe] = n]
        /\ lost' = [lost EXCEPT ![<<h, o>>] = Loss(h, o, n)]
  BY DEF ManualConnect
<1>2. n \in Nat /\ Loss(h, o, n) \in 0 .. MaxLost
  BY <1>1, LossType DEF DiscoveryInv
<1>3. net' \in [Datagram -> Nat]
  BY <1>1, <1>2 DEF DiscoveryInv, TypeOK
<1>4. lost' \in [Host \X Host -> 0 .. MaxLost]
  BY <1>1, <1>2 DEF DiscoveryInv, TypeOK
<1>5. TypeOK'
  BY <1>3, <1>4 DEF ManualConnect, DiscoveryInv, TypeOK, Known
<1>6. AgeInv'
  BY DEF ManualConnect, DiscoveryInv, AgeInv, Known
<1> QED
  BY <1>5, <1>6 DEF DiscoveryInv

(* A datagram taken from the network, and the reply it may set off.        *)
LEMMA ListenStep ==
  ASSUME DiscoveryInv, NEW m \in Datagram, Listen(m)
  PROVE  DiscoveryInv'
<1> USE DiscoveryAssumption
<1>1. m.from \in Host /\ m.to \in Host /\ Reply(m) \in Datagram
  BY DEF Datagram, Reply
<1>2. Took(m) \in [Datagram -> Nat]
  BY DEF Listen, Took, DiscoveryInv, TypeOK
<1>3. net' \in [Datagram -> Nat] /\ lost' \in [Host \X Host -> 0 .. MaxLost]
  <2>1. CASE net' = Took(m) /\ UNCHANGED lost
    BY <1>2, <2>1 DEF DiscoveryInv, TypeOK
  <2>2. CASE \E n \in Arrivals(m.to, m.from, 1) :
               /\ net' = [Took(m) EXCEPT ![Reply(m)] = @ + n]
               /\ lost' = [lost EXCEPT ![<<m.to, m.from>>] = Loss(m.to, m.from, n)]
    <3>1. PICK n \in Arrivals(m.to, m.from, 1) :
               /\ net' = [Took(m) EXCEPT ![Reply(m)] = @ + n]
               /\ lost' = [lost EXCEPT ![<<m.to, m.from>>] = Loss(m.to, m.from, n)]
      BY <2>2
    <3>2. n \in Nat /\ Loss(m.to, m.from, n) \in 0 .. MaxLost
      BY <1>1, <3>1, LossType DEF DiscoveryInv
    <3>3. net' \in [Datagram -> Nat]
      BY <1>1, <1>2, <3>1, <3>2
    <3>4. lost' \in [Host \X Host -> 0 .. MaxLost]
      BY <1>1, <3>1, <3>2 DEF DiscoveryInv, TypeOK
    <3> QED
      BY <3>3, <3>4
  <2> QED
    BY <2>1, <2>2 DEF Listen
<1>4. CASE m.to \in on /\ Foreign(m)
  <2>1. AddPeer(m.to, m.from) /\ UNCHANGED <<on, announced, pruned>>
    BY <1>4 DEF Listen
  <2>2. /\ DOMAIN peers' = Host /\ AgeInv'
        /\ \A x \in Host : DOMAIN peers'[x] \subseteq Host /\ peers'[x] \in [DOMAIN peers'[x] -> Nat]
    BY <1>1, <1>4, <2>1, AddPeerInv
  <2>3. TypeOK'
    BY <1>3, <2>1, <2>2 DEF DiscoveryInv, TypeOK, Known
  <2> QED
    BY <2>2, <2>3 DEF DiscoveryInv
<1>5. CASE ~(m.to \in on /\ Foreign(m))
  <2>1. UNCHANGED <<on, peers, announced, pruned>>
    BY <1>5 DEF Listen
  <2> QED
    BY <1>3, <2>1 DEF DiscoveryInv, TypeOK, AgeInv, Known
<1> QED
  BY <1>4, <1>5

(* A tick makes everything one older.                                      *)
LEMMA TickStep ==
  ASSUME DiscoveryInv, Tick
  PROVE  DiscoveryInv'
<1> USE DiscoveryAssumption
<1>1. \A h \in Host :
        /\ peers'[h] = [o \in Known(h) |-> peers[h][o] + 1]
        /\ DOMAIN peers'[h] = Known(h)
        /\ \A o \in Known(h) : peers'[h][o] = peers[h][o] + 1
  BY DEF Tick
<1>2. \A h \in Host : Known(h) \subseteq Host /\ \A o \in Known(h) : peers[h][o] \in Nat
  BY DEF DiscoveryInv, TypeOK
<1>3. announced' \in [Host -> 0 .. Announce + Late] /\ pruned' \in [Host -> 0 .. Stale + Late]
  BY DEF Tick, DiscoveryInv, TypeOK
<1>4. ASSUME NEW h \in Host PROVE peers'[h] \in [Known(h) -> Nat]
  <2>1. \A o \in Known(h) : peers[h][o] + 1 \in Nat
    BY <1>2
  <2> QED
    BY <1>1, <2>1
<1>5. TypeOK'
  BY <1>1, <1>2, <1>3, <1>4 DEF Tick, DiscoveryInv, TypeOK, Known
<1>6. ASSUME NEW h \in Host
      PROVE  /\ h \notin on' => Known(h)' = {}
             /\ \A o \in Known(h)' : peers'[h][o] - pruned'[h] < Stale
  <2>1. CASE h \in on
    <3>1. pruned'[h] = pruned[h] + 1 /\ pruned[h] \in Nat /\ h \in on'
      BY <2>1 DEF Tick, DiscoveryInv, TypeOK
    <3>2. \A o \in Known(h) : peers[h][o] - pruned[h] < Stale
      BY DEF DiscoveryInv, AgeInv
    <3>3. ASSUME NEW o \in Known(h)
          PROVE  peers'[h][o] - pruned'[h] < Stale
      <4>1. peers[h][o] \in Nat /\ peers'[h][o] = peers[h][o] + 1
        BY <1>1, <1>2
      <4> QED
        BY <3>1, <3>2, <4>1
    <3>4. Known(h)' = Known(h)
      BY <1>1 DEF Known
    <3> QED
      BY <3>1, <3>3, <3>4
  <2>2. CASE h \notin on
    BY <1>1, <2>2 DEF DiscoveryInv, AgeInv, Known
  <2> QED
    BY <2>1, <2>2
<1> QED
  BY <1>5, <1>6 DEF DiscoveryInv, AgeInv

(* At first nobody runs and nobody is known.                               *)
LEMMA DiscoveryInit == Init => DiscoveryInv
<1> USE DiscoveryAssumption
<1> SUFFICES ASSUME Init PROVE DiscoveryInv
  OBVIOUS
<1>1. DOMAIN Nobody = {} /\ Nobody \in [{} -> Nat]
  BY DEF Nobody
<1>2. \A h \in Host : peers[h] = Nobody
  BY DEF Init
<1>3. TypeOK
  BY <1>1, <1>2 DEF Init, TypeOK, Known
<1>4. AgeInv
  BY <1>1, <1>2 DEF AgeInv, Known
<1> QED
  BY <1>3, <1>4 DEF DiscoveryInv

(* Every step of a host, of a datagram and of time.                        *)
LEMMA DiscoveryStep == DiscoveryInv /\ [Next]_vars => DiscoveryInv'
<1> SUFFICES ASSUME DiscoveryInv, [Next]_vars PROVE DiscoveryInv'
  OBVIOUS
<1>1. CASE Next
  BY <1>1, HostStep, ProbeStep, ListenStep, TickStep DEF Next
<1>2. CASE UNCHANGED vars
  BY <1>2 DEF vars, DiscoveryInv, TypeOK, AgeInv, Known
<1> QED
  BY <1>1, <1>2

(* So the invariant holds all the time.                                    *)
LEMMA DiscoveryInvHolds == Spec => []DiscoveryInv
  BY DiscoveryInit, DiscoveryStep, PTL DEF Spec

---------------------------------------------------------------------------
(* Discovery is well typed: no counter of losses, of copies in flight or   *)
(* of time leaves its range.                                               *)
THEOREM TypeCorrect == Spec => []TypeOK
<1>1. DiscoveryInv => TypeOK
  BY DEF DiscoveryInv
<1> QED
  BY <1>1, DiscoveryInvHolds, PTL

(* A peer that has gone is out of the list within two STALE_TIMEOUT and    *)
(* what the pruning task is late (discovery.rs:161), however many hosts    *)
(* there are and whatever they send.                                       *)
THEOREM GhostsGo == Spec => []NoGhosts
<1>1. DiscoveryInv => NoGhosts
  <2> SUFFICES ASSUME DiscoveryInv, NEW h \in Host, NEW o \in Known(h)
               PROVE  peers[h][o] < 2 * Stale + Late
    BY DEF NoGhosts
  <2>1. peers[h][o] \in Nat /\ pruned[h] \in 0 .. Stale + Late
    BY DEF DiscoveryInv, TypeOK
  <2>2. peers[h][o] - pruned[h] < Stale
    BY DEF DiscoveryInv, AgeInv
  <2> QED
    BY <2>1, <2>2, DiscoveryAssumption
<1> QED
  BY <1>1, DiscoveryInvHolds, PTL

---------------------------------------------------------------------------
(* How long a peer that stays up may be silent.  An announcement comes at  *)
(* least every Turn, and MaxLost of them may get lost in a row.            *)
Turn == Announce + Late
Silence(n) == n * Turn

(* The constants of the code: an entry outlives the longest silence, and   *)
(* is shown as long as it is kept.                                         *)
Patient == Silence(MaxLost + 1) < Stale /\ Stale <= Shown

OnItsWay(o, h) == \E m \in Datagram : m.from = o /\ m.to = h /\ net[m] > 0

(* The entry of o is as old as the messages lost since then, and the time  *)
(* since the last announcement, account for; or it may be older, but a     *)
(* message is on its way that makes it new.                                *)
InTouch(h, o) ==
  /\ o \in Known(h)
  /\ \/ peers[h][o] <= Silence(lost[<<o, h>>]) + announced[o]
     \/ OnItsWay(o, h) /\ peers[h][o] <= Silence(MaxLost + 1)

Up(h, o) == {h, o} \subseteq on

(* One more loss allows for one more turn, and there are never too many.   *)
LEMMA SilenceGrows ==
  ASSUME NEW n \in 0 .. MaxLost
  PROVE  /\ Turn \in Nat /\ Silence(n) \in Nat /\ Silence(n + 1) \in Nat
         /\ Silence(n + 1) = Silence(n) + Turn
         /\ Silence(MaxLost + 1) \in Nat
         /\ Silence(n) + Turn <= Silence(MaxLost + 1)
<1>1. Turn \in Nat /\ MaxLost \in Nat /\ n \in Nat /\ n <= MaxLost
  BY DiscoveryAssumption DEF Turn
<1> HIDE DEF Turn
<1>2. n * Turn \in Nat /\ (n + 1) * Turn = n * Turn + Turn
  BY <1>1
<1>3. (MaxLost + 1) * Turn \in Nat
  BY <1>1
<1>4. (n + 1) * Turn <= (MaxLost + 1) * Turn
  <2>1. PICK d \in Nat : MaxLost + 1 = (n + 1) + d
    <3>1. MaxLost - n \in Nat /\ MaxLost + 1 = (n + 1) + (MaxLost - n)
      BY <1>1
    <3> QED
      BY <3>1
  <2>2. ((n + 1) + d) * Turn = (n + 1) * Turn + d * Turn /\ d * Turn \in Nat /\ (n + 1) * Turn \in Nat
    BY <1>1
  <2> DEFINE a == (n + 1) * Turn
             b == d * Turn
             c == (MaxLost + 1) * Turn
  <2>3. c = a + b /\ a \in Nat /\ b \in Nat
    BY <2>1, <2>2
  <2> HIDE DEF a, b, c
  <2>4. a <= c
    BY <2>3
  <2> QED
    BY <2>4 DEF a, c
<1> QED
  BY <1>1, <1>2, <1>3, <1>4 DEF Silence

(* What the invariant says of two hosts that are in touch.                 *)
LEMMA TouchTypes ==
  ASSUME DiscoveryInv, NEW h \in Host, NEW o \in Host
  PROVE  /\ <<o, h>> \in Host \X Host /\ lost[<<o, h>>] \in 0 .. MaxLost
         /\ announced[o] \in Nat /\ announced[o] <= Turn
         /\ Turn \in Nat /\ Silence(lost[<<o, h>>]) \in Nat
         /\ Silence(lost[<<o, h>>]) + Turn <= Silence(MaxLost + 1)
         /\ Silence(MaxLost + 1) \in Nat
         /\ o \in Known(h) => peers[h][o] \in Nat
         /\ InTouch(h, o) => peers[h][o] <= Silence(MaxLost + 1)
<1>1. /\ <<o, h>> \in Host \X Host /\ lost[<<o, h>>] \in 0 .. MaxLost
      /\ announced[o] \in 0 .. Announce + Late
      /\ peers[h] \in [Known(h) -> Nat]
  BY DEF DiscoveryInv, TypeOK
<1>2. announced[o] \in Nat /\ announced[o] <= Turn
  BY <1>1, DiscoveryAssumption DEF Turn
<1>3. /\ Turn \in Nat /\ Silence(lost[<<o, h>>]) \in Nat
      /\ Silence(lost[<<o, h>>]) + Turn <= Silence(MaxLost + 1)
      /\ Silence(MaxLost + 1) \in Nat
  BY <1>1, SilenceGrows
<1>4. o \in Known(h) => peers[h][o] \in Nat
  BY <1>1
<1>5. InTouch(h, o) => peers[h][o] <= Silence(MaxLost + 1)
  <2> HIDE DEF Silence, Turn
  <2> QED
    BY <1>2, <1>3, <1>4 DEF InTouch
<1> QED
  BY <1>1, <1>2, <1>3, <1>4, <1>5

(* A message from o that may get lost, or else is on its way, while the    *)
(* timer of o goes on or starts anew.                                      *)
LEMMA MessageKeepsTouch ==
  ASSUME DiscoveryInv, NEW h \in Host, NEW o \in Host, InTouch(h, o), UNCHANGED peers,
         \/ OnItsWay(o, h)'
         \/ /\ lost[<<o, h>>] < MaxLost /\ lost'[<<o, h>>] = lost[<<o, h>>] + 1
            /\ announced'[o] \in {0, announced[o]}
            /\ ~OnItsWay(o, h)
  PROVE  InTouch(h, o)'
<1> DEFINE l == lost[<<o, h>>]
           a == announced[o]
           t == Silence(l)
           p == peers[h][o]
           s == Silence(MaxLost + 1)
<1>1. /\ l \in 0 .. MaxLost /\ a \in Nat /\ a <= Turn /\ Turn \in Nat /\ t \in Nat
      /\ s \in Nat /\ p \in Nat /\ p <= s
  BY TouchTypes DEF InTouch
<1>2. peers' = peers /\ Known(h)' = Known(h) /\ o \in Known(h)
  BY DEF InTouch, Known
<1>3. CASE OnItsWay(o, h)'
  BY <1>1, <1>2, <1>3 DEF InTouch
<1>4. CASE /\ l < MaxLost /\ lost'[<<o, h>>] = l + 1
           /\ announced'[o] \in {0, a} /\ ~OnItsWay(o, h)
  <2>1. Silence(l + 1) = t + Turn
    BY <1>1, SilenceGrows
  <2>2. p <= t + a
    BY <1>4 DEF InTouch
  <2> DEFINE b == announced'[o]
             u == Silence(l + 1)
  <2>3. b \in Nat
    BY <1>1, <1>4
  <2>4. u = t + Turn
    BY <2>1
  <2> HIDE DEF l, a, t, p, s, b, u, Turn
  <2>5. p <= u + b
    BY <1>1, <2>2, <2>3, <2>4
  <2>6. peers'[h][o] <= Silence(lost'[<<o, h>>]) + announced'[o]
    BY <1>2, <1>4, <2>5 DEF p, u, b
  <2> QED
    BY <1>2, <2>6 DEF InTouch
<1> QED
  BY <1>3, <1>4

(* Steps that do not concern what one of two hosts knows of the other.     *)
LEMMA TouchStays ==
  ASSUME NEW h \in Host, NEW o \in Host, InTouch(h, o),
         o \in Known(h)', peers'[h][o] = peers[h][o],
         announced'[o] = announced[o], lost'[<<o, h>>] = lost[<<o, h>>],
         OnItsWay(o, h) => OnItsWay(o, h)'
  PROVE  InTouch(h, o)'
  BY DEF InTouch

(* The steps of a host: it announces itself, prunes, starts or stops.      *)
LEMMA HostKeepsTouch ==
  ASSUME DiscoveryInv, Patient, NEW h \in Host, NEW o \in Host,
         h # o, <<o, h>> \in Passes, InTouch(h, o), Up(h, o), Up(h, o)', NEW x \in Host,
         Start(x) \/ Stop(x) \/ PeriodicAnnounce(x) \/ PruneStalePeers(x)
  PROVE  InTouch(h, o)'
<1>0. o \in Known(h) /\ DOMAIN peers = Host /\ announced \in [Host -> 0 .. Announce + Late]
  BY DEF InTouch, DiscoveryInv, TypeOK
<1>1. CASE Start(x)
  BY <1>0, <1>1, TouchStays DEF Start, Known, OnItsWay
<1>2. CASE Stop(x)
  <2>1. x # h /\ x # o
    BY <1>2 DEF Stop, Up
  <2>2. peers'[h] = peers[h] /\ announced'[o] = announced[o]
    BY <1>0, <1>2, <2>1 DEF Stop
  <2> QED
    BY <1>0, <1>2, <2>2, TouchStays DEF Stop, Known, OnItsWay
<1>3. CASE PruneStalePeers(x)
  <2>1. UNCHANGED <<announced, net, lost>>
    BY <1>3 DEF PruneStalePeers
  <2>2. CASE x = h
    <3>1. peers[h][o] < Stale
      <4>1. peers[h][o] \in Nat /\ peers[h][o] <= Silence(MaxLost + 1) /\ Silence(MaxLost + 1) \in Nat
        BY <1>0, TouchTypes
      <4>2. Silence(MaxLost + 1) < Stale /\ Stale \in Nat
        BY DiscoveryAssumption DEF Patient
      <4> HIDE DEF Silence
      <4> QED
        BY <4>1, <4>2
    <3> DEFINE entries == [y \in {z \in Known(h) : Fresh(peers[h][z])} |-> peers[h][y]]
    <3>2. peers'[h] = entries
      BY <1>0, <1>3, <2>2 DEF PruneStalePeers
    <3>3. o \in DOMAIN entries /\ entries[o] = peers[h][o]
      BY <1>0, <3>1 DEF Fresh
    <3> HIDE DEF entries
    <3> QED
      BY <2>1, <3>2, <3>3, TouchStays DEF Known, OnItsWay
  <2>3. CASE x # h
    <3>1. peers'[h] = peers[h]
      BY <1>0, <1>3, <2>3 DEF PruneStalePeers
    <3> QED
      BY <1>0, <2>1, <3>1, TouchStays DEF Known, OnItsWay
  <2> QED
    BY <2>2, <2>3
<1>4. CASE PeriodicAnnounce(x)
  <2> DEFINE reached == {y \in Host : <<x, y>> \in Passes}
  <2>1. PICK n \in [reached -> 0 .. Targets] :
          /\ \A y \in reached : n[y] \in Arrivals(x, y, Targets)
          /\ net' = [m \in Datagram |->
                       IF m.from = x /\ m.to \in reached /\ m.announce
                         THEN net[m] + n[m.to] ELSE net[m]]
          /\ lost' = [p \in Host \X Host |->
                        IF p[1] = x /\ p[2] \in reached THEN Loss(x, p[2], n[p[2]]) ELSE lost[p]]
    BY <1>4 DEF PeriodicAnnounce, Broadcast
  <2>2. peers' = peers /\ announced' = [announced EXCEPT ![x] = 0]
    BY <1>4 DEF PeriodicAnnounce
  <2>3. \A y \in reached : n[y] \in Nat
    BY <2>1, DiscoveryAssumption
  <2>4. net \in [Datagram -> Nat] /\ \A m \in Datagram : net'[m] >= net[m]
    BY <2>1, <2>3 DEF DiscoveryInv, TypeOK
  <2>5. OnItsWay(o, h) => OnItsWay(o, h)'
    <3> SUFFICES ASSUME NEW m \in Datagram, m.from = o, m.to = h, net[m] > 0
                 PROVE  OnItsWay(o, h)'
      BY DEF OnItsWay
    <3>1. net'[m] > 0
      <4>1. net[m] \in Nat /\ net'[m] \in Nat
        BY <2>1, <2>3, <2>4
      <4> QED
        BY <2>4, <4>1
    <3> QED
      BY <3>1 DEF OnItsWay
  <2>6. <<o, h>> \in Host \X Host
    OBVIOUS
  <2>7. CASE x = o
    <3>1. h \in reached /\ n[h] \in Arrivals(o, h, Targets) /\ lost'[<<o, h>>] = Loss(o, h, n[h])
      BY <2>1, <2>6, <2>7
    <3>2. CASE n[h] = 0
      <4>1. lost[<<o, h>>] < MaxLost /\ lost'[<<o, h>>] = lost[<<o, h>>] + 1
        BY <3>1, <3>2 DEF Arrivals, Loss
      <4>2. announced'[o] = 0
        BY <1>0, <2>2, <2>7
      <4> QED
        BY <2>2, <2>5, <4>1, <4>2, MessageKeepsTouch
    <3>3. CASE n[h] # 0
      <4> DEFINE m == [from |-> o, to |-> h, announce |-> TRUE]
      <4>1. m \in Datagram /\ net'[m] = net[m] + n[h] /\ net[m] \in Nat
        BY <2>1, <2>4, <2>7, <3>1 DEF Datagram
      <4>2. n[h] > 0
        BY <2>3, <3>1, <3>3
      <4>3. net'[m] > 0 /\ m.from = o /\ m.to = h
        BY <2>3, <3>1, <4>1, <4>2
      <4> HIDE DEF m
      <4>4. OnItsWay(o, h)'
        BY <4>1, <4>3 DEF OnItsWay
      <4> QED
        BY <2>2, <4>4, MessageKeepsTouch
    <3> QED
      BY <3>2, <3>3
  <2>8. CASE x # o
    <3>1. lost'[<<o, h>>] = lost[<<o, h>>] /\ announced'[o] = announced[o]
      BY <1>0, <2>1, <2>2, <2>6, <2>8
    <3> QED
      BY <1>0, <2>2, <2>5, <3>1, TouchStays DEF Known
  <2> QED
    BY <2>7, <2>8
<1> QED
  BY <1>1, <1>2, <1>3, <1>4

(* A probe, which waits for what is in flight.                             *)
LEMMA ProbeKeepsTouch ==
  ASSUME DiscoveryInv, NEW h \in Host, NEW o \in Host, h # o, InTouch(h, o),
         NEW x \in Host, NEW y \in Host, ManualConnect(x, y)
  PROVE  InTouch(h, o)'
<1> DEFINE probe == [from |-> x, to |-> y, announce |-> TRUE]
<1>1. PICK n \in Arrivals(x, y, 1) :
        /\ net' = [net EXCEPT ![probe] = n]
        /\ lost' = [lost EXCEPT ![<<x, y>>] = Loss(x, y, n)]
  BY DEF ManualConnect
<1>2. UNCHANGED <<on, peers, announced>>
  BY DEF ManualConnect
<1>3. /\ net \in [Datagram -> Nat] /\ lost \in [Host \X Host -> 0 .. MaxLost]
      /\ probe \in Datagram /\ <<o, h>> \in Host \X Host /\ <<x, y>> \in Host \X Host
      /\ n \in Nat
  <2>1. net \in [Datagram -> Nat] /\ lost \in [Host \X Host -> 0 .. MaxLost]
    BY DEF DiscoveryInv, TypeOK
  <2>2. probe \in Datagram
    BY DEF Datagram
  <2>3. n \in Nat
    BY DEF Arrivals
  <2> QED
    BY <2>1, <2>2, <2>3
<1>4. probe.from = x /\ probe.to = y
  OBVIOUS
<1> HIDE DEF probe
<1>5. net'[probe] = n /\ \A m \in Datagram : m # probe => net'[m] = net[m]
  BY <1>1, <1>3
<1>6. CASE x = o /\ y = h
  <2>1. ~OnItsWay(o, h)
    <3> SUFFICES ASSUME NEW m \in Datagram, m.from = o, m.to = h, net[m] > 0 PROVE FALSE
      BY DEF OnItsWay
    <3>1. net[m] = 0
      BY <1>6 DEF ManualConnect, Idle
    <3> QED
      BY <3>1
  <2>2. lost'[<<o, h>>] = Loss(o, h, n) /\ n \in Arrivals(o, h, 1)
    BY <1>1, <1>3, <1>6
  <2>3. CASE n = 0
    <3>1. lost[<<o, h>>] < MaxLost /\ lost'[<<o, h>>] = lost[<<o, h>>] + 1
      BY <2>2, <2>3 DEF Arrivals, Loss
    <3> QED
      BY <1>2, <2>1, <3>1, MessageKeepsTouch
  <2>4. CASE n # 0
    <3>1. net'[probe] > 0
      BY <1>3, <1>5, <2>4
    <3>2. OnItsWay(o, h)'
      BY <1>3, <1>4, <1>6, <3>1 DEF OnItsWay
    <3> QED
      BY <1>2, <3>2, MessageKeepsTouch
  <2> QED
    BY <2>3, <2>4
<1>7. CASE ~(x = o /\ y = h)
  <2>1. lost'[<<o, h>>] = lost[<<o, h>>]
    BY <1>1, <1>3, <1>7
  <2>2. OnItsWay(o, h) => OnItsWay(o, h)'
    BY <1>4, <1>5, <1>7 DEF OnItsWay
  <2>3. o \in Known(h)'
    BY <1>2 DEF InTouch, Known
  <2> QED
    BY <1>2, <2>1, <2>2, <2>3, TouchStays
<1> QED
  BY <1>6, <1>7

(* A datagram is taken from the network: one from o makes the entry new,   *)
(* and what a host answers does no harm.                                   *)
LEMMA ListenKeepsTouch ==
  ASSUME DiscoveryInv, NEW h \in Host, NEW o \in Host, h # o, InTouch(h, o), Up(h, o),
         NEW m \in Datagram, Listen(m)
  PROVE  InTouch(h, o)'
<1>1. /\ m.from \in Host /\ m.to \in Host /\ Reply(m) \in Datagram
      /\ Reply(m).from = m.to /\ Reply(m).to = m.from
  BY DEF Datagram, Reply
<1>2. /\ net \in [Datagram -> Nat] /\ lost \in [Host \X Host -> 0 .. MaxLost]
      /\ DOMAIN peers = Host /\ <<o, h>> \in Host \X Host
      /\ o \in Known(h) /\ UNCHANGED <<on, announced>> /\ net[m] > 0
  BY DEF DiscoveryInv, TypeOK, InTouch, Listen
<1>3. /\ Took(m) \in [Datagram -> Nat]
      /\ \A d \in Datagram : d # m => Took(m)[d] = net[d]
  BY <1>2 DEF Took
<1>4. \/ net' = Took(m) /\ UNCHANGED lost
      \/ /\ m.to \in on /\ Foreign(m)
         /\ \E n \in Arrivals(m.to, m.from, 1) :
              /\ net' = [Took(m) EXCEPT ![Reply(m)] = @ + n]
              /\ lost' = [lost EXCEPT ![<<m.to, m.from>>] = Loss(m.to, m.from, n)]
  BY DEF Listen
<1>5. CASE m.from = o /\ m.to = h
  <2>1. AddPeer(h, o)
    BY <1>5 DEF Listen, Up, Foreign
  <2> DEFINE entries == [x \in Known(h) \cup {o} |-> IF x = o THEN 0 ELSE peers[h][x]]
  <2>2. peers'[h] = entries
    BY <1>2, <2>1 DEF AddPeer
  <2>3. o \in Known(h)' /\ peers'[h][o] = 0
    BY <2>2 DEF Known
  <2>4. lost'[<<o, h>>] = lost[<<o, h>>]
    <3>1. <<m.to, m.from>> # <<o, h>>
      BY <1>5
    <3> QED
      BY <1>2, <1>4, <3>1
  <2>5. Silence(lost[<<o, h>>]) \in Nat /\ announced[o] \in Nat
    BY TouchTypes
  <2> HIDE DEF Silence
  <2>6. peers'[h][o] <= Silence(lost'[<<o, h>>]) + announced'[o]
    BY <1>2, <2>3, <2>4, <2>5
  <2> QED
    BY <2>3, <2>6 DEF InTouch
<1>6. CASE ~(m.from = o /\ m.to = h)
  <2>1. o \in Known(h)' /\ peers'[h][o] = peers[h][o]
    <3>1. CASE peers' = peers
      BY <1>2, <3>1 DEF Known
    <3>2. CASE AddPeer(m.to, m.from)
      <4>1. CASE m.to = h
        <5> DEFINE entries == [x \in Known(h) \cup {m.from} |-> IF x = m.from THEN 0 ELSE peers[h][x]]
        <5>1. peers'[h] = entries
          BY <1>2, <3>2, <4>1 DEF AddPeer
        <5>2. m.from # o
          BY <1>6, <4>1
        <5> QED
          BY <1>2, <5>1, <5>2 DEF Known
      <4>2. CASE m.to # h
        <5>1. peers'[h] = peers[h]
          BY <1>2, <3>2, <4>2 DEF AddPeer
        <5> QED
          BY <1>2, <5>1 DEF Known
      <4> QED
        BY <4>1, <4>2
    <3> QED
      BY <3>1, <3>2 DEF Listen
  <2>2. OnItsWay(o, h) => \E d \in Datagram : d.from = o /\ d.to = h /\ Took(m)[d] > 0
    BY <1>3, <1>6 DEF OnItsWay
  <2>3. OnItsWay(o, h) => OnItsWay(o, h)'
    <3>1. \A d \in Datagram : net'[d] >= Took(m)[d] /\ net'[d] \in Nat
      <4>1. CASE net' = Took(m)
        BY <1>3, <4>1
      <4>2. CASE \E n \in Arrivals(m.to, m.from, 1) : net' = [Took(m) EXCEPT ![Reply(m)] = @ + n]
        <5>1. PICK n \in Arrivals(m.to, m.from, 1) : net' = [Took(m) EXCEPT ![Reply(m)] = @ + n]
          BY <4>2
        <5>2. n \in Nat
          BY DEF Arrivals
        <5> QED
          BY <1>1, <1>3, <5>1, <5>2
      <4> QED
        BY <1>4, <4>1, <4>2
    <3>2. ASSUME NEW d \in Datagram, Took(m)[d] > 0 PROVE net'[d] > 0
      <4>1. net'[d] >= Took(m)[d] /\ net'[d] \in Nat /\ Took(m)[d] \in Nat
        BY <1>3, <3>1
      <4> QED
        BY <3>2, <4>1
    <3> QED
      BY <2>2, <3>2 DEF OnItsWay
  <2>4. CASE lost'[<<o, h>>] = lost[<<o, h>>]
    BY <1>2, <2>1, <2>3, <2>4, TouchStays
  <2>5. CASE lost'[<<o, h>>] # lost[<<o, h>>]
    <3>1. /\ m.to = o /\ m.from = h
          /\ \E n \in Arrivals(o, h, 1) :
               /\ net' = [Took(m) EXCEPT ![Reply(m)] = @ + n]
               /\ lost' = [lost EXCEPT ![<<o, h>>] = Loss(o, h, n)]
      <4>1. PICK n \in Arrivals(m.to, m.from, 1) :
              /\ net' = [Took(m) EXCEPT ![Reply(m)] = @ + n]
              /\ lost' = [lost EXCEPT ![<<m.to, m.from>>] = Loss(m.to, m.from, n)]
        BY <1>4, <2>5
      <4>2. <<m.to, m.from>> = <<o, h>>
        BY <1>1, <1>2, <2>5, <4>1
      <4> QED
        BY <4>1, <4>2
    <3>2. PICK n \in Arrivals(o, h, 1) :
            /\ net' = [Took(m) EXCEPT ![Reply(m)] = @ + n]
            /\ lost' = [lost EXCEPT ![<<o, h>>] = Loss(o, h, n)]
      BY <3>1
    <3>3. n \in Nat /\ lost'[<<o, h>>] = Loss(o, h, n)
      BY <1>2, <3>2 DEF Arrivals
    <3>4. CASE OnItsWay(o, h)'
      BY <1>2, <2>1, <3>4, TouchTypes DEF InTouch
    <3>5. CASE ~OnItsWay(o, h)'
      <4>1. n = 0
        <5>1. CASE n > 0
          <6>1. net'[Reply(m)] = Took(m)[Reply(m)] + n /\ Took(m)[Reply(m)] \in Nat
            BY <1>1, <1>3, <3>2
          <6>2. net'[Reply(m)] > 0
            BY <3>3, <5>1, <6>1
          <6>3. OnItsWay(o, h)'
            BY <1>1, <3>1, <6>2 DEF OnItsWay
          <6> QED
            BY <3>5, <6>3
        <5> QED
          BY <3>3, <5>1
      <4>2. lost[<<o, h>>] < MaxLost /\ lost'[<<o, h>>] = lost[<<o, h>>] + 1
        BY <3>2, <3>3, <4>1 DEF Arrivals, Loss
      <4> DEFINE l == lost[<<o, h>>]
                 a == announced[o]
                 t == Silence(l)
                 u == Silence(l + 1)
                 p == peers[h][o]
      <4>3. l \in 0 .. MaxLost /\ a \in Nat /\ t \in Nat /\ Turn \in Nat /\ p \in Nat
        BY <1>2, TouchTypes
      <4>4. u = t + Turn
        BY <4>3, SilenceGrows
      <4>5. p <= t + a
        BY <2>3, <3>5 DEF InTouch
      <4> HIDE DEF l, a, t, u, p, Turn
      <4>6. p <= u + a
        BY <4>3, <4>4, <4>5
      <4>7. peers'[h][o] <= Silence(lost'[<<o, h>>]) + announced'[o]
        BY <1>2, <2>1, <4>2, <4>6 DEF p, u, a, l
      <4> QED
        BY <2>1, <4>7 DEF InTouch
    <3> QED
      BY <3>4, <3>5
  <2> QED
    BY <2>4, <2>5
<1> QED
  BY <1>5, <1>6

(* Time passes only when nothing is in flight, for the entry and for the   *)
(* timer alike.                                                            *)
LEMMA TickKeepsTouch ==
  ASSUME DiscoveryInv, NEW h \in Host, NEW o \in Host, InTouch(h, o), Up(h, o), Tick
  PROVE  InTouch(h, o)'
<1>1. \A m \in Datagram : net[m] = 0
  BY DEF Tick
<1>2. ~OnItsWay(o, h)
  BY <1>1 DEF OnItsWay
<1>3. peers'[h] = [x \in Known(h) |-> peers[h][x] + 1] /\ o \in Known(h)
  BY DEF Tick, InTouch
<1>4. o \in Known(h)' /\ peers'[h][o] = peers[h][o] + 1
  BY <1>3 DEF Known
<1>5. announced'[o] = announced[o] + 1 /\ lost' = lost
  BY DEF Tick, Up
<1>6. peers[h][o] <= Silence(lost[<<o, h>>]) + announced[o]
  BY <1>2 DEF InTouch
<1>7. peers[h][o] \in Nat /\ Silence(lost[<<o, h>>]) \in Nat /\ announced[o] \in Nat
  BY <1>3, TouchTypes
<1> HIDE DEF Silence
<1>8. peers'[h][o] <= Silence(lost'[<<o, h>>]) + announced'[o]
  BY <1>4, <1>5, <1>6, <1>7
<1> QED
  BY <1>4, <1>8 DEF InTouch

(* So two hosts stay in touch as long as both are up.                      *)
LEMMA StayInTouch ==
  ASSUME DiscoveryInv, Patient, NEW h \in Host, NEW o \in Host, h # o, <<o, h>> \in Passes,
         InTouch(h, o), Up(h, o), Up(h, o)', [Next]_vars
  PROVE  InTouch(h, o)'
<1>1. CASE UNCHANGED vars
  <2>1. o \in Known(h)
    BY DEF InTouch
  <2> QED
    BY <1>1, <2>1, TouchStays DEF vars, Known, OnItsWay
<1>2. CASE Next
  BY <1>2, HostKeepsTouch, ProbeKeepsTouch, ListenKeepsTouch, TickKeepsTouch DEF Next
<1> QED
  BY <1>1, <1>2

(* A peer whose broadcasts get through is listed from the moment it is     *)
(* heard of as long as both hosts are up, if the constants are such that   *)
(* an entry outlives the longest silence (discovery.rs:12-13).             *)
THEOREM PeersStay == ASSUME Patient PROVE Spec => NoFlicker
<1> SUFFICES ASSUME NEW h \in Host, NEW o \in Host, h # o, <<o, h>> \in Passes
             PROVE  Spec => [](Heard(h, o) /\ []Up(h, o) => [](o \in Listed(h)))
  BY DEF NoFlicker, Up
<1>1. DiscoveryInv /\ Heard(h, o) => InTouch(h, o)
  <2> SUFFICES ASSUME DiscoveryInv, Heard(h, o) PROVE InTouch(h, o)
    OBVIOUS
  <2>1. o \in Known(h) /\ peers[h][o] = 0
    BY DEF Heard
  <2>2. Silence(lost[<<o, h>>]) \in Nat /\ announced[o] \in Nat
    BY TouchTypes
  <2> HIDE DEF Silence
  <2> QED
    BY <2>1, <2>2 DEF InTouch
<1>2. DiscoveryInv /\ InTouch(h, o) /\ Up(h, o) /\ Up(h, o)' /\ [Next]_vars => InTouch(h, o)'
  BY StayInTouch
<1>3. DiscoveryInv /\ InTouch(h, o) => o \in Listed(h)
  <2> SUFFICES ASSUME DiscoveryInv, InTouch(h, o) PROVE o \in Listed(h)
    OBVIOUS
  <2>1. o \in Known(h)
    BY DEF InTouch
  <2>2. /\ peers[h][o] \in Nat /\ peers[h][o] <= Silence(MaxLost + 1)
        /\ Silence(MaxLost + 1) \in Nat
    BY <2>1, TouchTypes
  <2>3. Silence(MaxLost + 1) < Stale /\ Stale <= Shown /\ Stale \in Nat /\ Shown \in Nat
    BY DiscoveryAssumption DEF Patient
  <2> HIDE DEF Silence
  <2>4. peers[h][o] < Shown
    BY <2>2, <2>3
  <2> QED
    BY <2>1, <2>4 DEF Listed
<1> HIDE DEF Heard, InTouch, Up, Listed
<1> QED
  BY <1>1, <1>2, <1>3, DiscoveryInvHolds, PTL DEF Spec
=============================================================================
