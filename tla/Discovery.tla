------------------------------ MODULE Discovery ------------------------------
(***************************************************************************)
(* How hosts find each other over UDP (DiscoveryService in                 *)
(* src/src/discovery.rs, the peers of AppState in src/src/state.rs, the    *)
(* probe of manual_connect in src/src/server.rs).  A host announces itself *)
(* by broadcast every Announce, answers announcements to their sender      *)
(* alone, and every Stale forgets the peers it has not heard from.         *)
(*                                                                         *)
(* Time is counted in ticks, the ages of entries and timers instead of     *)
(* clock readings: last_seen is an age of 0.  A task that sleeps runs at   *)
(* most Late ticks after its timer is due; datagrams arrive within a tick  *)
(* or not at all.  A host stands for its fingerprint and its address.      *)
(***************************************************************************)
EXTENDS Integers, FiniteSets

CONSTANTS
  Host,
  Passes,     \* <<h, o>>: the network lets broadcasts of h through to o
  Probed,     \* <<h, o>>: the user of h connects to the address of o
  Targets,    \* broadcast addresses each announcement is sent to (3)
  Announce,   \* ANNOUNCE_INTERVAL in ticks
  Stale,      \* STALE_TIMEOUT in ticks
  Shown,      \* age from which get_peers leaves a peer out (30 s), in ticks
  Late,       \* how late a sleeping task may run, in ticks
  MaxLost     \* messages in a row that may get lost between two hosts

ASSUME DiscoveryAssumption ==
  /\ IsFiniteSet(Host)
  /\ Passes \subseteq Host \X Host /\ Probed \subseteq Host \X Host
  /\ Targets \in Nat \ {0} /\ Announce \in Nat \ {0} /\ Stale \in Nat \ {0}
  /\ Shown \in Nat /\ Late \in Nat /\ MaxLost \in Nat

VARIABLES
  on,         \* the hosts whose discovery runs, with its socket bound
  peers,      \* AppState.peers of each host: the age of each entry
  announced,  \* ticks since periodic_announce last went to sleep
  pruned,     \* ticks since prune_stale_peers last went to sleep
  net,        \* copies of each datagram in flight
  lost        \* messages lost in a row, from one host to another

vars == <<on, peers, announced, pruned, net, lost>>

Datagram == [from : Host, to : Host, announce : BOOLEAN]

Known(h) == DOMAIN peers[h]

TypeOK ==
  /\ on \subseteq Host
  /\ DOMAIN peers = Host
  /\ \A h \in Host : Known(h) \subseteq Host /\ peers[h] \in [Known(h) -> Nat]
  /\ announced \in [Host -> 0 .. Announce + Late]
  /\ pruned \in [Host -> 0 .. Stale + Late]
  /\ net \in [Datagram -> Nat]
  /\ lost \in [Host \X Host -> 0 .. MaxLost]

Nobody == [o \in {} |-> 0]

Init ==
  /\ on = {}
  /\ peers = [h \in Host |-> Nobody]
  /\ announced = [h \in Host |-> 0]
  /\ pruned = [h \in Host |-> 0]
  /\ net = [m \in Datagram |-> 0]
  /\ lost = [p \in Host \X Host |-> 0]

---------------------------------------------------------------------------
(* start (lib.rs): a first sleep comes before the first announcement.      *)
Start(h) ==
  /\ h \notin on
  /\ on' = on \cup {h}
  /\ UNCHANGED <<peers, announced, pruned, net, lost>>

(* The process ends, however it does: the list was only in memory, and so  *)
(* were its tasks.                                                         *)
Stop(h) ==
  /\ h \in on
  /\ on' = on \ {h}
  /\ peers' = [peers EXCEPT ![h] = Nobody]
  /\ announced' = [announced EXCEPT ![h] = 0]
  /\ pruned' = [pruned EXCEPT ![h] = 0]
  /\ UNCHANGED <<net, lost>>

(* What may become of k copies sent from h to o.                           *)
Arrivals(h, o, k) == {n \in 0 .. k : n = 0 => lost[<<h, o>>] < MaxLost}

Loss(h, o, n) == IF n = 0 THEN lost[<<h, o>>] + 1 ELSE 0

(* announce: best effort on every broadcast address, which also brings it  *)
(* back to the host itself.                                                *)
Broadcast(h) ==
  LET reached == {o \in Host : <<h, o>> \in Passes}
  IN  \E n \in [reached -> 0 .. Targets] :
        /\ \A o \in reached : n[o] \in Arrivals(h, o, Targets)
        /\ net' = [m \in Datagram |->
                     IF m.from = h /\ m.to \in reached /\ m.announce
                       THEN net[m] + n[m.to] ELSE net[m]]
        /\ lost' = [p \in Host \X Host |->
                      IF p[1] = h /\ p[2] \in reached THEN Loss(h, p[2], n[p[2]]) ELSE lost[p]]

PeriodicAnnounce(h) ==
  /\ h \in on /\ announced[h] >= Announce
  /\ announced' = [announced EXCEPT ![h] = 0]
  /\ Broadcast(h)
  /\ UNCHANGED <<on, peers, pruned>>

(* manual_connect: the same message to one address, through the socket     *)
(* discovery has bound.  The model has the user wait for what is in flight.*)
Idle(h, o) == \A m \in Datagram : {m.from, m.to} = {h, o} => net[m] = 0

ManualConnect(h, o) ==
  LET probe == [from |-> h, to |-> o, announce |-> TRUE]
  IN  /\ h \in on /\ <<h, o>> \in Probed /\ Idle(h, o)
      /\ \E n \in Arrivals(h, o, 1) :
           /\ net' = [net EXCEPT ![probe] = n]
           /\ lost' = [lost EXCEPT ![<<h, o>>] = Loss(h, o, n)]
      /\ UNCHANGED <<on, peers, announced, pruned>>

(* A message with the host's own fingerprint is its own broadcast.         *)
Foreign(m) == m.from # m.to

Took(m) == [net EXCEPT ![m] = @ - 1]

(* Variants for the runs to refute, not the code: a reply that asks for a  *)
(* reply again, and no reply to a peer that is known.                      *)
AskingReply(m) == [from |-> m.to, to |-> m.from, announce |-> TRUE]
AnswersStrangers(m) == m.announce /\ m.from \notin Known(m.to)

(* "Answer announcements directly": unicast, and it asks for no answer.    *)
Reply(m) == [from |-> m.to, to |-> m.from, announce |-> FALSE]
Answers(m) == m.announce

(* Variant for the runs to refute, not the code: last_seen comes from the  *)
(* clock of the peer, which is ahead.                                      *)
AddPeerAhead(h, o) ==
  peers' = [peers EXCEPT ![h] = [x \in Known(h) \cup {o} |-> IF x = o THEN -1 ELSE peers[h][x]]]

(* Variant for the runs to refute, not the code: the entry of a peer that  *)
(* is known is left as it is.                                              *)
AddPeerOnce(h, o) ==
  peers' = [peers EXCEPT ![h] = [x \in Known(h) \cup {o} |-> IF x \in Known(h) THEN peers[h][x] ELSE 0]]

(* add_peer: the entry is there, seen now.                                 *)
AddPeer(h, o) ==
  peers' = [peers EXCEPT ![h] = [x \in Known(h) \cup {o} |-> IF x = o THEN 0 ELSE peers[h][x]]]

(* One turn of listen.  A datagram for a host that is down goes nowhere.   *)
Listen(m) ==
  /\ net[m] > 0
  /\ IF m.to \in on /\ Foreign(m)
       THEN /\ AddPeer(m.to, m.from)
            /\ IF Answers(m)
                 THEN \E n \in Arrivals(m.to, m.from, 1) :
                        /\ net' = [Took(m) EXCEPT ![Reply(m)] = @ + n]
                        /\ lost' = [lost EXCEPT ![<<m.to, m.from>>] = Loss(m.to, m.from, n)]
                 ELSE net' = Took(m) /\ UNCHANGED lost
       ELSE net' = Took(m) /\ UNCHANGED <<peers, lost>>
  /\ UNCHANGED <<on, announced, pruned>>

(* Variants for the runs to refute, not the code: the limit is off by one, *)
(* to either side.                                                         *)
FreshTooLong(age) == age <= Stale
FreshTooShort(age) == age < Stale - 1

Fresh(age) == age < Stale

PruneStalePeers(h) ==
  /\ h \in on /\ pruned[h] >= Stale
  /\ pruned' = [pruned EXCEPT ![h] = 0]
  /\ peers' = [peers EXCEPT ![h] = [o \in {x \in Known(h) : Fresh(@[x])} |-> @[o]]]
  /\ UNCHANGED <<on, announced, net, lost>>

(* get_peers                                                               *)
Listed(h) == {o \in Known(h) : peers[h][o] < Shown}

(* A tick: nothing is in flight any more and no task is overdue.           *)
Tick ==
  /\ \A m \in Datagram : net[m] = 0
  /\ \A h \in on : announced[h] < Announce + Late /\ pruned[h] < Stale + Late
  /\ peers' = [h \in Host |-> [o \in Known(h) |-> peers[h][o] + 1]]
  /\ announced' = [h \in Host |-> IF h \in on THEN announced[h] + 1 ELSE announced[h]]
  /\ pruned' = [h \in Host |-> IF h \in on THEN pruned[h] + 1 ELSE pruned[h]]
  /\ UNCHANGED <<on, net, lost>>

Next ==
  \/ \E h \in Host :
       Start(h) \/ Stop(h) \/ PeriodicAnnounce(h) \/ PruneStalePeers(h)
  \/ \E h, o \in Host : ManualConnect(h, o)
  \/ \E m \in Datagram : Listen(m)
  \/ Tick

Spec == Init /\ [][Next]_vars

(* Time passes, the runtime polls the tasks that are due, and the socket   *)
(* of a host that listens is read.  Nobody has to start, stop or probe.    *)
FairSpec ==
  /\ Spec
  /\ WF_vars(Tick)
  /\ \A h \in Host : WF_vars(PeriodicAnnounce(h)) /\ WF_vars(PruneStalePeers(h))
  /\ \A m \in Datagram : WF_vars(Listen(m))

---------------------------------------------------------------------------
(* A peer that has gone is out of the list within two STALE_TIMEOUT, since *)
(* the pruning comes that often at worst; the 30 s of get_peers are never  *)
(* reached (discovery.rs:161, state.rs:203).                               *)
NoGhosts == \A h \in Host : \A o \in Known(h) : peers[h][o] < 2 * Stale + Late

(* A host whose broadcasts get through ends up in the list of another and  *)
(* does not flicker there any more while both stay up, with MaxLost        *)
(* messages in a row lost and the announcer as late as it may be: pruning  *)
(* does not take it for stale (discovery.rs:12-13).                        *)
StaysListed ==
  \A h, o \in Host :
    h # o /\ <<o, h>> \in Passes => (<>[]({h, o} \subseteq on) => <>[](o \in Listed(h)))

(* From the moment a peer like that is heard of it is listed all the time  *)
(* both are up: the longest silence there may be is shorter than           *)
(* STALE_TIMEOUT, and what the host is sent or probes in between does not  *)
(* make it longer (discovery.rs:12-13, state.rs:203).                      *)
Heard(h, o) == o \in Known(h) /\ peers[h][o] = 0
NoFlicker ==
  \A h, o \in Host :
    h # o /\ <<o, h>> \in Passes =>
      [](Heard(h, o) /\ []({h, o} \subseteq on) => [](o \in Listed(h)))

(* Unless someone keeps probing or restarting, the answers an announcement *)
(* sets off come to an end: an answer is not answered (discovery.rs:136).  *)
Undisturbed == UNCHANGED on /\ \A h, o \in Host : ~ManualConnect(h, o)
ComesToRest == <>[][Undisturbed]_vars => []<>(\A m \in Datagram : net[m] = 0)

(* Two hosts that stay up find each other, and do so again after every     *)
(* loss, also where broadcasts pass only one way: the unicast reply is     *)
(* what brings the other half (discovery.rs:133, README.md:10).            *)
Linked(h, o) == <<h, o>> \in Passes \/ <<o, h>> \in Passes
FindEachOther ==
  \A h, o \in Host : h # o /\ Linked(h, o) => (<>[]({h, o} \subseteq on) => []<>(o \in Listed(h)))
=============================================================================
