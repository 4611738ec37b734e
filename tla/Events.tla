------------------------------- MODULE Events -------------------------------
(***************************************************************************)
(* AppState.events, the broadcast channel that feeds the WebSocket of      *)
(* every tab, and handle_ws on the reading side (src/src/server.rs).  It   *)
(* keeps the last Capacity events: what a subscriber has not read by then  *)
(* is gone, and handle_ws reads on from the oldest there is.               *)
(***************************************************************************)
EXTENDS Naturals, Sequences

CONSTANTS
  Tab,        \* browser tabs with the page open
  Capacity    \* events the channel keeps (256)

ASSUME EventsAssumption == Capacity \in Nat \ {0}

VARIABLES
  events,     \* what the WebSocket of each tab has not read yet
  linked      \* the tabs whose WebSocket is subscribed

linkVars == <<events, linked>>

Event(type, s) == [type |-> type, session |-> s]

(* Variant for the runs to refute, not the code: nothing is ever dropped.  *)
AllKept(es) == es

Kept(es) == IF Len(es) > Capacity THEN Tail(es) ELSE es

(* emit: to whoever is subscribed.                                         *)
Emit(e) ==
  /\ events' = [t \in Tab |-> IF t \in linked THEN Kept(Append(events[t], e)) ELSE <<>>]
  /\ UNCHANGED linked

(* handle_ws subscribes a tab that has connected.                          *)
Subscribe(t) ==
  /\ t \notin linked
  /\ linked' = linked \cup {t}
  /\ UNCHANGED events

(* What was not read goes with the socket.                                 *)
Unsubscribe(tabs) ==
  /\ linked' = linked \ tabs
  /\ events' = [t \in Tab |-> IF t \in tabs THEN <<>> ELSE events[t]]
=============================================================================
