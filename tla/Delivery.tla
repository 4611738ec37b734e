------------------------------ MODULE Delivery ------------------------------
(***************************************************************************)
(* What a session promises the user of the receiving host, whatever the    *)
(* sender, the network and the disk do: nothing starts before they have    *)
(* agreed; files come one at a time, in the order of the manifest; a file  *)
(* is first partial, and then either landed -- whole, and for good -- or   *)
(* lost; once the session is closed nothing new starts or lands, and when  *)
(* it is over nothing is partial any more.  A lost file takes what there   *)
(* is of it along, unless something outside the program goes wrong in that *)
(* very step: then, and only then, it is left behind.                      *)
(***************************************************************************)
EXTENDS Naturals

CONSTANT NFiles

VARIABLES
  agreed,   \* the user has agreed to receive the files
  phase,    \* "Asking", "Open", "Closed" or "Over"
  place,    \* per file: "Absent", "Partial", "Landed", "Lost" or "Left"
  faults    \* how often something outside the program has gone wrong

vars == <<agreed, phase, place, faults>>

Files == 1 .. NFiles

Init ==
  /\ agreed = FALSE
  /\ phase = "Asking"
  /\ place = [f \in Files |-> "Absent"]
  /\ faults = 0

Agree == agreed' = TRUE /\ UNCHANGED <<phase, place>>

Open ==
  /\ phase = "Asking" /\ agreed
  /\ phase' = "Open"
  /\ UNCHANGED <<agreed, place>>

Moves(f, from, to) ==
  /\ place[f] = from
  /\ place' = [place EXCEPT ![f] = to]
  /\ UNCHANGED agreed

Begin(f) ==
  /\ phase = "Open"
  /\ \A g \in 1 .. f - 1 : place[g] \in {"Landed", "Lost", "Left"}
  /\ Moves(f, "Absent", "Partial")
  /\ UNCHANGED phase

Land(f) == phase = "Open" /\ Moves(f, "Partial", "Landed") /\ UNCHANGED phase

(* A file that is not as it should be, while the session goes on.          *)
Lose(f) == phase = "Open" /\ Moves(f, "Partial", "Lost") /\ UNCHANGED phase

Shut ==
  /\ phase \in {"Asking", "Open"}
  /\ phase' = "Closed"
  /\ UNCHANGED <<agreed, place>>

(* What was partial when the session closed is removed.                    *)
Sweep(f) ==
  /\ phase = "Closed"
  /\ \E to \in {"Absent", "Lost"} : Moves(f, "Partial", to)
  /\ UNCHANGED phase

(* What is partial cannot be removed; the session may close on it.         *)
Leave(f) ==
  /\ phase \in {"Open", "Closed"}
  /\ Moves(f, "Partial", "Left")
  /\ phase' \in {phase, "Closed"}
  /\ faults' # faults

Finish ==
  /\ phase = "Closed"
  /\ \A f \in Files : place[f] # "Partial"
  /\ phase' = "Over"
  /\ UNCHANGED <<agreed, place>>

(* Something else goes wrong, or on, and takes nothing from the promise.   *)
NoHarm == UNCHANGED <<agreed, phase, place>>

Next ==
  /\ faults' \in {faults, faults + 1}
  /\ \/ Agree \/ Open \/ Shut \/ Finish \/ NoHarm
     \/ \E f \in Files : Begin(f) \/ Land(f) \/ Lose(f) \/ Sweep(f) \/ Leave(f)

Spec == Init /\ [][Next]_vars
=============================================================================
