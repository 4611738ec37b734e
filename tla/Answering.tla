------------------------------ MODULE Answering ------------------------------
(***************************************************************************)
(* What a host promises whoever answers when it asks about a session: an   *)
(* answer counts at most once, for the first to give it, as long as the    *)
(* host has not stopped listening; an answer that was there before the     *)
(* time was up stands, and nothing but the time can make a rejection of    *)
(* it; when the question is over its verdict does not change any more.     *)
(* Taking the question and answering it is one step here.                  *)
(***************************************************************************)
CONSTANTS
  Session,
  Restarts  \* whether the host may stop and be started again

VARIABLES
  stage,    \* of the question about a session: "before", "asking", "late" or "over"
  open,     \* the sessions whose question nobody has taken yet
  verdict   \* "none", "yes" or "no"

vars == <<stage, open, verdict>>

Init ==
  /\ stage = [s \in Session |-> "before"]
  /\ open = {}
  /\ verdict = [s \in Session |-> "none"]

Goes(s, from, to) == stage[s] = from /\ stage' = [stage EXCEPT ![s] = to]
Says(s, v)        == verdict' = [verdict EXCEPT ![s] = v]

Ask(s) ==
  /\ Goes(s, "before", "asking")
  /\ open' = open \cup {s}
  /\ UNCHANGED verdict

Answer(s, v) ==
  /\ s \in open /\ open' = open \ {s}
  /\ stage[s] \in {"asking", "late"} /\ verdict[s] = "none"
  /\ Says(s, v)
  /\ UNCHANGED stage

(* The time is up and nobody has answered: who hurries may still do so ... *)
Expire(s) ==
  /\ verdict[s] = "none"
  /\ Goes(s, "asking", "late")
  /\ UNCHANGED <<open, verdict>>

(* ... but it is a rejection, whatever comes.                              *)
Reject(s) ==
  /\ Goes(s, "late", "over")
  /\ Says(s, "no")
  /\ UNCHANGED open

Conclude(s) ==
  /\ verdict[s] # "none"
  /\ Goes(s, "asking", "over")
  /\ UNCHANGED <<open, verdict>>

(* A question that is over is put away, or taken in vain.                  *)
Withdraw(s) ==
  /\ stage[s] = "over"
  /\ open' = open \ {s}
  /\ UNCHANGED <<stage, verdict>>

(* The host finds that there is nothing to ask.                            *)
Skip(s) == Goes(s, "before", "over") /\ UNCHANGED <<open, verdict>>

(* The host stops: nobody waits any more, whatever was said.               *)
Stop(ss) ==
  /\ Restarts
  /\ \A s \in Session \ ss : stage[s] \notin {"asking", "late"}
  /\ stage' = [s \in Session |-> IF s \in ss THEN "over" ELSE stage[s]]
  /\ open' = {}
  /\ UNCHANGED verdict

Next ==
  \/ \E s \in Session :
       \/ Ask(s) \/ Skip(s) \/ Expire(s) \/ Reject(s) \/ Conclude(s) \/ Withdraw(s)
       \/ \E v \in {"yes", "no"} : Answer(s, v)
  \/ \E ss \in SUBSET Session : Stop(ss)

Spec == Init /\ [][Next]_vars
=============================================================================
