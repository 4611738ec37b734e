--------------------------------- MODULE Tcp ---------------------------------
(***************************************************************************)
(* The TCP connection under a session, as the program meets it through     *)
(* tokio's TcpStream.  It is not code of the repository; it is modelled    *)
(* from how src/src/transfer.rs depends on it:                             *)
(*                                                                         *)
(*   - each direction is a bounded FIFO of frames (socket buffers), and a  *)
(*     write waits while the buffer is full (backpressure);                *)
(*   - dropping the stream ends the peer's input (FIN) -- unless unread    *)
(*     input is thrown away with it, which sends a RST that may also take  *)
(*     what the peer has not read yet (the comment at transfer.rs:302-307);*)
(*   - a write towards a peer that is gone succeeds into the local buffer  *)
(*     and is lost, and may or may not provoke a RST in time for the next; *)
(*   - the network may go down: writes are lost or fail, and each end may  *)
(*     be told with an error or wait in silence.                           *)
(***************************************************************************)
EXTENDS Protocol

CONSTANT Window       \* frames one direction holds before a write blocks

ASSUME WindowAssumption == Window \in Nat \ {0}

VARIABLES
  wire,     \* wire[e]: frames on their way to end e, not yet read by it
  fin,      \* ends whose peer has closed: they read end-of-file once wire is empty
  reset,    \* ends whose socket is broken: reads (once drained) and writes fail
  up        \* FALSE once the network between the hosts has failed

tcpVars == <<wire, fin, reset, up>>

TcpTypeOK ==
  /\ wire \in [End -> Seq(Frame)]
  /\ fin \subseteq End
  /\ reset \subseteq End
  /\ up \in BOOLEAN

TcpInit ==
  /\ wire = [e \in End |-> <<>>]
  /\ fin = {}
  /\ reset = {}
  /\ up = TRUE

(* A write by e that returns Ok: the frame is queued, or swallowed because *)
(* nobody is at the other end any more.                                    *)
Queued(e, frame) ==
  /\ up /\ e \notin fin
  /\ Len(wire[Other(e)]) < Window
  /\ wire' = [wire EXCEPT ![Other(e)] = Append(@, frame)]
  /\ UNCHANGED <<fin, reset, up>>

Swallowed(e) ==
  /\ ~up \/ e \in fin
  /\ reset' \in {reset, reset \cup {e}}
  /\ UNCHANGED <<wire, fin, up>>

SendOk(e, frame) == e \notin reset /\ (Queued(e, frame) \/ Swallowed(e))

(* A write by e that returns Err.                                          *)
SendFails(e) == (e \in reset \/ ~up) /\ UNCHANGED tcpVars

(* A send whose error the code discards (let _ = framed.send(..).await).   *)
SendIgnoringErrors(e, frame) == SendOk(e, frame) \/ SendFails(e)

Readable(e) == wire[e] # <<>>
NextFrame(e) == Head(wire[e])
AtEof(e) == ~Readable(e) /\ e \notin reset /\ e \in fin
ReadFails(e) == ~Readable(e) /\ e \in reset

(* framed.next() yields nothing yet                                        *)
Waiting(e) == ~Readable(e) /\ e \notin reset /\ e \notin fin

Take(e) == wire' = [wire EXCEPT ![e] = Tail(@)] /\ UNCHANGED <<fin, reset, up>>

(* End e drops its stream, having written pushed (<<>>, or the beginning   *)
(* of the frame it was in the middle of).                                  *)
CloseAfter(e, pushed) ==
  LET p       == Other(e)
      reaches == up /\ e \notin fin /\ e \notin reset
      out     == IF reaches THEN wire[p] \o pushed ELSE wire[p]
      rst     == reaches /\ Readable(e)
  IN  /\ fin' = IF up THEN fin \cup {p} ELSE fin
      /\ reset' = IF rst THEN reset \cup {p} ELSE reset
      /\ \E left \in IF rst THEN {out, <<>>} ELSE {out} :
           wire' = [wire EXCEPT ![e] = <<>>, ![p] = left]
      /\ UNCHANGED up

Close(e) == CloseAfter(e, <<>>)

(* The network fails.  Of what was in flight a prefix still arrives; the   *)
(* ends in told get an error after it, an end that has a whole stream with *)
(* its FIN reads that, any other end waits in silence.                     *)
NetworkFails ==
  /\ up
  /\ up' = FALSE
  /\ \E told \in SUBSET End : reset' = reset \cup told
  /\ \E kept \in [End -> 0 .. Window + 1] :
       /\ \A e \in End : kept[e] <= Len(wire[e])
       /\ wire' = [e \in End |-> SubSeq(wire[e], 1, kept[e])]
       /\ fin' = {e \in fin : kept[e] = Len(wire[e])}

(* A Data frame in flight is altered without TCP noticing, which is what   *)
(* the SHA-256 in FileComplete is for.                                     *)
DataAltered ==
  /\ \E i \in DOMAIN wire["rcv"] :
       /\ wire["rcv"][i].type = "Data"
       /\ wire' = [wire EXCEPT !["rcv"][i].intact = FALSE]
  /\ UNCHANGED <<fin, reset, up>>
=============================================================================
