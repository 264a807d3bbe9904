----------------------------- MODULE OutputQueue -----------------------------
(***************************************************************************)
(* What two parts of the program promise to those who use them: what is   *)
(* put in comes out once, in the order in which the queue took it.  It     *)
(* says nothing of rings and indices.  WSServer implements it between the  *)
(* callers of send() and the server, MidiInput between the device and the  *)
(* user, as long as both are used with the discipline stated there.        *)
(***************************************************************************)
EXTENDS Sequences

CONSTANT Output  \* what may be put in

VARIABLES
  queue,      \* accepted and not handed over yet, oldest first
  handed      \* handed over, oldest first

vars == <<queue, handed>>

TypeOK ==
  /\ queue \in Seq(Output)
  /\ handed \in Seq(Output)

Init ==
  /\ queue = <<>>
  /\ handed = <<>>

Accept(m) ==
  /\ queue' = Append(queue, m)
  /\ UNCHANGED handed

HandOver ==
  /\ queue # <<>>
  /\ handed' = Append(handed, Head(queue))
  /\ queue' = Tail(queue)

Next ==
  \/ \E m \in Output : Accept(m)
  \/ HandOver

Spec == Init /\ [][Next]_vars
=============================================================================
