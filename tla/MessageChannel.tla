--------------------------- MODULE MessageChannel ---------------------------
(***************************************************************************)
(* What both ends of a connection to the robot may rely on: the messages   *)
(* that were sent come whole and in order, each once, as far as they come. *)
(***************************************************************************)
EXTENDS Sequences

CONSTANT Payload

VARIABLES
  pending,   (* the messages sent and not received                         *)
  latest     (* the message received last                                  *)

Init == pending = <<>> /\ latest \in Payload

Put(m) == pending' = Append(pending, m) /\ UNCHANGED latest

Get == /\ pending # <<>>
       /\ latest' = Head(pending)
       /\ pending' = Tail(pending)

Next == Get \/ \E m \in Payload : Put(m)

Spec == Init /\ [][Next]_<<pending, latest>>
=============================================================================
