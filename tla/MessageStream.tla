---------------------------- MODULE MessageStream ----------------------------
(***************************************************************************)
(* A vision message on the wire: AsyncRobotService::inner_send             *)
(* (src/src/lola/RobotService.cpp) writes it as three runs of bytes, and   *)
(* readDataFrom of the test server                                         *)
(* (src/src/lola/iface/tools/vision_msg_server/main.cpp) cuts the stream   *)
(* of bytes into messages again.  TCP (external) delivers what was written *)
(* in order, in pieces of any size.                                        *)
(*                                                                         *)
(* A byte is known by its message and its place, a message by its number,  *)
(* here a residue, and its length.  inner_send gives all of them the id of *)
(* vision messages, so the server skips none.                              *)
(***************************************************************************)
EXTENDS Integers, FiniteSets, Sequences, SequencesExt, FiniteSetsExt

CONSTANTS
  FrameNumbers,   (* residues 0 .. n by which messages are told apart      *)
  ContentLength,  (* lengths of contents                                   *)
  HEADER,         (* bytes of a MsgHeader                                  *)
  VISION_HEADER,  (* bytes of a VisionMessageHeader                        *)
  BUFLEN,         (* the first size of the receive buffer                  *)
  MaxPending      (* bounds the messages on the way                        *)

VARIABLES
  up,             (* the connection stands                                 *)
  frame,          (* the frame of the message sent last                    *)
  out,            (* the runs of bytes of inner_send still to be sent      *)
  wire,           (* the bytes sent and not received                       *)
  buf,            (* the bytes received of this message                    *)
  capacity,       (* buf.size()                                            *)
  total_expected,
  undelivered,    (* the messages sent and not received                    *)
  latest          (* the message received last                             *)

vars == <<up, frame, out, wire, buf, capacity, total_expected, undelivered, latest>>

Message == [frame : FrameNumbers, len : ContentLength]

Run(m, part, n) == [i \in 1 .. n |-> [of |-> m, part |-> part, at |-> i]]

Whole(m) ==
  Run(m, "MsgHeader", HEADER) \o Run(m, "VisionMessageHeader", VISION_HEADER)
    \o Run(m, "content", m.len)

-----------------------------------------------------------------------------
Init ==
  /\ up = TRUE /\ frame = 0
  /\ out = <<>> /\ wire = <<>> /\ buf = <<>>
  /\ capacity = BUFLEN /\ total_expected = HEADER
  /\ undelivered = <<>>
  /\ latest \in [frame : {0}, len : ContentLength]

(* inner_send, for the next message in the queue.  MaxPending bounds what  *)
(* is on the way.                                                          *)
InnerSend ==
  /\ up /\ out = <<>>
  /\ Len(undelivered) < MaxPending
  /\ frame' = (frame + 1) % Cardinality(FrameNumbers)
  /\ \E m \in Message :
       /\ m.frame = frame'
       /\ out' = <<Run(m, "MsgHeader", HEADER), Run(m, "VisionMessageHeader", VISION_HEADER),
                   Run(m, "content", m.len)>>
       /\ undelivered' = Append(undelivered, m)
  /\ UNCHANGED <<up, wire, buf, capacity, total_expected, latest>>

(* A faulty variant: one call of send per run, as the test client has it   *)
(* (vision_msg_client/main.cpp).                                           *)
Unsent_Never(run, n) == <<>>

(* What sendBytes still has to send of a run of which n bytes went out.    *)
Unsent(run, n) == IF n < Len(run) THEN <<SubSeq(run, n + 1, Len(run))>> ELSE <<>>

SendBytes ==
  /\ up /\ out # <<>>
  /\ \E n \in 1 .. Len(Head(out)) :
       /\ wire' = wire \o SubSeq(Head(out), 1, n)
       /\ out' = Unsent(Head(out), n) \o Tail(out)
  /\ UNCHANGED <<up, frame, buf, capacity, total_expected, undelivered, latest>>

(* Sending fails; the rest of the message is given up, and so is, message  *)
(* for message, what comes after it.                                       *)
ConnectionBreaks ==
  /\ up' = FALSE /\ up
  /\ out' = <<>>
  /\ UNCHANGED <<frame, wire, buf, capacity, total_expected, undelivered, latest>>

-----------------------------------------------------------------------------
HeaderIsRead == total_expected > HEADER

(* A faulty variant: as many as the buffer has room for.                   *)
Wanted_Room == capacity - Len(buf)

(* How many bytes recv is asked for.                                       *)
Wanted == total_expected - Len(buf)

Receive ==
  /\ wire # <<>> /\ Len(buf) < total_expected
  /\ \E n \in 1 .. Min({Wanted, Len(wire)}) :
       /\ buf' = buf \o SubSeq(wire, 1, n)
       /\ wire' = SubSeq(wire, n + 1, Len(wire))
  /\ UNCHANGED <<up, frame, out, capacity, total_expected, undelivered, latest>>

(* iface_header->len is what the bytes say that are at the beginning; the  *)
(* buffer grows if need be.                                                *)
ReadHeader ==
  /\ Len(buf) >= HEADER /\ ~ HeaderIsRead
  /\ total_expected' = HEADER + VISION_HEADER + buf[1].of.len
  /\ capacity' = Max({capacity, total_expected'})
  /\ UNCHANGED <<up, frame, out, wire, buf, undelivered, latest>>

(* The message is complete.                                                *)
Dispatch ==
  /\ HeaderIsRead /\ Len(buf) >= total_expected
  /\ latest' = buf[1].of
  /\ undelivered' = IF undelivered # <<>> /\ buf = Whole(Head(undelivered))
                      THEN Tail(undelivered) ELSE undelivered
  /\ buf' = <<>>
  /\ total_expected' = HEADER
  /\ UNCHANGED <<up, frame, out, wire, capacity>>

(* recv gives 0: readDataFrom returns and forgets what it had received.    *)
Terminated ==
  /\ ~ up /\ wire = <<>> /\ buf # <<>>
  /\ Len(buf) < total_expected
  /\ buf' = <<>> /\ capacity' = BUFLEN /\ total_expected' = HEADER
  /\ UNCHANGED <<up, frame, out, wire, undelivered, latest>>

Service == InnerSend \/ SendBytes

readDataFrom == Receive \/ ReadHeader \/ Dispatch \/ Terminated

Next == Service \/ ConnectionBreaks \/ readDataFrom

Spec == Init /\ [][Next]_vars
-----------------------------------------------------------------------------
Channel == INSTANCE MessageChannel WITH Payload <- Message, pending <- undelivered

(* However the bytes are cut up on the way, and wherever the connection    *)
(* breaks, the server gets the messages whole, in order and each once.     *)
ImplementsChannel == Channel!Spec
=============================================================================
