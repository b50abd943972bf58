--------------------------- MODULE MediaChannels ---------------------------
(***************************************************************************)
(* What the player relies on in its queues: a channel of packets and a     *)
(* channel of frames, each a FIFO that one step fills, empties or closes.  *)
(* A channel takes one more item only while it is open and below its       *)
(* limit, and gives back nothing that was not put into it.                 *)
(***************************************************************************)
EXTENDS Integers, Sequences

CONSTANTS Items, Weight, PacketLimit, FrameLimit

VARIABLES packets, frames, packetsClosed, framesClosed

vars == <<packets, frames, packetsClosed, framesClosed>>

Init ==
  /\ packets = <<>> /\ frames = <<>>
  /\ packetsClosed = FALSE /\ framesClosed = FALSE

(* The bytes in a sequence of packets.                                     *)
Load(s) ==
  LET sum[i \in 0 .. Len(s)] == IF i = 0 THEN 0 ELSE sum[i - 1] + Weight[s[i]]
  IN  sum[Len(s)]

PutPacket(p) ==
  /\ ~packetsClosed
  /\ Load(packets) < PacketLimit
  /\ packets' = Append(packets, p)
  /\ UNCHANGED <<frames, packetsClosed, framesClosed>>

TakePacket ==
  /\ packets # <<>>
  /\ packets' = Tail(packets)
  /\ UNCHANGED <<frames, packetsClosed, framesClosed>>

PutFrame(f) ==
  /\ ~framesClosed
  /\ Len(frames) < FrameLimit
  /\ frames' = Append(frames, f)
  /\ UNCHANGED <<packets, packetsClosed, framesClosed>>

TakeFrame ==
  /\ frames # <<>>
  /\ frames' = Tail(frames)
  /\ UNCHANGED <<packets, packetsClosed, framesClosed>>

(* A flush keeps a channel closed or open; a restart opens it.             *)
ClearPackets ==
  /\ packets' = <<>>
  /\ packetsClosed' \in {packetsClosed, FALSE}
  /\ UNCHANGED <<frames, framesClosed>>

ClearFrames ==
  /\ frames' = <<>>
  /\ framesClosed' \in {framesClosed, FALSE}
  /\ UNCHANGED <<packets, packetsClosed>>

ClosePackets ==
  /\ packetsClosed' = TRUE
  /\ UNCHANGED <<packets, frames, framesClosed>>

CloseFrames ==
  /\ framesClosed' = TRUE
  /\ UNCHANGED <<packets, frames, packetsClosed>>

Next ==
  \/ \E i \in Items : PutPacket(i) \/ PutFrame(i)
  \/ TakePacket \/ TakeFrame
  \/ ClearPackets \/ ClearFrames \/ ClosePackets \/ CloseFrames

Spec == Init /\ [][Next]_vars
=============================================================================
