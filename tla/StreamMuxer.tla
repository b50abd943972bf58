---------------------------- MODULE StreamMuxer ----------------------------
(***************************************************************************)
(* StreamMuxer: what goes to an RTMP or SRT server, as the value of a      *)
(* record.  open, close, addStream, and the part of writePacket and abort  *)
(* under mutex_, are one step each; the flags abortFlag_ and writeFailed_  *)
(* are read by writePacket, and the first one set by abort, before they    *)
(* have the mutex: the clients give those a step of their own.             *)
(*                                                                         *)
(* "io" is formatCtx_->pb, the connection.  The library writes the header, *)
(* packets and the trailer through it: a call that finds it gone reads     *)
(* through a null pointer.                                                 *)
(***************************************************************************)
EXTENDS Integers

CONSTANT MaxWriteErrors  (* the failed writes in a row that give a stream up *)

ASSUME StreamMuxerAssumption == MaxWriteErrors \in Nat \ {0}

MuxNew ==
  [open |-> FALSE, io |-> FALSE, aborted |-> FALSE, header |-> FALSE,
   failed |-> FALSE, errors |-> 0, streams |-> 0]

Muxers ==
  [open : BOOLEAN, io : BOOLEAN, aborted : BOOLEAN, header : BOOLEAN,
   failed : BOOLEAN, errors : 0 .. MaxWriteErrors, streams : 0 .. 2]

(* open() that connects, and addStream(); a failed one leaves it closed.   *)
MuxOpen(m, streams) ==
  [m EXCEPT !.open = TRUE, !.io = TRUE, !.header = FALSE, !.failed = FALSE,
            !.streams = streams]

(* What writePacket() refuses before and after it has the mutex.           *)
MuxRefusesEarly(m) == m.aborted \/ m.failed
MuxRefuses(m, stream) == ~m.open \/ m.failed \/ stream >= m.streams

(* Otherwise it asks the library, which writes, or fails on the header or  *)
(* on the packet.                                                          *)
MuxWritten(m) == [m EXCEPT !.header = TRUE, !.errors = 0]
MuxHeaderFailed(m) == [m EXCEPT !.failed = TRUE]
MuxWriteFailed(m) ==
  LET errors == IF m.errors < MaxWriteErrors THEN m.errors + 1 ELSE m.errors
  IN  [m EXCEPT !.header = TRUE, !.errors = errors,
                !.failed = m.failed \/ errors = MaxWriteErrors]

(* abort() under the mutex.                                                *)
MuxDisconnected(m) == [m EXCEPT !.io = FALSE]

(* close(): the trailer is written when the header was.                    *)
MuxWritesTrailer(m) == m.open /\ m.header
MuxClosed(m) ==
  IF m.open
  THEN [m EXCEPT !.open = FALSE, !.io = FALSE, !.aborted = FALSE,
                 !.header = FALSE, !.streams = 0]
  ELSE m
=============================================================================
