---------------------------- MODULE PacketQueue ----------------------------
(***************************************************************************)
(* PacketQueue: a FIFO of packets bounded by its bytes, one mutex and the  *)
(* two condition variables notFull_ and notEmpty_.  One thread pushes, one *)
(* pops, a third one flushes, shuts down and restarts.                     *)
(*                                                                         *)
(* A critical section is one step.  A wait is split where it releases the  *)
(* mutex: pushAsleep and popAsleep say who sleeps on notFull_, notEmpty_.  *)
(***************************************************************************)
EXTENDS Integers, Sequences

CONSTANTS
  Packets,    (* the packets                                                *)
  Size,       (* [Packets -> Nat]: pkt->data.size()                         *)
  MaxBytes,   (* maxBytes_                                                  *)
  None        (* no packet: the null pointer                                *)

ASSUME PacketQueueAssumption ==
  Size \in [Packets -> Nat] /\ MaxBytes \in Nat \ {0} /\ None \notin Packets

VARIABLES
  queue, totalBytes, shutdown,
  pushing,     (* the packet whose push() has not returned, or None         *)
  pushAsleep, popAsleep

packetVars == <<queue, totalBytes, shutdown, pushing, pushAsleep, popAsleep>>

PacketQueueTypeOK ==
  /\ queue \in Seq(Packets)
  /\ totalBytes \in Nat
  /\ shutdown \in BOOLEAN
  /\ pushing \in Packets \cup {None}
  /\ pushAsleep \in BOOLEAN
  /\ popAsleep \in BOOLEAN

PacketQueueInit ==
  /\ queue = <<>> /\ totalBytes = 0 /\ shutdown = FALSE
  /\ pushing = None /\ pushAsleep = FALSE /\ popAsleep = FALSE

Full == totalBytes >= MaxBytes

(* push() is called ...                                                    *)
CallPush(p) ==
  /\ pushing = None
  /\ pushing' = p
  /\ UNCHANGED <<queue, totalBytes, shutdown, pushAsleep, popAsleep>>

(* ... has the mutex and finds the queue full: it sleeps on notFull_ ...   *)
PushSleeps ==
  /\ pushing # None /\ ~pushAsleep
  /\ Full /\ ~shutdown
  /\ pushAsleep' = TRUE
  /\ UNCHANGED <<queue, totalBytes, shutdown, pushing, popAsleep>>

(* ... or returns, the packet being queued, or dropped after a shutdown.   *)
PushDrops ==
  /\ pushing # None /\ ~pushAsleep
  /\ shutdown
  /\ pushing' = None
  /\ UNCHANGED <<queue, totalBytes, shutdown, pushAsleep, popAsleep>>

PushQueues ==
  /\ pushing # None /\ ~pushAsleep
  /\ ~Full /\ ~shutdown
  /\ queue' = Append(queue, pushing)
  /\ totalBytes' = totalBytes + Size[pushing]
  /\ pushing' = None
  /\ popAsleep' = FALSE
  /\ UNCHANGED <<shutdown, pushAsleep>>

(* pop(timeout) finds nothing and sleeps on notEmpty_.                     *)
PopSleeps ==
  /\ ~popAsleep
  /\ queue = <<>> /\ ~shutdown
  /\ popAsleep' = TRUE
  /\ UNCHANGED <<queue, totalBytes, shutdown, pushing, pushAsleep>>

(* It returns null: the timeout passed, or the queue was shut down.        *)
PopNothing ==
  /\ queue = <<>>
  /\ popAsleep \/ shutdown
  /\ popAsleep' = FALSE
  /\ UNCHANGED <<queue, totalBytes, shutdown, pushing, pushAsleep>>

(* notFull_.notify_one() of pop().                                         *)
NotifyNotFull_Mutant == UNCHANGED pushAsleep
NotifyNotFull == pushAsleep' = FALSE

PopPacket(p) ==
  /\ ~popAsleep
  /\ queue # <<>>
  /\ p = Head(queue)
  /\ queue' = Tail(queue)
  /\ totalBytes' = totalBytes - Size[p]
  /\ NotifyNotFull
  /\ UNCHANGED <<shutdown, pushing, popAsleep>>

EmptyPackets_Mutant == queue' = <<>> /\ UNCHANGED totalBytes
EmptyPackets == queue' = <<>> /\ totalBytes' = 0

(* flush() tells notFull_; nothing has come for notEmpty_.                 *)
FlushPackets ==
  /\ EmptyPackets
  /\ pushAsleep' = FALSE
  /\ UNCHANGED <<shutdown, pushing, popAsleep>>

NotifyBoth_Mutant == popAsleep' = FALSE /\ UNCHANGED pushAsleep
NotifyBoth == popAsleep' = FALSE /\ pushAsleep' = FALSE

ShutdownPackets ==
  /\ shutdown' = TRUE
  /\ NotifyBoth
  /\ UNCHANGED <<queue, totalBytes, pushing>>

RestartPackets ==
  /\ shutdown' = FALSE
  /\ EmptyPackets
  /\ pushAsleep' = FALSE
  /\ UNCHANGED <<pushing, popAsleep>>

(* A condition variable may wake a thread for no reason.                   *)
PushWakes ==
  /\ pushAsleep /\ pushAsleep' = FALSE
  /\ UNCHANGED <<queue, totalBytes, shutdown, pushing, popAsleep>>

PopWakes ==
  /\ popAsleep /\ popAsleep' = FALSE
  /\ UNCHANGED <<queue, totalBytes, shutdown, pushing, pushAsleep>>
=============================================================================
