----------------------------- MODULE FrameQueue -----------------------------
(***************************************************************************)
(* VideoFrameQueue: a ring of capacity_ frames, with the mutex and the two *)
(* condition variables of a PacketQueue.  The steps are split as there.    *)
(***************************************************************************)
EXTENDS Integers, Sequences

CONSTANTS
  Frames,     (* the frames                                                 *)
  Capacity,   (* capacity_                                                  *)
  NoFrame     (* an empty GpuFrame                                          *)

ASSUME FrameQueueAssumption ==
  Capacity \in Nat \ {0} /\ NoFrame \notin Frames

VARIABLES
  slots,       (* queue_                                                    *)
  head, count,
  frameShutdown,
  framePushing,    (* the frame whose push() has not returned, or NoFrame   *)
  framePushAsleep, framePopAsleep

frameVars == <<slots, head, count, frameShutdown, framePushing,
               framePushAsleep, framePopAsleep>>

FrameQueueTypeOK ==
  /\ slots \in [0 .. Capacity - 1 -> Frames \cup {NoFrame}]
  /\ head \in 0 .. Capacity - 1
  /\ count \in 0 .. Capacity
  /\ frameShutdown \in BOOLEAN
  /\ framePushing \in Frames \cup {NoFrame}
  /\ framePushAsleep \in BOOLEAN
  /\ framePopAsleep \in BOOLEAN

FrameQueueInit ==
  /\ slots = [i \in 0 .. Capacity - 1 |-> NoFrame]
  /\ head = 0 /\ count = 0 /\ frameShutdown = FALSE
  /\ framePushing = NoFrame
  /\ framePushAsleep = FALSE /\ framePopAsleep = FALSE

(* The slot of the frame that k others are ahead of.                       *)
Slot_Mutant(k) == k % Capacity
Slot(k) == (head + k) % Capacity

(* The frames in the ring, the oldest first.                               *)
Content == [i \in 1 .. count |-> slots[(head + i - 1) % Capacity]]

FrameCallPush(f) ==
  /\ framePushing = NoFrame
  /\ framePushing' = f
  /\ UNCHANGED <<slots, head, count, frameShutdown, framePushAsleep,
                 framePopAsleep>>

FrameRoom_Mutant == count <= Capacity
FrameRoom == count < Capacity

FramePushSleeps ==
  /\ framePushing # NoFrame /\ ~framePushAsleep
  /\ ~FrameRoom /\ ~frameShutdown
  /\ framePushAsleep' = TRUE
  /\ UNCHANGED <<slots, head, count, frameShutdown, framePushing,
                 framePopAsleep>>

FramePushDrops ==
  /\ framePushing # NoFrame /\ ~framePushAsleep
  /\ frameShutdown
  /\ framePushing' = NoFrame
  /\ UNCHANGED <<slots, head, count, frameShutdown, framePushAsleep,
                 framePopAsleep>>

FramePushQueues ==
  /\ framePushing # NoFrame /\ ~framePushAsleep
  /\ FrameRoom /\ ~frameShutdown
  /\ slots' = [slots EXCEPT ![Slot(count)] = framePushing]
  /\ count' = count + 1
  /\ framePushing' = NoFrame
  /\ framePopAsleep' = FALSE
  /\ UNCHANGED <<head, frameShutdown, framePushAsleep>>

FramePopSleeps ==
  /\ ~framePopAsleep
  /\ count = 0 /\ ~frameShutdown
  /\ framePopAsleep' = TRUE
  /\ UNCHANGED <<slots, head, count, frameShutdown, framePushing,
                 framePushAsleep>>

FramePopNothing ==
  /\ count = 0
  /\ framePopAsleep \/ frameShutdown
  /\ framePopAsleep' = FALSE
  /\ UNCHANGED <<slots, head, count, frameShutdown, framePushing,
                 framePushAsleep>>

(* The frame is moved out of its slot.                                     *)
FramePop(f) ==
  /\ ~framePopAsleep
  /\ count > 0
  /\ f = slots[head]
  /\ slots' = [slots EXCEPT ![head] = NoFrame]
  /\ head' = (head + 1) % Capacity
  /\ count' = count - 1
  /\ framePushAsleep' = FALSE
  /\ UNCHANGED <<frameShutdown, framePushing, framePopAsleep>>

ClearSlots_Mutant == UNCHANGED <<slots, count>> /\ head' = 0
ClearSlots ==
  /\ slots' = [i \in 0 .. Capacity - 1 |->
                 IF \E k \in 0 .. count - 1 : i = Slot(k)
                 THEN NoFrame ELSE slots[i]]
  /\ head' = 0 /\ count' = 0

FlushFrames ==
  /\ ClearSlots
  /\ framePushAsleep' = FALSE
  /\ UNCHANGED <<frameShutdown, framePushing, framePopAsleep>>

ShutdownFrames ==
  /\ frameShutdown' = TRUE
  /\ framePushAsleep' = FALSE /\ framePopAsleep' = FALSE
  /\ UNCHANGED <<slots, head, count, framePushing>>

RestartFrames ==
  /\ frameShutdown' = FALSE
  /\ ClearSlots
  /\ framePushAsleep' = FALSE
  /\ UNCHANGED <<framePushing, framePopAsleep>>

FramePushWakes ==
  /\ framePushAsleep /\ framePushAsleep' = FALSE
  /\ UNCHANGED <<slots, head, count, frameShutdown, framePushing,
                 framePopAsleep>>

FramePopWakes ==
  /\ framePopAsleep /\ framePopAsleep' = FALSE
  /\ UNCHANGED <<slots, head, count, frameShutdown, framePushing,
                 framePushAsleep>>
=============================================================================
