------------------------ MODULE RealtimeVSRPipeline ------------------------
(***************************************************************************)
(* RealtimeVSRPipeline: three threads that decode, upscale and present a   *)
(* frame, with a queue that drops the oldest frame in front of the second  *)
(* and one that blocks in front of the third.  A circuit breaker bypasses  *)
(* the upscaling after VsrSlowFrames slow frames in a row, and probes it   *)
(* after a cooldown.                                                       *)
(*                                                                         *)
(* A frame is its number.  That the cooldown is over is vsrCooled, which   *)
(* time makes true.  stop() may be called by any thread but these three.   *)
(***************************************************************************)
EXTENDS Integers, Sequences

CONSTANTS
  VsrFrames,      (* the frames of the video                                *)
  VsrInputCap, VsrOutputCap,   (* vsrInputQueueCap, outputFrameQueueCap     *)
  VsrSlowFrames,  (* vsrSlowFrameCount                                      *)
  VsrCalls        (* bound: calls of start(), pause() and flush() together  *)

ASSUME VsrAssumption ==
  /\ VsrFrames \in Nat /\ VsrCalls \in Nat
  /\ {VsrInputCap, VsrOutputCap, VsrSlowFrames} \subseteq Nat \ {0}

VsrThreads == {"decode", "vsr", "render"}

VARIABLES
  vsrRunning, vsrStop, vsrPaused,
  vsrPc,          (* [VsrThreads]: "none", where it is, "ended"             *)
  vsrIn, vsrOut,  (* vsrInputQueue_, outputQueue_                           *)
  vsrDown,        (* the two are shut down                                  *)
  vsrHand,        (* what the VSR stage has in hand: at most one frame      *)
  vsrNext,        (* the last frame decoded                                 *)
  vsrShown,       (* the last frame presented                               *)
  vsrBreaker, vsrSlow, vsrCooled,
  vsrUsed,        (* the frames whose VRAM is not released                  *)
  vsrUi, vsrCalls

vsrFlow    == <<vsrIn, vsrOut, vsrHand, vsrNext, vsrShown>>
vsrSwitch  == <<vsrBreaker, vsrSlow, vsrCooled>>
vsrControl == <<vsrRunning, vsrStop, vsrPaused, vsrDown, vsrUi, vsrCalls>>
VsrVars == <<vsrControl, vsrPc, vsrFlow, vsrSwitch, vsrUsed>>

VsrTypeOK ==
  /\ vsrRunning \in BOOLEAN /\ vsrStop \in BOOLEAN /\ vsrPaused \in BOOLEAN
  /\ vsrPc \in [VsrThreads -> {"none", "loop", "work", "infer", "push", "flush", "ended"}]
  /\ vsrIn \in Seq(1 .. VsrFrames) /\ Len(vsrIn) <= VsrInputCap
  /\ vsrOut \in Seq(1 .. VsrFrames) /\ Len(vsrOut) <= VsrOutputCap
  /\ vsrHand \in Seq(1 .. VsrFrames) /\ Len(vsrHand) <= 1
  /\ vsrDown \in BOOLEAN
  /\ vsrNext \in 0 .. VsrFrames /\ vsrShown \in 0 .. VsrFrames
  /\ vsrBreaker \in {"Active", "CircuitOpen", "Probing"}
  /\ vsrSlow \in 0 .. VsrSlowFrames - 1 /\ vsrCooled \in BOOLEAN
  /\ vsrUsed \in Nat
  /\ vsrUi \in {"idle", "shutdown", "join"} /\ vsrCalls \in 0 .. VsrCalls

VsrInit ==
  /\ vsrRunning = FALSE /\ vsrStop = FALSE /\ vsrPaused = FALSE
  /\ vsrPc = [t \in VsrThreads |-> "none"]
  /\ vsrIn = <<>> /\ vsrOut = <<>> /\ vsrHand = <<>> /\ vsrDown = FALSE
  /\ vsrNext = 0 /\ vsrShown = 0
  /\ vsrBreaker = "Active" /\ vsrSlow = 0 /\ vsrCooled = TRUE /\ vsrUsed = 0
  /\ vsrUi = "idle" /\ vsrCalls = 0

(* start() after initialize(), pause(), resume(), flush().                 *)
VsrStart ==
  /\ vsrUi = "idle" /\ ~vsrRunning /\ vsrCalls < VsrCalls
  /\ vsrRunning' = TRUE /\ vsrStop' = FALSE /\ vsrPaused' = FALSE
  /\ vsrDown' = FALSE /\ vsrIn' = <<>> /\ vsrOut' = <<>>
  /\ vsrBreaker' = "Active" /\ vsrSlow' = 0
  /\ vsrPc' = [t \in VsrThreads |-> "loop"]
  /\ vsrCalls' = vsrCalls + 1
  /\ UNCHANGED <<vsrHand, vsrNext, vsrShown, vsrCooled, vsrUsed, vsrUi>>

VsrPause ==
  /\ vsrUi = "idle" /\ vsrRunning /\ ~vsrPaused /\ vsrCalls < VsrCalls
  /\ vsrPaused' = TRUE /\ vsrCalls' = vsrCalls + 1
  /\ UNCHANGED <<vsrRunning, vsrStop, vsrDown, vsrUi, vsrPc, vsrFlow, vsrSwitch, vsrUsed>>

VsrResume ==
  /\ vsrUi = "idle" /\ vsrPaused
  /\ vsrPaused' = FALSE
  /\ UNCHANGED <<vsrRunning, vsrStop, vsrDown, vsrUi, vsrCalls, vsrPc, vsrFlow, vsrSwitch, vsrUsed>>

VsrFlush ==
  /\ vsrUi = "idle" /\ vsrCalls < VsrCalls
  /\ vsrIn' = <<>> /\ vsrOut' = <<>> /\ vsrCalls' = vsrCalls + 1
  /\ UNCHANGED <<vsrRunning, vsrStop, vsrPaused, vsrDown, vsrUi, vsrPc, vsrHand,
                 vsrNext, vsrShown, vsrSwitch, vsrUsed>>

(* stop(): the flags, the queues, the joins.                               *)
VsrStop ==
  /\ vsrUi = "idle" /\ vsrRunning
  /\ vsrRunning' = FALSE /\ vsrStop' = TRUE /\ vsrPaused' = FALSE
  /\ vsrUi' = "shutdown"
  /\ UNCHANGED <<vsrDown, vsrCalls, vsrPc, vsrFlow, vsrSwitch, vsrUsed>>

VsrShutsDown ==
  /\ vsrUi = "shutdown"
  /\ vsrDown' = TRUE /\ vsrUi' = "join"
  /\ UNCHANGED <<vsrRunning, vsrStop, vsrPaused, vsrCalls, vsrPc, vsrFlow, vsrSwitch, vsrUsed>>

VsrJoins ==
  /\ vsrUi = "join" /\ \A t \in VsrThreads : vsrPc[t] = "ended"
  /\ vsrPc' = [t \in VsrThreads |-> "none"]
  /\ vsrBreaker' = "Active" /\ vsrSlow' = 0
  /\ vsrUi' = "idle"
  /\ UNCHANGED <<vsrRunning, vsrStop, vsrPaused, vsrDown, vsrCalls, vsrFlow, vsrCooled, vsrUsed>>

VsrGo(t, place) == vsrPc' = [vsrPc EXCEPT ![t] = place]

(* Each stage looks at stopRequested_, and waits while it is paused.       *)
VsrLoops(t) ==
  /\ vsrPc[t] = "loop"
  /\ vsrStop \/ ~vsrPaused
  /\ VsrGo(t, IF ~vsrStop THEN "work" ELSE IF t = "vsr" THEN "flush" ELSE "ended")
  /\ UNCHANGED <<vsrControl, vsrFlow, vsrSwitch, vsrUsed>>

(* decodeStage(): pushOrDrop() makes room by dropping the oldest frame;    *)
(* a packet may bring no frame.                                            *)
VsrDecodes ==
  /\ vsrPc["decode"] = "work" /\ vsrNext < VsrFrames
  /\ vsrNext' = vsrNext + 1
  /\ vsrIn' = Append(IF Len(vsrIn) >= VsrInputCap THEN Tail(vsrIn) ELSE vsrIn, vsrNext + 1)
  /\ VsrGo("decode", "loop")
  /\ UNCHANGED <<vsrControl, vsrOut, vsrHand, vsrShown, vsrSwitch, vsrUsed>>

(* A pop() that times out, a packet that is none; and a frame that the     *)
(* device lost, which the next two stages skip.                            *)
VsrSkips ==
  /\ \/ /\ vsrPc["vsr"] = "work" /\ vsrIn # <<>> /\ vsrIn' = Tail(vsrIn)
        /\ VsrGo("vsr", "loop") /\ UNCHANGED vsrOut
     \/ /\ vsrPc["render"] = "work" /\ vsrOut # <<>> /\ vsrOut' = Tail(vsrOut)
        /\ VsrGo("render", "loop") /\ UNCHANGED vsrIn
  /\ UNCHANGED <<vsrControl, vsrHand, vsrNext, vsrShown, vsrSwitch, vsrUsed>>

VsrNothing(t) ==
  /\ vsrPc[t] = "work"
  /\ t = "vsr" => vsrIn = <<>>
  /\ t = "render" => vsrOut = <<>>
  /\ VsrGo(t, "loop")
  /\ UNCHANGED <<vsrControl, vsrFlow, vsrSwitch, vsrUsed>>

(* vsrStage(): a frame is upscaled when the breaker lets it, and there is  *)
(* VRAM for it; it is passed on as it is otherwise.                        *)
VsrTakes ==
  /\ vsrPc["vsr"] = "work" /\ vsrIn # <<>>
  /\ vsrHand' = <<Head(vsrIn)>> /\ vsrIn' = Tail(vsrIn)
  /\ vsrBreaker' = IF vsrBreaker = "CircuitOpen" /\ vsrCooled THEN "Probing" ELSE vsrBreaker
  /\ \/ VsrGo("vsr", "push") /\ UNCHANGED vsrUsed
     \/ /\ vsrBreaker' # "CircuitOpen"
        /\ VsrGo("vsr", "infer") /\ vsrUsed' = vsrUsed + 1
  /\ UNCHANGED <<vsrControl, vsrOut, vsrNext, vsrShown, vsrSlow, vsrCooled>>

(* updateCircuitBreaker() and handleProbeResult().                         *)
VsrBreaks(slow) ==
  CASE vsrBreaker = "Active" /\ slow /\ vsrSlow + 1 >= VsrSlowFrames ->
         vsrBreaker' = "CircuitOpen" /\ vsrCooled' = FALSE /\ vsrSlow' = 0
    [] vsrBreaker = "Active" /\ slow /\ vsrSlow + 1 < VsrSlowFrames ->
         vsrSlow' = vsrSlow + 1 /\ UNCHANGED <<vsrBreaker, vsrCooled>>
    [] vsrBreaker = "Active" /\ ~slow -> vsrSlow' = 0 /\ UNCHANGED <<vsrBreaker, vsrCooled>>
    [] vsrBreaker = "Probing" ->
         /\ vsrBreaker' = IF slow THEN "CircuitOpen" ELSE "Active"
         /\ vsrCooled' = (vsrCooled /\ ~slow)
         /\ UNCHANGED vsrSlow

VsrInfers ==
  /\ vsrPc["vsr"] = "infer"
  /\ vsrUsed' = vsrUsed - 1
  /\ UNCHANGED vsrSwitch \/ \E slow \in BOOLEAN : VsrBreaks(slow)
  /\ VsrGo("vsr", "push")
  /\ UNCHANGED <<vsrControl, vsrFlow>>

(* VideoFrameQueue::push waits for room or shutdown.                       *)
VsrPushes ==
  /\ vsrPc["vsr"] = "push"
  /\ vsrDown \/ Len(vsrOut) < VsrOutputCap
  /\ vsrOut' = IF vsrDown THEN vsrOut ELSE vsrOut \o vsrHand
  /\ vsrHand' = <<>>
  /\ VsrGo("vsr", "loop")
  /\ UNCHANGED <<vsrControl, vsrIn, vsrNext, vsrShown, vsrSwitch, vsrUsed>>

(* After its loop it pushes what the node still holds: it needs the queue  *)
(* shut down, or room.                                                     *)
VsrFlushes ==
  /\ vsrPc["vsr"] = "flush"
  /\ vsrDown \/ Len(vsrOut) < VsrOutputCap
  /\ VsrGo("vsr", "ended")
  /\ UNCHANGED <<vsrControl, vsrFlow, vsrSwitch, vsrUsed>>

(* renderStage().                                                          *)
VsrPresents ==
  /\ vsrPc["render"] = "work" /\ vsrOut # <<>>
  /\ vsrShown' = Head(vsrOut) /\ vsrOut' = Tail(vsrOut)
  /\ VsrGo("render", "loop")
  /\ UNCHANGED <<vsrControl, vsrIn, vsrHand, vsrNext, vsrSwitch, vsrUsed>>

VsrCools ==
  /\ ~vsrCooled /\ vsrCooled' = TRUE
  /\ UNCHANGED <<vsrControl, vsrPc, vsrFlow, vsrBreaker, vsrSlow, vsrUsed>>

VsrDecodeMoves == VsrLoops("decode") \/ VsrDecodes \/ VsrNothing("decode")
VsrVsrMoves    == \/ VsrLoops("vsr") \/ VsrTakes \/ VsrNothing("vsr")
                  \/ VsrInfers \/ VsrPushes \/ VsrFlushes
VsrRenderMoves == VsrLoops("render") \/ VsrPresents \/ VsrNothing("render")
VsrUiMoves     == VsrShutsDown \/ VsrJoins
VsrNextStep == \/ VsrStart \/ VsrPause \/ VsrResume \/ VsrFlush \/ VsrStop \/ VsrCools \/ VsrSkips
            \/ VsrUiMoves \/ VsrDecodeMoves \/ VsrVsrMoves \/ VsrRenderMoves

(* The threads are scheduled; an inference ends.                           *)
VsrFairness == /\ WF_VsrVars(VsrDecodeMoves) /\ WF_VsrVars(VsrVsrMoves)
               /\ WF_VsrVars(VsrRenderMoves) /\ WF_VsrVars(VsrUiMoves)
VsrSpec == VsrInit /\ [][VsrNextStep]_VsrVars /\ VsrFairness

-----------------------------------------------------------------------------
(* Frames are presented in their order, whatever is dropped, bypassed or   *)
(* flushed on the way.                                                     *)
VsrInOrder ==
  LET flow == <<vsrShown>> \o vsrOut \o vsrHand \o vsrIn
  IN  \A i, j \in 1 .. Len(flow) : i < j => flow[i] < flow[j]

(* The VRAM of a frame is held during its inference and not after, however *)
(* that ends, and no frame is upscaled while the circuit is open.          *)
VsrReleases ==
  /\ vsrUsed = IF vsrPc["vsr"] = "infer" THEN 1 ELSE 0
  /\ vsrPc["vsr"] = "infer" => vsrBreaker # "CircuitOpen"
  /\ vsrBreaker = "Probing" => vsrCooled

(* A pipeline that is not running, and nobody is in stop(), has no thread. *)
VsrOwned ==
  vsrUi = "idle" /\ ~vsrRunning => \A t \in VsrThreads : vsrPc[t] = "none"

(* stop() returns, whatever its threads wait for.                          *)
VsrInCall == vsrUi # "idle"
VsrStopEnds == VsrInCall ~> ~VsrInCall
=============================================================================
