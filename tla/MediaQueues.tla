---------------------------- MODULE MediaQueues ----------------------------
(***************************************************************************)
(* The two queues between the threads of the player, down to their         *)
(* condition variables: the demux thread pushes packets, a decode thread   *)
(* pops them and pushes frames, the refresh thread pops those, and the API *)
(* thread flushes both queues (seek), or shuts them down, joins the three  *)
(* threads, flushes and restarts (stop and play).  Only these calls of the *)
(* threads are kept; what they decide in between is module FFPlayer.       *)
(*                                                                         *)
(* Packets are numbered in the order in which they are read, and a frame   *)
(* has the number of its packet.                                           *)
(***************************************************************************)
EXTENDS PacketQueue, FrameQueue

CONSTANT MaxCalls   (* bound on the calls of seek and stop                  *)

ASSUME MediaQueuesAssumption ==
  MaxCalls \in Nat /\ Packets \subseteq Nat /\ Frames = Packets /\ None = NoFrame

VARIABLES
  running,          (* running, and running_ of the refresh thread          *)
  nextRead,         (* the number of the next packet read                   *)
  demux,            (* "run" or "gone"                                      *)
  decode, decoding, (* where the decode thread is, and its packet           *)
  refresh,          (* where the refresh thread is                          *)
  shown,            (* the last frame shown                                 *)
  api,              (* where the API thread is                              *)
  calls

threadVars == <<running, nextRead, demux, decode, decoding, refresh, shown,
                api, calls>>
vars == <<packetVars, frameVars, threadVars>>

ApiPcs == {"idle", "seek", "close", "join", "joinDemux", "flush",
           "flushFrames", "restart", "restartFrames", "threads"}

TypeOK ==
  /\ PacketQueueTypeOK /\ FrameQueueTypeOK
  /\ running \in BOOLEAN
  /\ nextRead \in Nat
  /\ demux \in {"run", "gone"}
  /\ decode \in {"loop", "pop", "push", "pushing", "gone"}
  /\ decoding \in Packets \cup {None}
  /\ refresh \in {"loop", "pop", "gone"}
  /\ shown \in Nat
  /\ api \in ApiPcs
  /\ calls \in 0 .. MaxCalls

Init ==
  /\ PacketQueueInit /\ FrameQueueInit
  /\ running = TRUE
  /\ nextRead = 1 /\ shown = 0
  /\ demux = "run" /\ decode = "loop" /\ refresh = "loop"
  /\ decoding = None
  /\ api = "idle" /\ calls = 0

-----------------------------------------------------------------------------
(* The demux thread.                                                       *)

DemuxReads ==
  /\ demux = "run"
  /\ nextRead \in Packets
  /\ CallPush(nextRead)
  /\ nextRead' = nextRead + 1
  /\ UNCHANGED <<frameVars, running, demux, decode, decoding, refresh, shown,
                 api, calls>>

DemuxPushes ==
  /\ PushSleeps \/ PushDrops \/ PushQueues
  /\ UNCHANGED <<frameVars, threadVars>>

DemuxLeaves ==
  /\ demux = "run" /\ pushing = None
  /\ api = "joinDemux"
  /\ demux' = "gone"
  /\ UNCHANGED <<packetVars, frameVars, running, nextRead, decode, decoding,
                 refresh, shown, api, calls>>

DemuxThread == DemuxReads \/ DemuxPushes \/ DemuxLeaves

-----------------------------------------------------------------------------
(* The decode thread.                                                      *)

DecodeLoop ==
  /\ decode = "loop"
  /\ decode' = IF running THEN "pop" ELSE "gone"
  /\ UNCHANGED <<packetVars, frameVars, running, nextRead, demux, decoding,
                 refresh, shown, api, calls>>

DecodePops ==
  /\ decode = "pop"
  /\ \/ PopSleeps /\ UNCHANGED <<decode, decoding>>
     \/ PopNothing /\ decode' = "loop" /\ UNCHANGED decoding
     \/ \E p \in Packets : PopPacket(p) /\ decode' = "push" /\ decoding' = p
  /\ UNCHANGED <<frameVars, running, nextRead, demux, refresh, shown, api,
                 calls>>

DecodeCallsPush ==
  /\ decode = "push"
  /\ FrameCallPush(decoding)
  /\ decode' = "pushing" /\ decoding' = None
  /\ UNCHANGED <<packetVars, running, nextRead, demux, refresh, shown, api,
                 calls>>

DecodePushes ==
  /\ decode = "pushing"
  /\ \/ FramePushSleeps /\ UNCHANGED decode
     \/ (FramePushDrops \/ FramePushQueues) /\ decode' = "loop"
  /\ UNCHANGED <<packetVars, running, nextRead, demux, decoding, refresh,
                 shown, api, calls>>

DecodeThread == DecodeLoop \/ DecodePops \/ DecodeCallsPush \/ DecodePushes

-----------------------------------------------------------------------------
(* The refresh thread.                                                     *)

RefreshLoop ==
  /\ refresh = "loop"
  /\ refresh' = IF running THEN "pop" ELSE "gone"
  /\ UNCHANGED <<packetVars, frameVars, running, nextRead, demux, decode,
                 decoding, shown, api, calls>>

RefreshPops ==
  /\ refresh = "pop"
  /\ \/ FramePopSleeps /\ UNCHANGED <<refresh, shown>>
     \/ FramePopNothing /\ refresh' = "loop" /\ UNCHANGED shown
     \/ \E f \in Frames : FramePop(f) /\ refresh' = "loop" /\ shown' = f
  /\ UNCHANGED <<packetVars, running, nextRead, demux, decode, decoding, api,
                 calls>>

RefreshThread == RefreshLoop \/ RefreshPops

-----------------------------------------------------------------------------
(* The API thread: in seek() ...                                           *)

ApiStep(from, to) ==
  /\ api = from /\ api' = to
  /\ UNCHANGED <<nextRead, decoding, shown, calls>>

Call(to) ==
  /\ api = "idle" /\ calls < MaxCalls
  /\ calls' = calls + 1
  /\ api' = to
  /\ UNCHANGED <<frameVars, nextRead, demux, decode, decoding, refresh, shown>>

SeekFlushesPackets == Call("seek") /\ FlushPackets /\ UNCHANGED running

SeekFlushesFrames ==
  /\ ApiStep("seek", "idle")
  /\ FlushFrames
  /\ UNCHANGED <<packetVars, running, demux, decode, refresh>>

(* ... in stopInternal() ...                                               *)
StopClosesPackets == Call("close") /\ ShutdownPackets /\ running' = FALSE

StopClosesFrames ==
  /\ ApiStep("close", "join")
  /\ ShutdownFrames
  /\ UNCHANGED <<packetVars, running, demux, decode, refresh>>

StopJoins ==
  /\ \/ ApiStep("join", "joinDemux") /\ refresh = "gone" /\ decode = "gone"
     \/ ApiStep("joinDemux", "flush") /\ demux = "gone"
  /\ UNCHANGED <<packetVars, frameVars, running, demux, decode, refresh>>

StopFlushes ==
  \/ /\ ApiStep("flush", "flushFrames")
     /\ FlushPackets
     /\ UNCHANGED <<frameVars, running, demux, decode, refresh>>
  \/ /\ ApiStep("flushFrames", "restart")
     /\ FlushFrames
     /\ UNCHANGED <<packetVars, running, demux, decode, refresh>>

(* ... and in play().                                                      *)
PlayRestarts ==
  \/ /\ ApiStep("restart", "restartFrames")
     /\ RestartPackets
     /\ UNCHANGED <<frameVars, running, demux, decode, refresh>>
  \/ /\ ApiStep("restartFrames", "threads")
     /\ RestartFrames
     /\ UNCHANGED <<packetVars, running, demux, decode, refresh>>

PlayCreatesThreads ==
  /\ ApiStep("threads", "idle")
  /\ running' = TRUE
  /\ demux' = "run" /\ decode' = "loop" /\ refresh' = "loop"
  /\ UNCHANGED <<packetVars, frameVars>>

ApiContinues ==
  \/ SeekFlushesFrames \/ StopClosesFrames \/ StopJoins \/ StopFlushes
  \/ PlayRestarts \/ PlayCreatesThreads

-----------------------------------------------------------------------------
Spurious ==
  \/ (PushWakes \/ PopWakes) /\ UNCHANGED <<frameVars, threadVars>>
  \/ (FramePushWakes \/ FramePopWakes) /\ UNCHANGED <<packetVars, threadVars>>

Next ==
  \/ DemuxThread \/ DecodeThread \/ RefreshThread
  \/ SeekFlushesPackets \/ StopClosesPackets \/ ApiContinues
  \/ Spurious

(***************************************************************************)
(* Every thread that is not asleep is scheduled, a pop() times out, and    *)
(* the API thread completes its call.  No wake-up without a reason is      *)
(* counted on.                                                             *)
(***************************************************************************)
Spec ==
  /\ Init /\ [][Next]_vars
  /\ WF_vars(DemuxThread) /\ WF_vars(DecodeThread) /\ WF_vars(RefreshThread)
  /\ WF_vars(ApiContinues)

-----------------------------------------------------------------------------
(***************************************************************************)
(* The two queues, with their byte counter, their ring and their condition *)
(* variables, implement the channels that the model of the player assumes: *)
(* what is queued never exceeds its limit by more than the last item, the  *)
(* ring wraps around without losing or repeating a frame, and nothing is   *)
(* queued after a shutdown.                                                *)
(***************************************************************************)
Channels == INSTANCE MediaChannels WITH
  Items <- Packets, Weight <- Size, PacketLimit <- MaxBytes,
  FrameLimit <- Capacity,
  packets <- queue, frames <- Content,
  packetsClosed <- shutdown, framesClosed <- frameShutdown

ImplementsChannels == Channels!Init /\ [][Channels!Next]_(Channels!vars)

(***************************************************************************)
(* Nobody oversleeps: a thread asleep on a condition variable still has    *)
(* the reason to sleep, whoever flushed, shut down, restarted, pushed or   *)
(* popped in the meantime, although notify_one() is called only on some of *)
(* these paths.  The demux thread's reason is the bytes really queued, not *)
(* the counter totalBytes_.                                                *)
(***************************************************************************)
NobodyOversleeps ==
  /\ pushAsleep =>
       pushing # None /\ Channels!Load(queue) >= MaxBytes /\ ~shutdown
  /\ popAsleep => decode = "pop" /\ queue = <<>> /\ ~shutdown
  /\ framePushAsleep => decode = "pushing" /\ ~FrameRoom /\ ~frameShutdown
  /\ framePopAsleep => refresh = "pop" /\ count = 0 /\ ~frameShutdown

(***************************************************************************)
(* A packet is shown at most once and never after a later one: through     *)
(* both queues, the hands of the threads, flushes and restarts, the        *)
(* numbers of what is under way increase from the screen to the demuxer.   *)
(***************************************************************************)
InOrder ==
  LET one(x) == IF x = None THEN <<>> ELSE <<x>>
      way == <<shown>> \o Content \o one(framePushing) \o one(decoding)
               \o queue \o one(pushing) \o <<nextRead>>
  IN  \A i, j \in DOMAIN way : i < j => way[i] < way[j]

(***************************************************************************)
(* A push that sleeps on a full queue returns: the demux thread is never   *)
(* left behind by the thread that consumes.                                *)
(***************************************************************************)
PushReturns == pushing # None ~> pushing = None

(***************************************************************************)
(* stop() returns: shutting down both queues releases every thread it      *)
(* joins.                                                                  *)
(***************************************************************************)
StopReturns == api = "close" ~> api = "idle"
=============================================================================
