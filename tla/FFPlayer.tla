------------------------------ MODULE FFPlayer ------------------------------
(***************************************************************************)
(* The playback engine: FFPlayer with its demuxer, its two packet queues,  *)
(* a decode thread for each stream, the frame queue and the refresh thread.*)
(*                                                                         *)
(* The API thread runs one call at a time (apiMutex; in the application    *)
(* every call comes from the message loop of MediaPlayer).  A call that    *)
(* waits or that other threads can observe half done is split at those     *)
(* points.  The demux thread is the one of module FFmpegDemuxer; here its  *)
(* callbacks onPacket and onEndOfStream are FFPlayer's.                    *)
(*                                                                         *)
(* A packet or frame is abstracted to its two generations: "serial", the   *)
(* seekSerial it is tagged with, and "read", the serial of the seek that   *)
(* had really positioned the media when it was read.  "read" is a history  *)
(* value that no guard looks at.                                           *)
(***************************************************************************)
EXTENDS FFmpegDemuxer, Sequences

CONSTANTS
  StreamOf,   (* the stream each position of the media belongs to           *)
  PacketCap,  (* the packets that fill the byte limit of a packet queue     *)
  FrameCap,   (* the capacity of the frame queue                            *)
  MayHold,    (* TRUE: a decoder may return no frame for a packet           *)
  HasSink,    (* TRUE: a video sink is set, so there is a refresh thread    *)
  Targets,    (* the positions the client seeks to                          *)
  Budget      (* [Ops -> Nat]: bound on the calls of each kind              *)

Streams == {"video", "audio"}
Ops     == {"open", "play", "pause", "stop", "seek"}

ASSUME PlayerAssumption ==
  /\ StreamOf \in [Positions -> Streams]
  /\ PacketCap \in Nat \ {0}
  /\ FrameCap \in Nat \ {0}
  /\ MayHold \in BOOLEAN /\ HasSink \in BOOLEAN
  /\ Targets \subseteq Positions
  /\ Budget \in [Ops -> Nat]

VARIABLES
  playerState,                          (* state                            *)
  running, paused,                      (* the engine's flags               *)
  seekInProgress, seekSerial,
  seekTarget,      (* [Streams]: video/audioSeekTarget_ is not negative     *)
  demuxerDone,
  decodeDone,      (* [Streams]: video/audioDecodeDone_                     *)
  endTransitioning, endRequested,
  claimSerial,     (* history: seekSerial when endTransitioning_ was       *)
                   (* claimed, 0 when it is not                            *)
  packets,         (* [Streams]: the packet queues                          *)
  frames,          (* the frame queue                                       *)
  closed,          (* shutdown_ of the three queues                         *)
  tag,             (* the serial onPacket gave the packet it is pushing     *)
  readSerial,      (* history: the serial of the last positioning           *)
  wpc, whand,      (* [Streams]: where a decode thread is, and its packet   *)
  rpc,             (* where the refresh thread is                           *)
  rPaused, rPauseNext, rCompleted,      (* paused_, pauseAfterNext_ and the *)
                                        (* local playbackCompleted          *)
  apc,             (* where the API thread is                               *)
  andThen,         (* what follows a stopInternal: a return, open or play   *)
  seekTo, wasPaused,                    (* locals of seek()                 *)
  hasUrl,          (* currentUrl is not empty                               *)
  calls            (* [Ops]: the API calls made                             *)

ctlVars     == <<running, paused, seekInProgress, seekSerial, seekTarget>>
endVars     == <<demuxerDone, decodeDone, endTransitioning, endRequested,
                 claimSerial>>
queueVars   == <<packets, frames, closed>>
callVars    == <<tag, readSerial>>
workerVars  == <<wpc, whand>>
refreshVars == <<rpc, rPaused, rPauseNext, rCompleted>>
localVars   == <<andThen, seekTo, wasPaused, hasUrl, calls>>
vars == <<demuxVars, playerState, ctlVars, endVars, queueVars, callVars,
          workerVars, refreshVars, apc, localVars>>

NoSerial  == -1
Serials   == 0 .. Budget["seek"]
Packet    == [serial : Serials, read : Serials]
NoHand    == [serial |-> 0, read |-> 0]

PlayerStates == {"Idle", "Prepared", "Playing", "Paused", "End"}
EndTests   == {"askDemuxer", "askSeek", "askAudio", "askVideo", "askPaused"}
WorkerPcs  == {"none", "loop", "pop", "setDone", "claim", "request", "decode",
               "decoding", "clear", "out", "dead"} \cup EndTests
RefreshPcs == {"none", "loop", "pop", "frame", "drain", "dead"}
ApiPcs == {"idle", "open", "play", "playDemux", "playDone", "resume",
           "pause", "stop", "stopRefresh", "stopWorkers", "stopDemux",
           "stopJoin", "seekSerial", "seekVideo", "seekAudio",
           "seekAudioDone", "seekVideoDone", "seekClaim", "seekRequest",
           "seekFlush", "seekDecoders", "seekCmd", "seekWait", "seekClear",
           "seekResume", "seekDone"}

TypeOK ==
  /\ DemuxTypeOK
  /\ playerState \in PlayerStates
  /\ running \in BOOLEAN /\ paused \in BOOLEAN
  /\ seekInProgress \in BOOLEAN /\ seekSerial \in Serials
  /\ seekTarget \in [Streams -> BOOLEAN]
  /\ demuxerDone \in BOOLEAN /\ decodeDone \in [Streams -> BOOLEAN]
  /\ endTransitioning \in BOOLEAN /\ endRequested \in BOOLEAN
  /\ claimSerial \in Serials
  /\ packets \in [Streams -> Seq(Packet)]
  /\ \A s \in Streams : Len(packets[s]) <= PacketCap
  /\ frames \in Seq(Packet) /\ Len(frames) <= FrameCap
  /\ closed \in BOOLEAN
  /\ tag \in Serials \cup {NoSerial} /\ readSerial \in Serials
  /\ wpc \in [Streams -> WorkerPcs] /\ whand \in [Streams -> Packet]
  /\ rpc \in RefreshPcs
  /\ rPaused \in BOOLEAN /\ rPauseNext \in BOOLEAN /\ rCompleted \in BOOLEAN
  /\ apc \in ApiPcs /\ andThen \in {"idle", "open", "play"}
  /\ seekTo \in Positions /\ wasPaused \in BOOLEAN
  /\ hasUrl \in BOOLEAN /\ calls \in [Ops -> Nat]
  /\ \A op \in Ops : calls[op] <= Budget[op]

Init ==
  /\ DemuxInit
  /\ playerState = "Idle"
  /\ running = FALSE /\ paused = FALSE
  /\ seekInProgress = FALSE /\ seekSerial = 0
  /\ seekTarget = [s \in Streams |-> FALSE]
  /\ demuxerDone = FALSE /\ decodeDone = [s \in Streams |-> FALSE]
  /\ endTransitioning = FALSE /\ endRequested = FALSE /\ claimSerial = 0
  /\ packets = [s \in Streams |-> <<>>] /\ frames = <<>> /\ closed = FALSE
  /\ tag = NoSerial /\ readSerial = 0
  /\ wpc = [s \in Streams |-> "none"]
  /\ whand = [s \in Streams |-> NoHand]
  /\ rpc = "none"
  /\ rPaused = FALSE /\ rPauseNext = FALSE /\ rCompleted = FALSE
  /\ apc = "idle" /\ andThen = "idle"
  /\ seekTo = 0 /\ wasPaused = FALSE /\ hasUrl = FALSE
  /\ calls = [op \in Ops |-> 0]

-----------------------------------------------------------------------------
(* The API calls.  A call that only returns is not a step.                 *)

Call(op) ==
  /\ apc = "idle"
  /\ calls[op] < Budget[op]
  /\ calls' = [calls EXCEPT ![op] = @ + 1]

Goto(pc) == apc' = pc

(* stopInternal(), and then: nothing more ("idle"), or open() ("open"), or *)
(* open() and the rest of play() ("play").                                 *)
StopThen_Mutant(next) ==
  Goto(IF next = "idle" THEN "stop" ELSE "open") /\ andThen' = next
StopThen(next) == Goto("stop") /\ andThen' = next

(* open() stops what runs before it opens the media.                       *)
MustStop == running \/ playerState # "Idle"

CallOpen ==
  /\ Call("open")
  /\ IF MustStop
     THEN StopThen("open")
     ELSE Goto("open") /\ andThen' = "idle"
  /\ UNCHANGED <<demuxVars, playerState, ctlVars, endVars, queueVars,
                 callVars, workerVars, refreshVars, seekTo, wasPaused,
                 hasUrl>>

OpenMedia ==
  /\ apc = "open"
  /\ DemuxOpen
  /\ playerState' = "Prepared"
  /\ readSerial' = seekSerial
  /\ hasUrl' = TRUE
  /\ Goto(IF andThen = "play" THEN "play" ELSE "idle")
  /\ UNCHANGED <<ctlVars, endVars, queueVars, tag, workerVars, refreshVars,
                 andThen, seekTo, wasPaused, calls>>

OpenFails ==
  /\ apc = "open"
  /\ DemuxOpenFails
  /\ hasUrl' = TRUE
  /\ Goto("idle")
  /\ UNCHANGED <<playerState, ctlVars, endVars, queueVars, callVars,
                 workerVars, refreshVars, andThen, seekTo, wasPaused, calls>>

(* play() from Paused.  The refresh thread, if there is one, resumes.      *)
PlayResume ==
  /\ Call("play")
  /\ playerState = "Paused"
  /\ paused' = FALSE
  /\ rPaused' = (rPaused /\ rpc = "none")
  /\ Goto("resume")
  /\ UNCHANGED <<demuxVars, playerState, running, seekInProgress, seekSerial,
                 seekTarget, endVars, queueVars, callVars, workerVars, rpc,
                 rPauseNext, rCompleted, andThen, seekTo, wasPaused, hasUrl>>

(* play() from End, or from Idle once a media was opened: start over.      *)
PlayAgain ==
  /\ Call("play")
  /\ playerState = "End" \/ (playerState = "Idle" /\ hasUrl)
  /\ StopThen("play")
  /\ UNCHANGED <<demuxVars, playerState, ctlVars, endVars, queueVars,
                 callVars, workerVars, refreshVars, seekTo, wasPaused,
                 hasUrl>>

PlayPrepared ==
  /\ Call("play")
  /\ playerState = "Prepared"
  /\ Goto("play")
  /\ UNCHANGED <<demuxVars, playerState, ctlVars, endVars, queueVars,
                 callVars, workerVars, refreshVars, andThen, seekTo,
                 wasPaused, hasUrl>>

EmptyQueues_Mutant == frames' = <<>> /\ UNCHANGED packets
EmptyQueues == frames' = <<>> /\ packets' = [s \in Streams |-> <<>>]

ResetEnd ==
  /\ decodeDone' = [s \in Streams |-> FALSE]
  /\ endTransitioning' = FALSE /\ endRequested' = FALSE /\ claimSerial' = 0

(* The queues restart; the refresh and decode threads are created.         *)
CreateThreads(pauseNext) ==
  /\ EmptyQueues
  /\ closed' = FALSE
  /\ wpc' = [s \in Streams |-> "loop"]
  /\ IF HasSink
     THEN rpc' = "loop" /\ rPaused' = FALSE /\ rPauseNext' = pauseNext
          /\ rCompleted' = FALSE
     ELSE UNCHANGED refreshVars

PlayThreads ==
  /\ apc = "play"
  /\ running' = TRUE /\ paused' = FALSE
  /\ demuxerDone' = FALSE
  /\ ResetEnd
  /\ CreateThreads(FALSE)
  /\ Goto("playDemux")
  /\ UNCHANGED <<demuxVars, playerState, seekInProgress, seekSerial,
                 seekTarget, callVars, whand, localVars>>

PlayDemux ==
  /\ apc = "playDemux"
  /\ DemuxStart
  /\ Goto("playDone")
  /\ UNCHANGED <<playerState, ctlVars, endVars, queueVars, callVars,
                 workerVars, refreshVars, localVars>>

(* The API thread's last store: the state the call ends in.                *)
EndCall(pc, st) ==
  /\ apc = pc
  /\ playerState' = st
  /\ seekTo' = 0 /\ wasPaused' = FALSE
  /\ Goto("idle")
  /\ UNCHANGED <<demuxVars, ctlVars, endVars, queueVars, callVars,
                 workerVars, refreshVars, andThen, hasUrl, calls>>

PlayDone   == EndCall("playDone", "Playing")
ResumeDone == EndCall("resume", "Playing")
PauseDone  == EndCall("pause", "Paused")
SeekFinish == EndCall("seekDone", IF wasPaused THEN "Paused" ELSE "Playing")

CallPause ==
  /\ Call("pause")
  /\ playerState \in {"Prepared", "Playing"}
  /\ paused' = TRUE
  /\ rPaused' = (rPaused \/ rpc # "none")
  /\ Goto("pause")
  /\ UNCHANGED <<demuxVars, playerState, running, seekInProgress, seekSerial,
                 seekTarget, endVars, queueVars, callVars, workerVars, rpc,
                 rPauseNext, rCompleted, andThen, seekTo, wasPaused, hasUrl>>

(* stop() and stopInternal().                                              *)
CallStop ==
  /\ Call("stop")
  /\ StopThen("idle")
  /\ UNCHANGED <<demuxVars, playerState, ctlVars, endVars, queueVars,
                 callVars, workerVars, refreshVars, seekTo, wasPaused,
                 hasUrl>>

(* shutdown() of a queue releases who waits in its push().                 *)
CloseQueues_Mutant == UNCHANGED closed
CloseQueues == closed' = TRUE

StopClose ==
  /\ apc = "stop"
  /\ running' = FALSE /\ paused' = FALSE
  /\ CloseQueues
  /\ Goto("stopRefresh")
  /\ UNCHANGED <<demuxVars, playerState, seekInProgress, seekSerial,
                 seekTarget, endVars, packets, frames, callVars, workerVars,
                 refreshVars, localVars>>

(* refreshThread->stop() has stored running_ = false; the join, after      *)
(* which the object is destroyed.                                          *)
StopRefresh ==
  /\ apc = "stopRefresh"
  /\ rpc \in {"none", "dead"}
  /\ rpc' = "none"
  /\ rPaused' = FALSE /\ rPauseNext' = FALSE /\ rCompleted' = FALSE
  /\ Goto("stopWorkers")
  /\ UNCHANGED <<demuxVars, playerState, ctlVars, endVars, queueVars,
                 callVars, workerVars, localVars>>

StopWorkers ==
  /\ apc = "stopWorkers"
  /\ \A s \in Streams : wpc[s] \in {"none", "dead"}
  /\ wpc' = [s \in Streams |-> "none"]
  /\ Goto("stopDemux")
  /\ UNCHANGED <<demuxVars, playerState, ctlVars, endVars, queueVars,
                 callVars, whand, refreshVars, localVars>>

StopDemux ==
  /\ apc = "stopDemux"
  /\ DemuxStopSignal
  /\ Goto("stopJoin")
  /\ UNCHANGED <<playerState, ctlVars, endVars, queueVars, callVars,
                 workerVars, refreshVars, localVars>>

(* The demuxer is stopped (it may have been Idle); the queues are flushed. *)
StopFinish ==
  /\ \/ apc = "stopJoin" /\ DemuxStopJoin
     \/ apc = "stopDemux" /\ demuxState = "Idle" /\ UNCHANGED demuxVars
  /\ EmptyQueues
  /\ playerState' = "Idle"
  /\ Goto(IF andThen = "idle" THEN "idle" ELSE "open")
  /\ UNCHANGED <<ctlVars, endVars, closed, callVars, workerVars,
                 refreshVars, localVars>>

(***************************************************************************)
(* seek().  Each store up to the flushes is a step: the threads that play  *)
(* or end the media test what it stores one after the other.               *)
(***************************************************************************)
CallSeek(t) ==
  /\ Call("seek")
  /\ seekTo' = t
  /\ wasPaused' = (playerState = "Paused")
  /\ seekInProgress' = TRUE
  /\ Goto("seekSerial")
  /\ UNCHANGED <<demuxVars, playerState, running, paused, seekSerial,
                 seekTarget, endVars, queueVars, callVars, workerVars,
                 refreshVars, andThen, hasUrl>>

(* What none of these stores changes.                                      *)
NotSeek == UNCHANGED <<demuxVars, playerState, running, paused,
                       seekInProgress, demuxerDone, queueVars, callVars,
                       workerVars, refreshVars, localVars>>

NextSerial_Mutant == (seekSerial + 1) % 2
NextSerial == seekSerial + 1

StoreSerial ==
  /\ apc = "seekSerial"
  /\ seekSerial' = NextSerial
  /\ Goto("seekVideo")
  /\ NotSeek
  /\ UNCHANGED <<seekTarget, decodeDone, endTransitioning, endRequested,
                 claimSerial>>

StoreTarget(s) ==
  /\ apc = IF s = "video" THEN "seekVideo" ELSE "seekAudio"
  /\ seekTarget' = [seekTarget EXCEPT ![s] = TRUE]
  /\ Goto(IF s = "video" THEN "seekAudio" ELSE "seekAudioDone")
  /\ NotSeek
  /\ UNCHANGED <<seekSerial, decodeDone, endTransitioning, endRequested,
                 claimSerial>>

ClearDone(s) ==
  /\ apc = IF s = "audio" THEN "seekAudioDone" ELSE "seekVideoDone"
  /\ decodeDone' = [decodeDone EXCEPT ![s] = FALSE]
  /\ Goto(IF s = "audio" THEN "seekVideoDone" ELSE "seekClaim")
  /\ NotSeek
  /\ UNCHANGED <<seekSerial, seekTarget, endTransitioning, endRequested,
                 claimSerial>>

ClaimCleared_Mutant == endTransitioning
ClaimCleared == FALSE

ClearClaim ==
  /\ apc = "seekClaim"
  /\ endTransitioning' = ClaimCleared
  /\ claimSerial' = IF endTransitioning' THEN claimSerial ELSE 0
  /\ Goto("seekRequest")
  /\ NotSeek
  /\ UNCHANGED <<seekSerial, seekTarget, decodeDone, endRequested>>

ClearRequest ==
  /\ apc = "seekRequest"
  /\ endRequested' = FALSE
  /\ Goto("seekFlush")
  /\ NotSeek
  /\ UNCHANGED <<seekSerial, seekTarget, decodeDone, endTransitioning,
                 claimSerial>>

SeekStores ==
  \/ StoreSerial \/ ClearClaim \/ ClearRequest
  \/ \E s \in Streams : StoreTarget(s) \/ ClearDone(s)

SeekFlush ==
  /\ apc = "seekFlush"
  /\ EmptyQueues
  /\ Goto("seekDecoders")
  /\ UNCHANGED <<demuxVars, playerState, ctlVars, endVars, closed, callVars,
                 workerVars, refreshVars, localVars>>

(* The decoders are flushed under their mutexes.                           *)
SeekFlushDecoders ==
  /\ apc = "seekDecoders"
  /\ \A s \in Streams : wpc[s] # "decoding"
  /\ Goto("seekCmd")
  /\ UNCHANGED <<demuxVars, playerState, ctlVars, endVars, queueVars,
                 callVars, workerVars, refreshVars, localVars>>

SeekCommand ==
  /\ apc = "seekCmd"
  /\ DemuxSeekSignal(seekTo)
  /\ Goto("seekWait")
  /\ UNCHANGED <<playerState, ctlVars, endVars, queueVars, callVars,
                 workerVars, refreshVars, localVars>>

(* The demuxer refuses: nothing is rolled back but seekInProgress.         *)
SeekRefused ==
  /\ apc = "seekCmd"
  /\ ~CanSeek
  /\ seekInProgress' = FALSE
  /\ seekTo' = 0 /\ wasPaused' = FALSE
  /\ Goto("idle")
  /\ UNCHANGED <<demuxVars, playerState, running, paused, seekSerial,
                 seekTarget, endVars, queueVars, callVars, workerVars,
                 refreshVars, andThen, hasUrl, calls>>

SeekAnswer ==
  /\ apc = "seekWait"
  /\ SeekAnswered
  /\ demuxerDone' = FALSE
  /\ Goto("seekClear")
  /\ UNCHANGED <<demuxVars, playerState, ctlVars, decodeDone,
                 endTransitioning, endRequested, claimSerial, queueVars,
                 callVars, workerVars, refreshVars, localVars>>

SeekClear ==
  /\ apc = "seekClear"
  /\ seekInProgress' = FALSE
  /\ Goto("seekResume")
  /\ UNCHANGED <<demuxVars, playerState, running, paused, seekSerial,
                 seekTarget, endVars, queueVars, callVars, workerVars,
                 refreshVars, localVars>>

(* Threads are created if there are none; a paused refresh thread is let   *)
(* through for one frame; the demuxer is started.                          *)
SeekResume ==
  /\ apc = "seekResume"
  /\ IF \A s \in Streams : wpc[s] = "none"
     THEN /\ running' = TRUE /\ paused' = wasPaused
          /\ CreateThreads(wasPaused)
     ELSE /\ IF wasPaused /\ rpc # "none"
             THEN rPaused' = FALSE /\ rPauseNext' = TRUE
             ELSE UNCHANGED <<rPaused, rPauseNext>>
          /\ UNCHANGED <<running, paused, queueVars, wpc, rpc, rCompleted>>
  /\ DemuxStart
  /\ Goto("seekDone")
  /\ UNCHANGED <<playerState, seekInProgress, seekSerial, seekTarget,
                 endVars, callVars, whand, localVars>>

(* What the API thread does of its own accord once a call is made.         *)
ApiContinues ==
  \/ OpenMedia \/ OpenFails
  \/ PlayThreads \/ PlayDemux \/ PlayDone \/ ResumeDone \/ PauseDone
  \/ StopClose \/ StopRefresh \/ StopWorkers \/ StopDemux \/ StopFinish
  \/ SeekStores \/ SeekFlush \/ SeekFlushDecoders
  \/ SeekCommand \/ SeekRefused
  \/ SeekAnswer \/ SeekClear \/ SeekResume \/ SeekFinish

ApiCalls ==
  \/ CallOpen \/ PlayResume \/ PlayAgain \/ PlayPrepared \/ CallPause
  \/ CallStop \/ \E t \in Targets : CallSeek(t)

-----------------------------------------------------------------------------
(* The demux thread, with the callbacks FFPlayer gave it.                  *)

(* onPacket: the packet is tagged with the current serial ...              *)
OnPacketTag ==
  /\ dpc \in {"deliver", "probe"}
  /\ tag = NoSerial
  /\ tag' = seekSerial
  /\ UNCHANGED <<demuxVars, playerState, ctlVars, endVars, queueVars,
                 readSerial, workerVars, refreshVars, apc, localVars>>

(* ... and pushed, once its queue is not full; a closed queue drops it.    *)
OnPacketPush ==
  /\ tag # NoSerial
  /\ LET s == StreamOf[hand]
     IN  \/ closed /\ UNCHANGED packets
         \/ /\ ~closed
            /\ Len(packets[s]) < PacketCap
            /\ packets' = [packets EXCEPT ![s] =
                             Append(@, [serial |-> tag, read |-> readSerial])]
  /\ tag' = NoSerial
  /\ DemuxDelivered
  /\ UNCHANGED <<playerState, ctlVars, endVars, frames, closed, readSerial,
                 workerVars, refreshVars, apc, localVars>>

OnEndOfStream ==
  /\ DemuxEof
  /\ demuxerDone' = TRUE
  /\ UNCHANGED <<playerState, ctlVars, decodeDone, endTransitioning,
                 endRequested, claimSerial, queueVars, callVars, workerVars,
                 refreshVars, apc, localVars>>

Reposition ==
  /\ DemuxReposition
  /\ readSerial' = seekSerial
  /\ UNCHANGED <<playerState, ctlVars, endVars, queueVars, tag, workerVars,
                 refreshVars, apc, localVars>>

DemuxThread ==
  \/ OnPacketTag \/ OnPacketPush \/ OnEndOfStream \/ Reposition
  \/ /\ DemuxInternal
     /\ UNCHANGED <<playerState, ctlVars, endVars, queueVars, callVars,
                    workerVars, refreshVars, apc, localVars>>

-----------------------------------------------------------------------------
(* The decode threads.                                                     *)

(* The part of the state that a decode thread leaves alone in every step.  *)
NotWorker == UNCHANGED <<demuxVars, running, paused, seekInProgress,
                         seekSerial, demuxerDone, closed, callVars,
                         refreshVars, apc, localVars>>

(* Going back to the head of the loop lets go of the packet.               *)
Jump(s, pc) ==
  /\ wpc' = [wpc EXCEPT ![s] = pc]
  /\ whand' = IF pc \in {"loop", "pop"} THEN [whand EXCEPT ![s] = NoHand]
              ELSE whand

(* The tests at the head of the loop.  A paused audio thread idles, unless *)
(* a seek waits for its first frame.                                       *)
MayPop(s) == running /\ (s = "audio" => ~paused \/ seekTarget[s])

(***************************************************************************)
(* "loop": the tests at the head are still to be made.  "pop": they were   *)
(* made and passed, or are about to be.  A thread that comes back while    *)
(* they would pass goes to "pop" at once; if that changes before it makes  *)
(* them, or while it waits for a packet, WorkerBack takes it to "loop".    *)
(***************************************************************************)
Again(s) == Jump(s, IF MayPop(s) THEN "pop" ELSE "loop")

WorkerExit(s) ==
  /\ wpc[s] = "loop"
  /\ ~running
  /\ Jump(s, "dead")
  /\ NotWorker
  /\ UNCHANGED <<playerState, seekTarget, decodeDone, endTransitioning,
                 endRequested, claimSerial, packets, frames>>

WorkerEnter(s) ==
  /\ wpc[s] = "loop"
  /\ MayPop(s)
  /\ Jump(s, "pop")
  /\ NotWorker
  /\ UNCHANGED <<playerState, seekTarget, decodeDone, endTransitioning,
                 endRequested, claimSerial, packets, frames>>

WorkerBack(s) ==
  /\ wpc[s] = "pop"
  /\ ~MayPop(s)
  /\ Jump(s, "loop")
  /\ NotWorker
  /\ UNCHANGED <<playerState, seekTarget, decodeDone, endTransitioning,
                 endRequested, claimSerial, packets, frames>>

(* A packet of an older generation, or met during a seek, is discarded.    *)
Fresh(pkt) == pkt.serial = seekSerial /\ ~seekInProgress

WorkerPop(s) ==
  /\ wpc[s] = "pop"
  /\ packets[s] # <<>>
  /\ packets' = [packets EXCEPT ![s] = Tail(@)]
  /\ IF Fresh(Head(packets[s]))
     THEN /\ wpc' = [wpc EXCEPT ![s] = "decode"]
          /\ whand' = [whand EXCEPT ![s] = Head(packets[s])]
          /\ decodeDone' = [decodeDone EXCEPT ![s] = FALSE]
     ELSE Again(s) /\ UNCHANGED decodeDone
  /\ NotWorker
  /\ UNCHANGED <<playerState, seekTarget, endTransitioning, endRequested,
                 claimSerial, frames>>

(* pop() timed out: the stream is over if the demuxer is done, nothing is  *)
(* queued, and a frame was decoded since the last seek.                    *)
InputOver_Mutant(s) == packets[s] = <<>> /\ ~paused /\ ~seekTarget[s]
InputOver(s) ==
  demuxerDone /\ packets[s] = <<>> /\ ~paused /\ ~seekTarget[s]

WorkerStarves(s) ==
  /\ wpc[s] = "pop"
  /\ InputOver(s)
  /\ ~decodeDone[s]
  /\ Jump(s, "setDone")
  /\ NotWorker
  /\ UNCHANGED <<playerState, seekTarget, decodeDone, endTransitioning,
                 endRequested, claimSerial, packets, frames>>

WorkerDone(s) ==
  /\ wpc[s] = "setDone"
  /\ decodeDone' = [decodeDone EXCEPT ![s] = TRUE]
  /\ Jump(s, "askDemuxer")
  /\ NotWorker
  /\ UNCHANGED <<playerState, seekTarget, endTransitioning, endRequested,
                 claimSerial, packets, frames>>

(* The tests at the head of tryTransitionToEnd, one load after the other.  *)
MayEnd == [askDemuxer |-> demuxerDone,
           askSeek    |-> ~seekInProgress,
           askAudio   |-> decodeDone["audio"],
           askVideo   |-> decodeDone["video"],
           askPaused  |-> ~paused]

NextTest == [askDemuxer |-> "askSeek",  askSeek  |-> "askAudio",
             askAudio   |-> "askVideo", askVideo |-> "askPaused",
             askPaused  |-> "claim"]

WorkerAsks(s) ==
  /\ wpc[s] \in EndTests
  /\ IF MayEnd[wpc[s]] THEN Jump(s, NextTest[wpc[s]]) ELSE Again(s)
  /\ NotWorker
  /\ UNCHANGED <<playerState, seekTarget, decodeDone, endTransitioning,
                 endRequested, claimSerial, packets, frames>>

(* The compare-and-swap of endTransitioning_.                              *)
WorkerClaim(s) ==
  /\ wpc[s] = "claim"
  /\ endTransitioning' = TRUE
  /\ IF endTransitioning
     THEN Again(s) /\ UNCHANGED claimSerial
     ELSE Jump(s, "request") /\ claimSerial' = seekSerial
  /\ NotWorker
  /\ UNCHANGED <<playerState, seekTarget, decodeDone, endRequested, packets,
                 frames>>

(* With a sink the refresh thread ends the playback; without one, this     *)
(* thread does, and nobody looks at the request.                           *)
RequestEnd_Mutant == endRequested' = ~HasSink
RequestEnd == endRequested' = TRUE

WorkerRequest(s) ==
  /\ wpc[s] = "request"
  /\ RequestEnd
  /\ playerState' = IF HasSink THEN playerState ELSE "End"
  /\ Again(s)
  /\ NotWorker
  /\ UNCHANGED <<seekTarget, decodeDone, endTransitioning, claimSerial,
                 packets, frames>>

(* The decode mutex is taken and seekInProgress looked at again.           *)
MayFeed_Mutant(s) == TRUE
MayFeed(s) == ~seekInProgress

WorkerFeed(s) ==
  /\ wpc[s] = "decode"
  /\ IF MayFeed(s) THEN Jump(s, "decoding") ELSE Again(s)
  /\ NotWorker
  /\ UNCHANGED <<playerState, seekTarget, decodeDone, endTransitioning,
                 endRequested, claimSerial, packets, frames>>

(* The decoder returns, with or without a frame; a frame is dropped if a   *)
(* seek came in the meantime.                                              *)
WorkerDecoded(s) ==
  /\ wpc[s] = "decoding"
  /\ \/ /\ MayHold \/ ~Fresh(whand[s])
        /\ Again(s)
     \/ Fresh(whand[s]) /\ Jump(s, "clear")
  /\ NotWorker
  /\ UNCHANGED <<playerState, seekTarget, decodeDone, endTransitioning,
                 endRequested, claimSerial, packets, frames>>

(* A frame counts as progress.  Audio goes to the renderer, which takes it *)
(* sooner or later; video goes to the frame queue.                         *)
WorkerClear(s) ==
  /\ wpc[s] = "clear"
  /\ seekTarget' = [seekTarget EXCEPT ![s] = FALSE]
  /\ Jump(s, IF s = "audio" THEN "loop" ELSE "out")
  /\ NotWorker
  /\ UNCHANGED <<playerState, decodeDone, endTransitioning, endRequested,
                 claimSerial, packets, frames>>

(* push() to the frame queue, once that is not full; a closed one drops it.*)
FrameRoom_Mutant == Len(frames) <= FrameCap
FrameRoom == Len(frames) < FrameCap

WorkerOut(s) ==
  /\ wpc[s] = "out"
  /\ \/ closed /\ UNCHANGED frames
     \/ /\ ~closed
        /\ FrameRoom
        /\ frames' = Append(frames, whand[s])
  /\ Again(s)
  /\ NotWorker
  /\ UNCHANGED <<playerState, seekTarget, decodeDone, endTransitioning,
                 endRequested, claimSerial, packets>>

DecodeThread(s) ==
  \/ WorkerExit(s) \/ WorkerEnter(s) \/ WorkerBack(s)
  \/ WorkerPop(s) \/ WorkerStarves(s)
  \/ WorkerDone(s) \/ WorkerAsks(s) \/ WorkerClaim(s) \/ WorkerRequest(s)
  \/ WorkerFeed(s) \/ WorkerDecoded(s) \/ WorkerClear(s) \/ WorkerOut(s)

-----------------------------------------------------------------------------
(* The refresh thread.                                                     *)

NotRefresh == UNCHANGED <<demuxVars, ctlVars, endVars, packets, closed,
                          callVars, workerVars, apc, localVars>>

(* The tests at the head of the loop: a paused thread idles, unless one    *)
(* frame is to pass.  "loop", "pop" and RefreshBack are as in the decode   *)
(* threads.                                                                *)
MayRefresh == apc # "stopRefresh" /\ (~rPaused \/ rPauseNext)

RefreshAgain == rpc' = IF MayRefresh THEN "pop" ELSE "loop"

RefreshExit ==
  /\ rpc = "loop"
  /\ apc = "stopRefresh"
  /\ rpc' = "dead"
  /\ NotRefresh
  /\ UNCHANGED <<playerState, frames, rPaused, rPauseNext, rCompleted>>

RefreshEnter ==
  /\ rpc = "loop"
  /\ MayRefresh
  /\ rpc' = "pop"
  /\ NotRefresh
  /\ UNCHANGED <<playerState, frames, rPaused, rPauseNext, rCompleted>>

RefreshBack ==
  /\ rpc = "pop"
  /\ ~MayRefresh
  /\ rpc' = "loop"
  /\ NotRefresh
  /\ UNCHANGED <<playerState, frames, rPaused, rPauseNext, rCompleted>>

(* A frame of an older generation is skipped.                              *)
RefreshPop ==
  /\ rpc = "pop"
  /\ frames # <<>>
  /\ frames' = Tail(frames)
  /\ IF Head(frames).serial = seekSerial
     THEN rpc' = "frame" /\ rCompleted' = FALSE
     ELSE RefreshAgain /\ UNCHANGED rCompleted
  /\ NotRefresh
  /\ UNCHANGED <<playerState, rPaused, rPauseNext>>

(* The frame is late: the next one is taken in its place, whatever serial  *)
(* it carries.                                                             *)
RefreshLate ==
  /\ rpc = "frame"
  /\ frames # <<>>
  /\ frames' = Tail(frames)
  /\ NotRefresh
  /\ UNCHANGED <<playerState, refreshVars>>

RefreshShow ==
  /\ rpc = "frame"
  /\ IF rPauseNext THEN rpc' = "loop" ELSE RefreshAgain
  /\ rPauseNext' = FALSE
  /\ rPaused' = (rPaused \/ rPauseNext)
  /\ NotRefresh
  /\ UNCHANGED <<playerState, frames, rCompleted>>

(* pop() timed out.  If the end was requested, completeEndTransition first *)
(* lets the audio device drain ...                                         *)
RefreshStarves ==
  /\ rpc = "pop"
  /\ frames = <<>>
  /\ endRequested /\ ~rCompleted
  /\ rpc' = "drain"
  /\ rCompleted' = TRUE
  /\ NotRefresh
  /\ UNCHANGED <<playerState, frames, rPaused, rPauseNext>>

(* ... and then stores End over whatever the state has become.             *)
RefreshEnd ==
  /\ rpc = "drain"
  /\ playerState' = "End"
  /\ RefreshAgain
  /\ NotRefresh
  /\ UNCHANGED <<frames, rPaused, rPauseNext, rCompleted>>

RefreshThread ==
  \/ RefreshExit \/ RefreshEnter \/ RefreshBack \/ RefreshPop
  \/ RefreshLate \/ RefreshShow \/ RefreshStarves \/ RefreshEnd

-----------------------------------------------------------------------------
(* What happens without the client: the calls that are made go on, and the *)
(* threads run.                                                            *)
LeftAlone ==
  \/ ApiContinues
  \/ DemuxThread
  \/ \E s \in Streams : DecodeThread(s)
  \/ RefreshThread

Next == ApiCalls \/ LeftAlone

(***************************************************************************)
(* Every thread is scheduled; the client need not call anything.           *)
(***************************************************************************)
Spec ==
  /\ Init /\ [][Next]_vars
  /\ WF_vars(ApiContinues) /\ WF_vars(DemuxThread) /\ WF_vars(RefreshThread)
  /\ \A s \in Streams : WF_vars(DecodeThread(s))

-----------------------------------------------------------------------------
Queued ==
  UNION {{packets[s][i] : i \in DOMAIN packets[s]} : s \in Streams}
Decoded   == {frames[i] : i \in DOMAIN frames}
NoThreads == rpc = "none" /\ dpc = "none" /\ \A s \in Streams : wpc[s] = "none"

(***************************************************************************)
(* play() assigns videoDecodeThread, audioDecodeThread and the demuxer's   *)
(* thread: assigning a std::thread that is still joinable terminates the   *)
(* process, and the demuxer refuses to open while it is not Idle.  On every *)
(* path to the opening of a media and to the creation of threads, the      *)
(* threads of the last session are gone and joined.                        *)
(***************************************************************************)
ThreadsOwned ==
  /\ apc \in {"open", "play"} => NoThreads
  /\ apc = "open" => demuxState = "Idle"

(***************************************************************************)
(* A player that stop() left Idle is quiet: no thread runs, and no packet  *)
(* or frame of the old media is left to be played by the next one, not     *)
(* even one that onPacket was pushing while the queues were shut down.     *)
(***************************************************************************)
QuietWhenIdle ==
  apc = "idle" /\ playerState = "Idle" =>
    NoThreads /\ Queued = {} /\ Decoded = {} /\ tag = NoSerial

(***************************************************************************)
(* FFPlayer.cpp:67-69: the decode mutexes exist so that the flush of the   *)
(* decoders in seek() never races with a decode.  More is needed for the   *)
(* flush to last: until the demuxer has answered, no decoder may be fed    *)
(* again, or it would carry pictures of before the seek into the frames    *)
(* after it.                                                               *)
(***************************************************************************)
FlushedDecodersRest ==
  apc \in {"seekCmd", "seekWait"} => \A s \in Streams : wpc[s] # "decoding"

(***************************************************************************)
(* The serial is taken in onPacket, after the packet was read, so a packet *)
(* can carry a newer serial than the seek that positioned the media when   *)
(* it was read; but, however seeks follow one another, never by more than  *)
(* the one seek that is being executed.                                    *)
(***************************************************************************)
OneSeekStale ==
  \A p \in Queued \cup Decoded : p.serial \in {p.read, p.read + 1}

(***************************************************************************)
(* The refresh thread looks at the serial of the frame it pops, but not at *)
(* that of the frame its drop loop takes in place of a late one.  What it  *)
(* relies on: from the frame queue back through the decode thread and the  *)
(* packet queue to onPacket the generations never decrease, so that behind *)
(* a frame of the present one no older one follows.                        *)
(***************************************************************************)
GenerationsInOrder ==
  LET held == IF wpc["video"] \in {"decode", "decoding", "clear", "out"}
              THEN <<whand["video"]>> ELSE <<>>
      line == frames \o held \o packets["video"]
  IN  /\ \A i, j \in DOMAIN line : i < j => line[i].serial <= line[j].serial
      /\ tag # NoSerial => \A i \in DOMAIN line : line[i].serial <= tag

(***************************************************************************)
(* FFPlayer.cpp:635-638: "pkt->seekSerial was captured when the demuxer    *)
(* created the packet.  If it doesn't match the current seekSerial, this   *)
(* packet is stale and should not be decoded."  Then a decoded frame of    *)
(* the current generation would come from a packet read after the current  *)
(* seek had positioned the media.                                          *)
(***************************************************************************)
DecodedFramesAreFresh ==
  \A p \in Decoded : p.serial = seekSerial => p.read = seekSerial

(* The whole media was read, delivered, decoded and shown.                 *)
Drained ==
  /\ filePos = MediaLen /\ hand = NoPacket
  /\ Queued = {} /\ Decoded = {}
  /\ rpc # "frame"
  /\ \A s \in Streams : wpc[s] \notin {"setDone", "decode", "decoding", "clear", "out"}

(***************************************************************************)
(* The state becomes End only when nothing is left to play: as long as     *)
(* nobody seeks, the two decode threads and the refresh thread never claim *)
(* the end of the media while a packet or a frame is still on its way,     *)
(* whatever play(), pause() and stop() do in between.                      *)
(***************************************************************************)
EndIsHonest ==
  [][playerState # "End" /\ playerState' = "End" /\ seekSerial = 0
     => Drained]_vars

(***************************************************************************)
(* The three ways in which playback is left Playing for ever: both decode  *)
(* threads were done while paused, so that tryTransitionToEnd gave up and  *)
(* is not tried again; play() after a pause() in state Prepared, which     *)
(* creates no threads; and End stored just before play() or pause() stored *)
(* its own state over it.                                                  *)
(***************************************************************************)
EndMissed ==
  \/ /\ ~endTransitioning
     /\ \A s \in Streams :
          decodeDone[s] /\ wpc[s] \notin EndTests \cup {"claim"}
  \/ NoThreads
  \/ rCompleted /\ rpc # "drain"

(***************************************************************************)
(* Without seeks, a player that plays and is left alone does not play for  *)
(* ever: it reaches End, but for those three races.                        *)
(***************************************************************************)
PlaybackEnds ==
  apc = "idle" /\ playerState = "Playing" ~>
    playerState # "Playing" \/ apc # "idle" \/ EndMissed

(***************************************************************************)
(* A seek adds two ways.  A stream none of whose packets is decoded after  *)
(* the seek, because the target is behind its last one or because they all *)
(* came while seekInProgress was still set, keeps its seek target, and its *)
(* thread never says that it is done.  And the demuxer, which goes on as   *)
(* soon as it has answered, may reach the end of the media before seek()   *)
(* clears demuxerDone, and fall asleep on the start() that follows.        *)
(***************************************************************************)
SeekMissed ==
  /\ dpc = "parked"
  /\ \/ startReading /\ ~demuxerDone
     \/ demuxerDone /\ \E s \in Streams :
          seekTarget[s] /\ packets[s] = <<>> /\ wpc[s] \in {"loop", "pop"}

(***************************************************************************)
(* And a decode thread that has passed the tests of tryTransitionToEnd     *)
(* before the seek can claim and request the end between the two stores    *)
(* with which seek() clears endTransitioning_ and endRequested_: the claim *)
(* stays, the request is gone, and nobody can claim the next end.          *)
(***************************************************************************)
ClaimLost ==
  /\ endTransitioning /\ ~endRequested /\ claimSerial = seekSerial
  /\ \A s \in Streams : wpc[s] # "request"

(***************************************************************************)
(* Playback that was sought in once, at any moment of it, before its End   *)
(* or after it, reaches End too: when it plays, is left alone and comes to *)
(* rest, no call going on and no thread with anything to do, it is still   *)
(* Playing only through these races and those of EndMissed.                *)
(***************************************************************************)
AtRest == apc = "idle" /\ ~ENABLED <<LeftAlone>>_vars

SeekedPlaybackEnds ==
  AtRest /\ playerState = "Playing" => EndMissed \/ SeekMissed \/ ClaimLost

(***************************************************************************)
(* stop() joins three threads that may each be blocked on a queue or asleep *)
(* on the demuxer's condition variable.  It returns, unless its            *)
(* notification is lost on a demux thread that is about to sleep at the    *)
(* end of the media.                                                       *)
(***************************************************************************)
StopReturns ==
  apc = "stop" ~> apc \in {"idle", "open"} \/ (apc = "stopJoin" /\ dpc = "parked")
=============================================================================
