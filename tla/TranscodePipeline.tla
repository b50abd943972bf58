-------------------------- MODULE TranscodePipeline --------------------------
(***************************************************************************)
(* OfflineTranscodePipeline: six stage threads in a row, demux -> decode   *)
(* -> vsr -> encode -> mux, and audio beside them from demux to the muxer, *)
(* with a bounded queue between any two.  Its client is OfflineVSRBridge:  *)
(* one thread starts the job and waits for it, the thread of the user      *)
(* interface pauses, resumes and cancels.                                  *)
(*                                                                         *)
(* A packet, the frame decoded from it and the packet encoded from that    *)
(* are all the position of the packet in the input.  The decoder and the   *)
(* encoder return what they are fed in order, each of them behind by a     *)
(* constant number of pictures.                                            *)
(***************************************************************************)
EXTENDS Integers, Sequences, FiniteSets

CONSTANTS
  Media,      (* the input: the stream of each packet                       *)
  HasAudio,   (* audioPassthrough                                           *)
  Capacity,   (* the items that fill a queue                                *)
  Lag,        (* the pictures a decoder, the scaler and an encoder hold back*)
  Interval,   (* checkpointInterval                                         *)
  Kinds,      (* the troubles the job may have, each at most once ...       *)
  MaxTroubles (* ... and this bound on their number                         *)

Positions == 1 .. Len(Media)
Stages    == {"demux", "decode", "vsr", "encode", "mux", "audio"}
Workers   == {"decode", "vsr", "encode"}
Queues    == {"video", "sound", "decoded", "upscaled", "encoded"}

(* A call of pause() or cancel(); a call of this name that fails; a frame  *)
(* over the VRAM budget; an item that comes while its reader times out.    *)
TroubleKinds ==
  {"pause", "cancel", "timeout", "muxer", "addAudio", "input", "read",
   "decode", "budget", "encode", "save", "flush", "write", "finalize"}

ASSUME TranscodeAssumption ==
  /\ Media \in Seq({"video", "audio"})
  /\ HasAudio \in BOOLEAN
  /\ Capacity \in Nat \ {0} /\ Interval \in Nat \ {0}
  /\ Lag \in [Workers -> Nat] /\ Lag["vsr"] = 0
  /\ Kinds \subseteq TroubleKinds /\ MaxTroubles \in Nat

(* The queue a stage takes from, and the one it puts item i into.          *)
InOf(s) == CASE s = "decode" -> "video"   [] s = "vsr"    -> "decoded"
             [] s = "encode" -> "upscaled" [] s = "mux"   -> "encoded"
             [] s = "audio"  -> "sound"
OutOf(s, i) ==
  CASE s = "demux"  -> IF Media[i] = "video" THEN "video" ELSE "sound"
    [] s = "decode" -> "decoded" [] s = "vsr" -> "upscaled"
    [] s = "encode" -> "encoded"

VARIABLES
  state, cancelRequested, pauseRequested, errorFlag,
  completionResult, framesProcessed,
  queue, closed,   (* [Queues]: their items, and shutdown_                  *)
  pc,              (* [Stages]: where a stage thread is                     *)
  hand,            (* [Stages]: what it has still to pass on                *)
  held,            (* [Workers]: what the decoder, the encoder hold back    *)
  next,            (* the position of the packet demux reads next           *)
  muxer,           (* "closed", "open", "header" written, or "finalized"    *)
  audioStream,     (* audioStreamIndex_                                     *)
  output,          (* what was written to stream 0, to stream 1             *)
  checkpoint,      (* lastProcessedFrame of the saved checkpoint, or 0      *)
  runner,          (* where the thread is that starts the job and waits     *)
  ui,              (* where the user interface is in cancel()               *)
  uiState,         (* the StudioState it shows                              *)
  troubles         (* the kinds of trouble there were                       *)

flagVars   == <<cancelRequested, pauseRequested, errorFlag>>
resultVars == <<completionResult, framesProcessed, checkpoint>>
queueVars  == <<queue, closed>>
stageVars  == <<pc, hand, held, next>>
muxVars    == <<muxer, audioStream, output>>
clientVars == <<runner, ui, uiState>>
vars == <<state, flagVars, resultVars, queueVars, stageVars, muxVars,
          clientVars, troubles>>

Final  == {"Completed", "Cancelled", "Error"}
States == {"Idle", "Configured", "Running", "Paused"} \cup Final
StagePcs ==
  {"none", "open", "gate", "top", "wait", "pausing", "paused", "rerun", "pop",
   "push", "skip", "count", "write", "flush", "drain", "close", "endSound",
   "finalize", "closeMux", "decide", "complete", "clean", "notify",
   "err", "errState", "errClose", "errResult", "gone"}
RunnerPcs == {"new", "start", "open", "launch", "wait", "asleep", "failed",
              "success", "error"}

TypeOK ==
  /\ state \in States
  /\ cancelRequested \in BOOLEAN /\ pauseRequested \in BOOLEAN
  /\ errorFlag \in BOOLEAN
  /\ completionResult \in {"success", "error"}
  /\ framesProcessed \in 0 .. Len(Media) /\ checkpoint \in 0 .. Len(Media)
  /\ queue \in [Queues -> Seq(Positions)]
  /\ \A q \in Queues : Len(queue[q]) <= Capacity
  /\ closed \in [Queues -> BOOLEAN]
  /\ pc \in [Stages -> StagePcs] /\ hand \in [Stages -> Seq(Positions)]
  /\ held \in [Workers -> Seq(Positions)]
  /\ next \in 1 .. Len(Media) + 1
  /\ muxer \in {"closed", "open", "header", "finalized"}
  /\ audioStream \in {0, 1} /\ output \in [{0, 1} -> Seq(Positions)]
  /\ runner \in RunnerPcs
  /\ ui \in {"idle", "cancelResume", "cancelClose"}
  /\ uiState \in {"Ready", "Processing", "Paused", "Idle"}
  /\ troubles \subseteq Kinds /\ Cardinality(troubles) <= MaxTroubles

Init ==
  /\ state = "Idle"
  /\ cancelRequested = FALSE /\ pauseRequested = FALSE /\ errorFlag = FALSE
  /\ completionResult = "success" /\ framesProcessed = 0 /\ checkpoint = 0
  /\ queue = [q \in Queues |-> <<>>] /\ closed = [q \in Queues |-> FALSE]
  /\ pc = [s \in Stages |-> "none"] /\ hand = [s \in Stages |-> <<>>]
  /\ held = [s \in Workers |-> <<>>] /\ next = 1
  /\ muxer = "closed" /\ audioStream = 0
  /\ output = [i \in {0, 1} |-> <<>>]
  /\ runner = "new" /\ ui = "idle" /\ uiState = "Ready"
  /\ troubles = {}

-----------------------------------------------------------------------------
(* The loop of a stage.                                                    *)

Trouble(kind) ==
  /\ kind \in Kinds \ troubles
  /\ Cardinality(troubles) < MaxTroubles
  /\ troubles' = troubles \cup {kind}
NoTrouble == UNCHANGED troubles

ShouldRun == ~cancelRequested /\ ~errorFlag

Goto(s, l) == pc' = [pc EXCEPT ![s] = l]

(* Where a stage goes that leaves its loop: to the flush of its codec, if  *)
(* that holds anything, and the shutdown of its output queue.              *)
Exit_Mutant(s) == IF s = "mux" THEN "finalize"
                  ELSE IF s = "audio" THEN "gone" ELSE "close"

Exit(s) ==
  CASE s \in Workers -> IF held[s] = <<>> THEN "close" ELSE "flush"
    [] s = "mux"   -> "finalize"
    [] s = "audio" -> "gone"
    [] OTHER       -> "close"

(***************************************************************************)
(* In front of a queue that holds the given items: there is one to take,   *)
(* or the stage is in "wait".  There pop() sleeps, times out after 100 ms, *)
(* and is called again as long as the queue is neither filled nor shut.    *)
(***************************************************************************)
Front(s, items, found) ==
  IF items = <<>> /\ s # "demux" THEN "wait" ELSE found

InQueue(s) == IF s = "demux" THEN <<>> ELSE queue[InOf(s)]

(***************************************************************************)
(* A stage comes back to the head of its loop: it leaves, or stands at the *)
(* gate of waitIfPaused, or is in front of its queue.  In "top" and "wait" *)
(* the two tests may still be ahead of it; in "pop" they are behind it.    *)
(***************************************************************************)
Return(s, items) ==
  IF ~ShouldRun THEN Exit(s)
  ELSE IF pauseRequested THEN "gate" ELSE Front(s, items, "top")

Again(s) == Goto(s, Return(s, InQueue(s)))

NotStage == UNCHANGED <<cancelRequested, pauseRequested, audioStream, ui,
                        uiState>>

(* A step that only moves the program counter of a stage.                  *)
Moves(s, l) ==
  /\ Goto(s, l)
  /\ UNCHANGED <<flagVars, resultVars, queueVars, hand, held, next, muxVars,
                 clientVars, troubles>>

Leave(s) ==
  /\ pc[s] \in {"gate", "top", "wait"}
  /\ ~ShouldRun
  /\ Moves(s, Exit(s))
  /\ UNCHANGED state

PassGate(s) ==
  /\ pc[s] = "gate"
  /\ ~pauseRequested
  /\ Moves(s, Front(s, InQueue(s), "top"))
  /\ UNCHANGED state

(* pop() returned nothing, and isShutdown() then says true: the stage      *)
(* leaves, even if the last items came between the two.                    *)
Starve(s) ==
  /\ pc[s] = "wait"
  /\ closed[InOf(s)]
  /\ IF InQueue(s) = <<>> THEN NoTrouble ELSE Trouble("timeout")
  /\ Goto(s, Exit(s))
  /\ NotStage
  /\ UNCHANGED <<state, errorFlag, resultVars, queueVars, hand, held, next,
                 muxer, output, runner>>

(* waitIfPaused.  A stage in "rerun" is the one that holds pauseMutex_.    *)
PauseMutexFree == \A s \in Stages : pc[s] # "rerun"

SeePause(s) ==
  /\ pc[s] \in {"gate", "top", "wait"}
  /\ pauseRequested
  /\ Moves(s, "pausing")
  /\ UNCHANGED state

StorePaused(s) ==
  /\ pc[s] = "pausing"
  /\ PauseMutexFree
  /\ state' = "Paused"
  /\ Moves(s, "paused")

WakeUp(s) ==
  /\ pc[s] = "paused"
  /\ PauseMutexFree
  /\ ~pauseRequested
  /\ Moves(s, IF ShouldRun THEN "rerun" ELSE Front(s, InQueue(s), "pop"))
  /\ UNCHANGED state

StoreRunning(s) ==
  /\ pc[s] = "rerun"
  /\ state' = "Running"
  /\ Moves(s, Front(s, InQueue(s), "pop"))

Pausing(s) ==
  SeePause(s) \/ StorePaused(s) \/ WakeUp(s) \/ StoreRunning(s)

-----------------------------------------------------------------------------
(* The end of a stage that fails: setError.                                *)

Fail(s) == Goto(s, "err")

Raise(s) ==
  /\ pc[s] = "err"
  /\ errorFlag' = TRUE
  /\ Goto(s, "errState")
  /\ NotStage /\ NoTrouble
  /\ UNCHANGED <<state, resultVars, queueVars, hand, held, next, muxer,
                 output, runner>>

StoreError(s) ==
  /\ pc[s] = "errState"
  /\ state' = "Error"
  /\ Moves(s, "errClose")

(***************************************************************************)
(* shutdownQueues, by a stage or by cancel(): the queues are shut down one *)
(* after the other, the ones before in the list being shut already.        *)
(***************************************************************************)
Order == <<"video", "sound", "decoded", "upscaled", "encoded">>

AllClosed_Mutant == \A q \in Queues \ {"encoded"} : closed[q]

AllClosed == \A q \in Queues : closed[q]

CloseNext ==
  \E k \in 1 .. Len(Order) :
     /\ ~closed[Order[k]]
     /\ \A j \in 1 .. k - 1 : closed[Order[j]]
     /\ closed' = [closed EXCEPT ![Order[k]] = TRUE]

ErrorCloses(s) ==
  /\ pc[s] = "errClose"
  /\ CloseNext
  /\ UNCHANGED <<state, flagVars, resultVars, queue, stageVars, muxVars,
                 clientVars, troubles>>

ErrorClosed(s) ==
  /\ pc[s] = "errClose"
  /\ AllClosed
  /\ Moves(s, "errResult")
  /\ UNCHANGED state

(* completionCv_.notify_all()                                              *)
NotifyWaiter_Mutant == UNCHANGED runner

NotifyWaiter == runner' = IF runner = "asleep" THEN "wait" ELSE runner

Finish(s, result) ==
  /\ completionResult' = result
  /\ NotifyWaiter
  /\ Goto(s, "gone")
  /\ NotStage /\ NoTrouble
  /\ UNCHANGED <<state, errorFlag, framesProcessed, checkpoint, queueVars,
                 hand, held, next, muxer, output>>

ErrorResult_Mutant(s) ==
  pc[s] = "errResult" /\ Finish(s, completionResult)

ErrorResult(s) == pc[s] = "errResult" /\ Finish(s, "error")

Failing(s) ==
  \/ Raise(s) \/ StoreError(s) \/ ErrorCloses(s) \/ ErrorClosed(s)
  \/ ErrorResult(s)

-----------------------------------------------------------------------------
(* Demux.                                                                  *)

NotDemux == UNCHANGED <<state, flagVars, resultVars, queueVars, held, muxVars,
                        clientVars>>

OpenInput ==
  /\ pc["demux"] = "open"
  /\ \/ Again("demux") /\ NoTrouble
     \/ Fail("demux") /\ Trouble("input")
  /\ NotDemux
  /\ UNCHANGED <<hand, next>>

(* The tests at the head of the loop are made, or waitIfPaused returned.   *)
Reads == pc["demux"] \in {"top", "pop"}

(* A packet that belongs to no stream of the output is skipped.            *)
ReadPacket ==
  /\ Reads
  /\ next <= Len(Media)
  /\ next' = next + 1
  /\ IF Media[next] = "video" \/ HasAudio
     THEN /\ hand' = [hand EXCEPT !["demux"] = <<next>>]
          /\ Goto("demux", "push")
     ELSE Again("demux") /\ UNCHANGED hand
  /\ NotDemux /\ NoTrouble

(* The end of the input; a read error is taken for it.                     *)
ReadEnd ==
  /\ Reads
  /\ \/ next > Len(Media) /\ NoTrouble
     \/ Trouble("read")
  /\ Goto("demux", "close")
  /\ NotDemux
  /\ UNCHANGED <<hand, next>>

Demux == OpenInput \/ ReadPacket \/ ReadEnd

-----------------------------------------------------------------------------
(* Decode, vsr, encode: from one queue to the next.                        *)

NotWorker == UNCHANGED <<state, flagVars, resultVars, next, muxVars,
                         clientVars>>

(***************************************************************************)
(* An item is taken and handed to the decoder, the scaler or the encoder,  *)
(* which returns the oldest picture it holds, or none until it holds more  *)
(* than its lag, or fails.  The scaler's failure passes the frame through; *)
(* over the VRAM budget it is passed on as well, but see Dropped.          *)
(***************************************************************************)
Convert(s) ==
  /\ pc[s] \in {"top", "wait", "pop"}
  /\ InQueue(s) # <<>>
  /\ queue' = [queue EXCEPT ![InOf(s)] = Tail(@)]
  /\ LET pictures == Append(held[s], Head(InQueue(s)))
     IN  \/ /\ Len(pictures) > Lag[s]
            /\ hand' = [hand EXCEPT ![s] = <<Head(pictures)>>]
            /\ held' = [held EXCEPT ![s] = Tail(pictures)]
            /\ \/ Goto(s, "push") /\ NoTrouble
               \/ s = "vsr" /\ Goto(s, "skip") /\ Trouble("budget")
         \/ /\ Len(pictures) <= Lag[s]
            /\ held' = [held EXCEPT ![s] = pictures]
            /\ Goto(s, Return(s, Tail(InQueue(s))))
            /\ UNCHANGED hand /\ NoTrouble
         \/ /\ s \in {"decode", "encode"}
            /\ Fail(s) /\ Trouble(s)
            /\ UNCHANGED <<hand, held>>
  /\ UNCHANGED closed
  /\ NotWorker

(* push() once the queue is not full.                                      *)
HasRoom_Mutant(q) == Len(queue[q]) <= Capacity

HasRoom(q) == Len(queue[q]) < Capacity

(* A packet of the flush is counted here, the others after the push.       *)
Counted_Mutant(s) == IF s = "encode" THEN 1 ELSE 0

Counted(s) == IF s = "encode" /\ pc[s] = "drain" THEN 1 ELSE 0

Pushed(s) ==
  /\ pc[s] \in {"push", "skip", "drain"}
  /\ hand[s] # <<>>
  /\ LET q == OutOf(s, Head(hand[s]))
     IN  /\ ~closed[q] /\ HasRoom(q)
         /\ queue' = [queue EXCEPT ![q] = Append(@, Head(hand[s]))]
  /\ hand' = [hand EXCEPT ![s] = Tail(@)]
  /\ IF pc[s] = "drain"
     THEN IF Len(hand[s]) = 1 THEN Goto(s, "close") ELSE UNCHANGED pc
     ELSE IF s = "encode" THEN Goto(s, "count") ELSE Again(s)
  /\ framesProcessed' = framesProcessed + Counted(s)
  /\ UNCHANGED <<state, flagVars, completionResult, checkpoint, closed, held,
                 next, muxVars, clientVars, troubles>>

(***************************************************************************)
(* push() to a queue that was shut down drops the item.  The stage leaves, *)
(* but demux, and vsr with a frame over the budget, do not look.           *)
(***************************************************************************)
Dropped(s) ==
  /\ pc[s] \in {"push", "skip", "drain"}
  /\ hand[s] # <<>>
  /\ closed[OutOf(s, Head(hand[s]))]
  /\ hand' = [hand EXCEPT ![s] = <<>>]
  /\ IF pc[s] = "drain" THEN Goto(s, "close")
     ELSE IF s = "demux" \/ pc[s] = "skip" THEN Again(s)
     ELSE Goto(s, Exit(s))
  /\ UNCHANGED <<queueVars, held>>
  /\ NotWorker /\ NoTrouble

(* The frame is counted, and at every Interval frames a checkpoint saved.  *)
Count ==
  /\ pc["encode"] = "count"
  /\ framesProcessed' = framesProcessed + 1
  /\ IF framesProcessed' % Interval # 0
     THEN UNCHANGED checkpoint /\ NoTrouble
     ELSE \/ checkpoint' = framesProcessed' /\ NoTrouble
          \/ UNCHANGED checkpoint /\ Trouble("save")
  /\ Again("encode")
  /\ UNCHANGED <<state, flagVars, completionResult, queueVars, hand, held,
                 next, muxVars, clientVars>>

(* Out of its loop, a stage flushes its codec ...                          *)
Flush_Mutant(s) ==
  /\ pc[s] = "flush"
  /\ held' = [held EXCEPT ![s] = <<>>]
  /\ Goto(s, "close")
  /\ UNCHANGED <<queueVars, hand>>
  /\ NotWorker /\ NoTrouble

Flush(s) ==
  /\ pc[s] = "flush"
  /\ \/ /\ hand' = [hand EXCEPT ![s] = held[s]]
        /\ held' = [held EXCEPT ![s] = <<>>]
        /\ Goto(s, "drain") /\ NoTrouble
     \/ /\ s = "encode" /\ Trouble("flush")
        /\ Goto(s, "close")
        /\ UNCHANGED <<hand, held>>
  /\ UNCHANGED queueVars
  /\ NotWorker

(* ... and shuts its output queues down, demux the one of audio last.      *)
OutQueue(s) == CASE s = "demux" -> "video"  [] s = "decode" -> "decoded"
                 [] s = "vsr" -> "upscaled" [] s = "encode" -> "encoded"

Close_Mutant(s) ==
  /\ pc[s] = "close"
  /\ closed' = [closed EXCEPT ![OutQueue(s)] = TRUE]
  /\ Goto(s, "gone")
  /\ UNCHANGED <<queue, hand, held>>
  /\ NotWorker /\ NoTrouble

Close(s) ==
  /\ \/ /\ pc[s] = "close"
        /\ closed' = [closed EXCEPT ![OutQueue(s)] = TRUE]
        /\ Goto(s, IF s = "demux" THEN "endSound" ELSE "gone")
     \/ /\ pc[s] = "endSound"
        /\ closed' = [closed EXCEPT !["sound"] = TRUE]
        /\ Goto(s, "gone")
  /\ UNCHANGED <<queue, hand, held>>
  /\ NotWorker /\ NoTrouble

Produces(s) == Pushed(s) \/ Dropped(s) \/ Close(s)
Worker(s)   == Convert(s) \/ Flush(s) \/ Produces(s)

-----------------------------------------------------------------------------
(* Mux and audio: into the file.                                           *)

NotWriter == UNCHANGED <<cancelRequested, pauseRequested, errorFlag,
                         closed, held, next, audioStream, clientVars>>

Take(s) ==
  /\ pc[s] \in {"top", "wait", "pop"}
  /\ InQueue(s) # <<>>
  /\ queue' = [queue EXCEPT ![InOf(s)] = Tail(@)]
  /\ hand' = [hand EXCEPT ![s] = <<Head(InQueue(s))>>]
  /\ Goto(s, "write")
  /\ NotWriter /\ NoTrouble
  /\ UNCHANGED <<state, resultVars, muxer, output>>

(* writePacket: an open muxer writes the header before the first packet,   *)
(* and another one before a packet that comes after finalize().            *)
StreamOf_Mutant(s) == 0

StreamOf(s) == IF s = "mux" THEN 0 ELSE audioStream

WritePacket(s) ==
  /\ muxer # "closed"
  /\ muxer' = "header"
  /\ output' = [output EXCEPT ![StreamOf(s)] = @ \o hand[s]]

(* The mux stage fails when a write does, before the header or after it;   *)
(* audio only logs it.                                                     *)
Write(s) ==
  /\ pc[s] = "write"
  /\ hand' = [hand EXCEPT ![s] = <<>>]
  /\ \/ WritePacket(s) /\ Again(s) /\ NoTrouble
     \/ /\ \/ muxer = "closed" /\ NoTrouble /\ UNCHANGED muxer
           \/ muxer # "closed" /\ muxer' \in {muxer, "header"} /\ Trouble("write")
        /\ IF s = "mux" THEN Fail(s) ELSE Again(s)
        /\ UNCHANGED output
  /\ NotWriter
  /\ UNCHANGED <<state, resultVars, queue>>

NotMuxEnd == NotWriter /\ UNCHANGED <<queue, hand, output>>

Finalize ==
  /\ pc["mux"] = "finalize"
  /\ \/ /\ muxer' = IF muxer = "header" THEN "finalized" ELSE muxer
        /\ Goto("mux", "closeMux") /\ NoTrouble
     \/ Fail("mux") /\ Trouble("finalize") /\ UNCHANGED muxer
  /\ NotMuxEnd
  /\ UNCHANGED <<state, resultVars>>

CloseMuxer ==
  /\ pc["mux"] = "closeMux"
  /\ muxer' = "closed"
  /\ Goto("mux", "decide")
  /\ NotMuxEnd /\ NoTrouble
  /\ UNCHANGED <<state, resultVars>>

(* Nothing is stored for a job that failed or was cancelled.               *)
Decide ==
  /\ pc["mux"] = "decide"
  /\ Moves("mux", IF ShouldRun THEN "complete" ELSE "gone")
  /\ UNCHANGED state

StoreCompleted ==
  /\ pc["mux"] = "complete"
  /\ state' = "Completed"
  /\ Moves("mux", "clean")

CleanCheckpoint ==
  /\ pc["mux"] = "clean"
  /\ checkpoint' = 0
  /\ Goto("mux", "notify")
  /\ NotMuxEnd /\ NoTrouble
  /\ UNCHANGED <<state, completionResult, framesProcessed, muxer>>

Complete == pc["mux"] = "notify" /\ Finish("mux", "success")

Writer(s) == Take(s) \/ Write(s)
MuxEnd == Finalize \/ CloseMuxer \/ Decide \/ StoreCompleted
            \/ CleanCheckpoint \/ Complete

-----------------------------------------------------------------------------
(* The client.                                                             *)

NotRunner == UNCHANGED <<queueVars, hand, held, next, output, ui>>

(* startProcessing() configures the pipeline and creates the thread ...    *)
Configure ==
  /\ runner = "new"
  /\ state = "Idle"
  /\ state' = "Configured"
  /\ uiState' = "Processing"
  /\ runner' = "start"
  /\ NotRunner /\ NoTrouble
  /\ UNCHANGED <<flagVars, resultVars, pc, muxer, audioStream>>

(* ... that calls start(), which resets the flags, ...                     *)
ResetFlags ==
  /\ cancelRequested' = FALSE /\ pauseRequested' = FALSE
  /\ errorFlag' = FALSE

StartReset ==
  /\ runner = "start"
  /\ ResetFlags
  /\ framesProcessed' = 0
  /\ runner' = "open"
  /\ NotRunner /\ NoTrouble
  /\ UNCHANGED <<state, completionResult, checkpoint, pc, muxer, audioStream,
                 uiState>>

(* ... opens the muxer (without audio, stream 0 stays the stream of the    *)
(* audio packets), ...                                                     *)
StartMuxer ==
  /\ runner = "open"
  /\ \/ /\ muxer' = "open"
        /\ runner' = "launch"
        /\ \/ audioStream' = (IF HasAudio THEN 1 ELSE 0) /\ NoTrouble
           \/ HasAudio /\ UNCHANGED audioStream /\ Trouble("addAudio")
     \/ /\ Trouble("muxer")
        /\ runner' = "failed"
        /\ UNCHANGED <<muxer, audioStream>>
  /\ NotRunner
  /\ UNCHANGED <<state, flagVars, resultVars, pc, uiState>>

(* ... and creates the stages.                                             *)
Launch ==
  /\ runner = "launch"
  /\ state' = "Running"
  /\ pc' = [s \in Stages |->
              CASE s = "demux"                -> "open"
                [] s = "audio" /\ ~HasAudio  -> "gone"
                [] OTHER                      -> Return(s, InQueue(s))]
  /\ runner' = "wait"
  /\ NotRunner /\ NoTrouble
  /\ UNCHANGED <<flagVars, resultVars, muxer, audioStream, uiState>>

(* waitUntilComplete: the state is looked at and the result returned, or   *)
(* the thread falls asleep, with completionMutex_ held.                    *)
Wait ==
  /\ runner = "wait"
  /\ runner' = IF state \in Final THEN completionResult ELSE "asleep"
  /\ NotRunner /\ NoTrouble
  /\ UNCHANGED <<state, flagVars, resultVars, pc, muxer, audioStream, uiState>>

SpuriousWakeUp ==
  /\ runner = "asleep"
  /\ runner' = "wait"
  /\ NotRunner /\ NoTrouble
  /\ UNCHANGED <<state, flagVars, resultVars, pc, muxer, audioStream, uiState>>

Runner == Configure \/ StartReset \/ StartMuxer \/ Launch \/ Wait

(* The calls of the user interface, as far as its own state allows them.   *)
NotUi == UNCHANGED <<state, errorFlag, resultVars, queue, stageVars, muxVars,
                     runner>>

Pause ==
  /\ ui = "idle" /\ uiState = "Processing"
  /\ Trouble("pause")
  /\ pauseRequested' = TRUE
  /\ uiState' = "Paused"
  /\ NotUi
  /\ UNCHANGED <<cancelRequested, closed, ui>>

Resume ==
  /\ ui = "idle" /\ uiState = "Paused"
  /\ PauseMutexFree
  /\ pauseRequested' = FALSE
  /\ uiState' = "Processing"
  /\ NotUi
  /\ UNCHANGED <<cancelRequested, closed, ui, troubles>>

Cancel ==
  /\ ui = "idle" /\ uiState \in {"Processing", "Paused"}
  /\ Trouble("cancel")
  /\ cancelRequested' = TRUE
  /\ ui' = "cancelResume"
  /\ NotUi
  /\ UNCHANGED <<pauseRequested, closed, uiState>>

CancelResumes ==
  /\ ui = "cancelResume"
  /\ PauseMutexFree
  /\ pauseRequested' = FALSE
  /\ ui' = "cancelClose"
  /\ NotUi
  /\ UNCHANGED <<cancelRequested, closed, uiState, troubles>>

CancelCloses ==
  /\ ui = "cancelClose"
  /\ CloseNext
  /\ NotUi
  /\ UNCHANGED <<cancelRequested, pauseRequested, ui, uiState, troubles>>

CancelDone ==
  /\ ui = "cancelClose"
  /\ AllClosed
  /\ ui' = "idle" /\ uiState' = "Idle"
  /\ NotUi
  /\ UNCHANGED <<cancelRequested, pauseRequested, closed, troubles>>

Cancelling == CancelResumes \/ CancelCloses \/ CancelDone
User       == Pause \/ Resume \/ Cancel \/ Cancelling

-----------------------------------------------------------------------------
Loops(s) == Leave(s) \/ PassGate(s) \/ Starve(s) \/ Pausing(s) \/ Failing(s)

Stage(s) ==
  \/ Loops(s)
  \/ s = "demux" /\ (Demux \/ Produces(s))
  \/ s \in Workers /\ Worker(s)
  \/ s = "encode" /\ Count
  \/ s \in {"mux", "audio"} /\ Writer(s)
  \/ s = "mux" /\ MuxEnd

Next == (\E s \in Stages : Stage(s)) \/ Runner \/ SpuriousWakeUp \/ User

(***************************************************************************)
(* Every thread is scheduled and a cancel() that was called goes on; the   *)
(* user need not call anything.                                            *)
(***************************************************************************)
Spec ==
  /\ Init /\ [][Next]_vars
  /\ \A s \in Stages : WF_vars(Stage(s))
  /\ WF_vars(Runner) /\ WF_vars(Cancelling)

-----------------------------------------------------------------------------
Cancelled == "cancel" \in troubles
Failed    == errorFlag \/ \E s \in Stages : pc[s] = "err"
AllGone   == \A s \in Stages : pc[s] = "gone"

(* The packets of stream t among the given ones.                           *)
OfStream(t, items) ==
  LET of[k \in 0 .. Len(items)] ==
        IF k = 0 THEN <<>>
        ELSE IF Media[items[k]] = t THEN Append(of[k - 1], items[k])
        ELSE of[k - 1]
  IN  of[Len(items)]
ReadSoFar == [i \in 1 .. next - 1 |-> i]

(* The video packets on their way, the foremost first.                     *)
VideoPath ==
  OfStream("video", output[0] \o hand["mux"] \o queue["encoded"]
    \o hand["encode"] \o held["encode"] \o queue["upscaled"]
    \o hand["vsr"] \o held["vsr"] \o queue["decoded"]
    \o hand["decode"] \o held["decode"] \o queue["video"] \o hand["demux"])

AudioPath ==
  OfStream("audio", output[audioStream] \o hand["audio"] \o queue["sound"]
    \o hand["demux"])

(***************************************************************************)
(* Nothing is lost, doubled or reordered on the way through six threads    *)
(* and five queues: as long as the job was neither cancelled nor failed,   *)
(* the packets written and those on their way are the packets read, in     *)
(* order.  For audio this ends when the mux stage closes the muxer, which  *)
(* does not wait for the audio stage.                                      *)
(***************************************************************************)
NothingLost ==
  ~Cancelled /\ ~Failed =>
    /\ VideoPath = OfStream("video", ReadSoFar)
    /\ HasAudio /\ muxer # "closed" /\ "write" \notin troubles =>
         AudioPath = OfStream("audio", ReadSoFar)

(***************************************************************************)
(* OfflineTranscodePipeline.h:38: isComplete, "True when all frames        *)
(* processed".  The state is Completed only when no stage has failed,      *)
(* every video stage has ended and every video packet is in the file, and  *)
(* no checkpoint is left when the waiter is told.  The exceptions are a    *)
(* cancel(), a read error that is taken for the end, items that came while *)
(* their reader timed out, and an encoder that cannot be flushed.          *)
(***************************************************************************)
CompletedIsOver ==
  state = "Completed" /\ ~Cancelled =>
    /\ ~Failed
    /\ pc["demux"] \in {"endSound", "gone"}
    /\ \A s \in Workers : pc[s] = "gone"
    /\ pc["mux"] \in {"notify", "gone"} => checkpoint = 0
    /\ troubles \cap {"read", "timeout", "flush"} = {} =>
         OfStream("video", output[0])
           = OfStream("video", [i \in Positions |-> i])

(***************************************************************************)
(* The checkpoint counts encoded frames, not written ones.  It is ahead of *)
(* the file by no more than what the encoded queue and the hand of the mux *)
(* stage hold, even after a cancel() has stopped everything half way.      *)
(***************************************************************************)
CheckpointBehind ==
  "write" \notin troubles =>
    checkpoint <= Len(OfStream("video", output[0])) + Len(hand["mux"])
                    + Len(queue["encoded"])

(***************************************************************************)
(* waitUntilComplete returns success for a job that failed only if it ran  *)
(* between setError's store of the state and its store of the result.      *)
(***************************************************************************)
ResultIsHonest ==
  [][runner = "wait" /\ runner' = "success" /\ errorFlag /\ ~Cancelled =>
       \E s \in Stages : pc[s] \in {"errClose", "errResult"}]_vars

(***************************************************************************)
(* The job keeps the promise of TranscodeJob.  Its film and its sound are  *)
(* what the streams hold of each kind: without addAudioStream the packets  *)
(* of the sound go into the stream of the film.                            *)
(***************************************************************************)
Job == INSTANCE TranscodeJob WITH
  film    <- OfStream("video", output[0]),
  sound   <- OfStream("audio", output[audioStream]),
  trouble <- Cancelled \/ Failed
               \/ troubles \cap {"read", "timeout", "flush"} # {},
  lossy   <- "write" \in troubles,
  answer  <- IF runner \in {"success", "error"} THEN runner ELSE "none"

ImplementsJob == Job!Spec

(***************************************************************************)
(* A stage can go on, but in front of a queue that is empty and open,      *)
(* behind one that is full and open, and while the pause lasts or another  *)
(* stage holds pauseMutex_.                                                *)
(***************************************************************************)
Ready(s) ==
  \/ /\ pc[s] \in {"top", "wait", "pop"}
     /\ s = "demux" \/ InQueue(s) # <<>>
  \/ pc[s] \in {"top", "wait"} /\ (~ShouldRun \/ pauseRequested)
  \/ pc[s] = "wait" /\ closed[InOf(s)]
  \/ pc[s] = "pausing" /\ PauseMutexFree
  \/ pc[s] = "paused" /\ PauseMutexFree /\ ~pauseRequested
  \/ /\ pc[s] \in {"push", "skip", "drain"} /\ hand[s] # <<>>
     /\ LET q == OutOf(s, Head(hand[s])) IN closed[q] \/ HasRoom(q)
  \/ pc[s] \in {"open", "gate", "rerun", "count", "write", "flush", "close",
                "endSound", "finalize", "closeMux", "decide", "complete",
                "clean", "notify", "err", "errState", "errClose",
                "errResult"}

(***************************************************************************)
(* No deadlock between full queues, empty queues and waitIfPaused: as long *)
(* as a stage is left some stage can go on, unless the job is paused or a  *)
(* cancel() is under way.                                                  *)
(***************************************************************************)
SomeStageMoves ==
  pc["demux"] # "none" /\ ~pauseRequested /\ ui = "idle" =>
    AllGone \/ \E s \in Stages : Ready(s)

(***************************************************************************)
(* The destructor joins every stage.  Each of them ends, whatever failed   *)
(* and wherever it was blocked, unless the user pauses the job for ever.   *)
(***************************************************************************)
StagesEnd == pc["demux"] # "none" ~> AllGone \/ pauseRequested

(***************************************************************************)
(* The waiting thread returns, unless the user pauses the job for ever, or *)
(* cancels it, or a stage that paused or resumed has stored its state over *)
(* the one that the wait is for.                                           *)
(***************************************************************************)
Overwritten == AllGone /\ state \in {"Paused", "Running"}

Returned == runner \in {"success", "error", "failed"}

WaitReturns ==
  runner # "new" ~> Returned \/ pauseRequested \/ Cancelled \/ Overwritten

(***************************************************************************)
(* OfflineTranscodePipeline.h:127, of waitUntilComplete: "Block until all  *)
(* stages finish or error occurs."                                         *)
(***************************************************************************)
WaitEndsWithStages == runner = "asleep" /\ AllGone ~> runner # "asleep"
=============================================================================
