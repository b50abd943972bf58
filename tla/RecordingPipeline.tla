------------------------- MODULE RecordingPipeline -------------------------
(***************************************************************************)
(* RecordingPipelineV2: a camera is recorded to a file, sent to a server,  *)
(* or both.  The thread of the user interface starts, pauses, resumes and  *)
(* stops it; a capture thread puts frames into RecordingFrameQueue, an     *)
(* encode thread takes them out, an audio thread goes its own way, and the *)
(* last two write to the same file.  The callback runs on the UI thread at *)
(* once: QMLCameraRecorder's isRecording is recShown.                      *)
(*                                                                         *)
(* A frame is its number, from 1; all packets of sound are one.            *)
(***************************************************************************)
EXTENDS Integers, Sequences, FiniteSets

CONSTANTS
  RecFrames,    (* the frames the camera and the packets the microphone ... *)
  RecSounds,    (* ... deliver in a recording, before they deliver no more  *)
  RecCapacity,  (* RecordingFrameQueue::Capacity                            *)
  RecBFrames,   (* the frames the encoder of a file holds back              *)
  RecStarts     (* bound: calls of start()                                  *)

ASSUME RecordingAssumption ==
  /\ RecFrames \in Nat /\ RecSounds \in Nat /\ RecBFrames \in Nat
  /\ RecCapacity \in Nat \ {0} /\ RecStarts \in Nat

RecStates  == {"Idle", "Recording", "Paused", "Stopping", "Error"}
RecThreads == {"capture", "encode", "audio"}

(* What is in a file beside frames.                                        *)
Header  == -1
Sound   == 0
Trailer == -2

VARIABLES
  recState, recMode,
  recRunning,    (* running_ and audioRunning_                              *)
  recPaused,
  recAborted,    (* abort() of the camera and the microphone                *)
  recQueue, recDown,     (* frameQueue_: its frames, shutdown_              *)
  recThread,     (* [RecThreads]: "none", where it is, or "ended"           *)
  recCaptured,   (* the frames captured, frameIdx                           *)
  recHeard,      (* the sounds                                              *)
  recHand,       (* what the encode thread has popped: at most one frame    *)
  recHeld,       (* the frames in the encoder                               *)
  recLost,       (* the frames the queue, the encoder or the muxer failed   *)
                 (* on; the trailer                                         *)
  recFile, recTrailer,   (* the file; trailerWritten_ or no file            *)
  recShown,      (* isRecording                                             *)
  recUi,         (* where the UI thread is in stop()                        *)
  recCount       (* calls of start()                                        *)

recFlags == <<recRunning, recPaused, recAborted>>
recData  == <<recCaptured, recHeard, recHand, recHeld, recLost>>
RecVars  == <<recState, recMode, recFlags, recQueue, recDown, recThread,
              recData, recFile, recTrailer, recShown, recUi, recCount>>

RecTypeOK ==
  /\ recState \in RecStates /\ recMode \in {"File", "Stream", "Both"}
  /\ recRunning \in BOOLEAN /\ recPaused \in BOOLEAN /\ recAborted \in BOOLEAN
  /\ recQueue \in Seq(1 .. RecFrames) /\ Len(recQueue) <= RecCapacity
  /\ recDown \in BOOLEAN
  /\ recThread \in [RecThreads -> {"none", "loop", "read", "push", "pop", "write", "flush", "ended"}]
  /\ recCaptured \in 0 .. RecFrames /\ recHeard \in 0 .. RecSounds
  /\ recHand \in Seq(1 .. RecFrames) /\ Len(recHand) <= 1
  /\ recHeld \in Seq(1 .. RecFrames) /\ Len(recHeld) <= RecBFrames
  /\ recLost \subseteq (1 .. RecFrames) \cup {Trailer}
  /\ recFile \in Seq((1 .. RecFrames) \cup {Header, Sound, Trailer})
  /\ recTrailer \in BOOLEAN /\ recShown \in BOOLEAN
  /\ recUi \in {"idle", "flags", "abort", "join", "close"}
  /\ recCount \in 0 .. RecStarts

RecInit ==
  /\ recState = "Idle" /\ recMode = "File"
  /\ recRunning = FALSE /\ recPaused = FALSE /\ recAborted = FALSE
  /\ recQueue = <<>> /\ recDown = FALSE
  /\ recThread = [t \in RecThreads |-> "none"]
  /\ recCaptured = 0 /\ recHeard = 0 /\ recHand = <<>> /\ recHeld = <<>>
  /\ recLost = {} /\ recFile = <<>> /\ recTrailer = TRUE
  /\ recShown = FALSE /\ recUi = "idle" /\ recCount = 0

(* notifyState() and handleRecordingStateChange().                         *)
RecNotify(state) == recShown' = (state \in {"Recording", "Paused"})

(* startRecording() and start(): every step of it may fail, and cleanup()  *)
(* undoes those before, with a trailer if the header is written.  The      *)
(* state stays Error: start() wants Idle, and stop() Recording or Paused.  *)
RecStartFails ==
  /\ recUi = "idle" /\ ~recShown /\ recCount < RecStarts
  /\ recState = "Idle"
  /\ recState' = "Error" /\ RecNotify("Error")
  /\ recPaused' = FALSE /\ recRunning' = FALSE
  /\ \/ recFile' \in {<<>>, <<Header, Trailer>>} /\ recLost' = {}
     \/ recFile' = <<Header>> /\ recLost' = {Trailer}
  /\ recTrailer' = TRUE /\ recCaptured' = 0 /\ recHeard' = 0
  /\ recCount' = recCount + 1
  /\ UNCHANGED <<recMode, recAborted, recQueue, recDown, recThread, recHand,
                 recHeld, recUi>>

(* Sound is optional: no microphone, encoder or stream for it, no thread.  *)
RecStart(mode, sound) ==
  /\ recUi = "idle" /\ ~recShown /\ recCount < RecStarts
  /\ recState = "Idle"
  /\ recState' = "Recording" /\ recMode' = mode /\ RecNotify("Recording")
  /\ recRunning' = TRUE /\ recPaused' = FALSE /\ recAborted' = FALSE
  /\ recQueue' = <<>> /\ recDown' = FALSE
  /\ recThread' = [t \in RecThreads |-> IF t = "audio" /\ ~sound THEN "none" ELSE "loop"]
  /\ recCaptured' = 0 /\ recHeard' = 0 /\ recHand' = <<>> /\ recHeld' = <<>>
  /\ recLost' = {}
  /\ recFile' = <<Header>> /\ recTrailer' = FALSE
  /\ recCount' = recCount + 1
  /\ UNCHANGED recUi

RecPause ==
  /\ recUi = "idle" /\ recShown /\ recState = "Recording"
  /\ recState' = "Paused" /\ recPaused' = TRUE /\ RecNotify("Paused")
  /\ UNCHANGED <<recMode, recRunning, recAborted, recQueue, recDown, recThread,
                 recData, recFile, recTrailer, recUi, recCount>>

RecResume ==
  /\ recUi = "idle" /\ recState = "Paused"
  /\ recState' = "Recording" /\ recPaused' = FALSE /\ RecNotify("Recording")
  /\ UNCHANGED <<recMode, recRunning, recAborted, recQueue, recDown, recThread,
                 recData, recFile, recTrailer, recUi, recCount>>

(* What fails without a word: the queue's reference to a frame, the encoder *)
(* with one, a packet that cannot be had or that the muxer refuses, the    *)
(* trailer.  At most a line is logged, and the recording goes on.          *)
RecLoses(item) == recLost' = recLost \cup {item} /\ UNCHANGED recFile

(* stopRecording() and the destructor call stop() while isRecording is     *)
(* shown: the state and the callback, then the flags, then abort() and     *)
(* shutdown(), the joins, and the trailer and cleanup().                   *)
RecStop ==
  /\ recUi = "idle" /\ recShown /\ recState \in {"Recording", "Paused"}
  /\ recState' = "Stopping" /\ RecNotify("Stopping")
  /\ recUi' = "flags"
  /\ UNCHANGED <<recMode, recFlags, recQueue, recDown, recThread, recData,
                 recFile, recTrailer, recCount>>

RecStopFlags ==
  /\ recUi = "flags"
  /\ recPaused' = FALSE
  /\ recRunning' = recPaused   \* the second store: a paused one runs on till then
  /\ recUi' = IF recPaused THEN "flags" ELSE "abort"
  /\ UNCHANGED <<recState, recMode, recAborted, recQueue, recDown, recThread,
                 recData, recFile, recTrailer, recShown, recCount>>

RecStopAborts ==
  /\ recUi = "abort"
  /\ recAborted' = TRUE /\ recDown' = TRUE
  /\ recUi' = "join"
  /\ UNCHANGED <<recState, recMode, recRunning, recPaused, recQueue, recThread,
                 recData, recFile, recTrailer, recShown, recCount>>

RecStopJoins ==
  /\ recUi = "join"
  /\ \A t \in RecThreads : recThread[t] \in {"none", "ended"}
  /\ recThread' = [t \in RecThreads |-> "none"]
  /\ recUi' = "close"
  /\ UNCHANGED <<recState, recMode, recFlags, recQueue, recDown, recData,
                 recFile, recTrailer, recShown, recCount>>

RecStopped ==
  /\ recUi = "close"
  /\ \/ recTrailer /\ UNCHANGED <<recFile, recLost>>
     \/ ~recTrailer /\ recFile' = Append(recFile, Trailer) /\ UNCHANGED recLost
     \/ ~recTrailer /\ RecLoses(Trailer)
  /\ recTrailer' = TRUE
  /\ recQueue' = <<>> /\ recHeld' = <<>>     \* what they still hold is freed
  /\ recState' = "Idle" /\ RecNotify("Idle")
  /\ recUi' = "idle"
  /\ UNCHANGED <<recMode, recFlags, recDown, recThread, recCaptured, recHeard,
                 recHand, recCount>>

(* The threads of a recording.  Each looks at its flag in between ...      *)
RecGo(t, place) == recThread' = [recThread EXCEPT ![t] = place]

RecLoops(t) ==
  /\ recThread[t] = "loop"
  /\ RecGo(t, CASE ~recRunning -> (IF t = "capture" THEN "ended" ELSE "flush")
               [] recRunning  -> (IF t = "encode" THEN "pop" ELSE "read"))
  /\ UNCHANGED <<recState, recMode, recFlags, recQueue, recDown, recData,
                 recFile, recTrailer, recShown, recUi, recCount>>

(* ... a device ends its thread when it fails, and abort() makes it fail,  *)
RecDeviceFails(t) ==
  /\ recThread[t] = "read"
  /\ RecGo(t, IF t = "capture" THEN "ended" ELSE "flush")
  /\ UNCHANGED <<recState, recMode, recFlags, recQueue, recDown, recData,
                 recFile, recTrailer, recShown, recUi, recCount>>

RecDeviceAborted(t) == recAborted /\ RecDeviceFails(t)

(* ... what a paused pipeline reads it skips.                              *)
RecCaptures ==
  /\ recThread["capture"] = "read" /\ recCaptured < RecFrames
  /\ IF recPaused
     THEN RecGo("capture", "loop") /\ UNCHANGED recCaptured
     ELSE RecGo("capture", "push") /\ recCaptured' = recCaptured + 1
  /\ UNCHANGED <<recState, recMode, recFlags, recQueue, recDown, recHeard,
                 recHand, recHeld, recLost, recFile, recTrailer, recShown,
                 recUi, recCount>>

(* FrameQueue::push waits for room or shutdown.                            *)
RecPush ==
  /\ recThread["capture"] = "push"
  /\ \/ /\ recDown
        /\ RecGo("capture", "ended") /\ UNCHANGED <<recQueue, recLost, recFile>>
     \/ /\ ~recDown /\ Len(recQueue) < RecCapacity
        /\ RecGo("capture", "loop")
        /\ \/ /\ recQueue' = Append(recQueue, recCaptured)
              /\ UNCHANGED <<recLost, recFile>>
           \/ RecLoses(recCaptured) /\ UNCHANGED recQueue
  /\ UNCHANGED <<recState, recMode, recFlags, recDown, recCaptured, recHeard,
                 recHand, recHeld, recTrailer, recShown, recUi, recCount>>

(* FrameQueue::pop waits for a frame or shutdown, and drains before it ends.*)
RecPop ==
  /\ recThread["encode"] = "pop"
  /\ recQueue # <<>> \/ recDown
  /\ IF recQueue = <<>>
     THEN RecGo("encode", "flush") /\ UNCHANGED <<recQueue, recHand>>
     ELSE /\ RecGo("encode", "write")
          /\ recHand' = <<Head(recQueue)>> /\ recQueue' = Tail(recQueue)
  /\ UNCHANGED <<recState, recMode, recFlags, recDown, recCaptured, recHeard,
                 recHeld, recLost, recFile, recTrailer, recShown, recUi, recCount>>

(* writeVideoPacket(), writeAudioPacket(): under writeMutex_ to the file,  *)
(* which is only header and trailer when the recording goes to a server.   *)
RecWrite(items) ==
  recFile' = IF recMode = "Stream" THEN recFile ELSE recFile \o items

(* The encoder fails and the frame is gone, or it takes the frame and      *)
(* returns the oldest one it holds, if it holds more than its B-frames,    *)
(* which is then written or not.                                           *)
RecEncodes ==
  /\ recThread["encode"] = "write"
  /\ \/ RecLoses(recHand[1]) /\ UNCHANGED recHeld
     \/ LET all  == recHeld \o recHand
            full == Len(all) > IF recMode = "File" THEN RecBFrames ELSE 0
        IN  /\ recHeld' = IF full THEN Tail(all) ELSE all
            /\ \/ /\ RecWrite(IF full THEN <<Head(all)>> ELSE <<>>)
                  /\ UNCHANGED recLost
               \/ full /\ RecLoses(Head(all))
  /\ recHand' = <<>>
  /\ RecGo("encode", "loop")
  /\ UNCHANGED <<recState, recMode, recFlags, recQueue, recDown, recCaptured,
                 recHeard, recTrailer, recShown, recUi, recCount>>

(* After its loop the encoder is flushed; frames in the queue are not.     *)
RecFlushes ==
  /\ recThread["encode"] = "flush"
  /\ IF recHeld = <<>>
     THEN RecGo("encode", "ended") /\ UNCHANGED <<recHeld, recLost, recFile>>
     ELSE \/ /\ \/ RecWrite(<<Head(recHeld)>>) /\ UNCHANGED recLost
                \/ RecLoses(Head(recHeld))
             /\ recHeld' = Tail(recHeld) /\ UNCHANGED recThread
          \/ /\ recLost' = recLost \cup {recHeld[i] : i \in 1 .. Len(recHeld)}
             /\ recHeld' = <<>> /\ RecGo("encode", "ended")
             /\ UNCHANGED recFile
  /\ UNCHANGED <<recState, recMode, recFlags, recQueue, recDown, recCaptured,
                 recHeard, recHand, recTrailer, recShown, recUi, recCount>>

(* The audio thread: read, encode, write in one go; then its flush.  Each  *)
(* may give no packet, and one may not be written.                         *)
RecHears ==
  /\ recThread["audio"] = "read" /\ recHeard < RecSounds
  /\ recHeard' = recHeard + 1
  /\ \E items \in {<<>>, <<Sound>>} : (recPaused => items = <<>>) /\ RecWrite(items)
  /\ RecGo("audio", "loop")
  /\ UNCHANGED <<recState, recMode, recFlags, recQueue, recDown, recCaptured,
                 recHand, recHeld, recLost, recTrailer, recShown, recUi, recCount>>

RecAudioFlushes ==
  /\ recThread["audio"] = "flush"
  /\ \E items \in {<<>>, <<Sound>>} : RecWrite(items)
  /\ RecGo("audio", "ended")
  /\ UNCHANGED <<recState, recMode, recFlags, recQueue, recDown, recData,
                 recTrailer, recShown, recUi, recCount>>

RecUiMoves == RecStopFlags \/ RecStopAborts \/ RecStopJoins \/ RecStopped
RecCaptureMoves == RecLoops("capture") \/ RecDeviceAborted("capture") \/ RecPush
RecEncodeMoves  == RecLoops("encode") \/ RecPop \/ RecEncodes \/ RecFlushes
RecAudioMoves   == RecLoops("audio") \/ RecDeviceAborted("audio") \/ RecAudioFlushes

RecNext ==
  \/ RecStartFails
  \/ \E m \in {"File", "Stream", "Both"}, sound \in BOOLEAN : RecStart(m, sound)
  \/ RecPause \/ RecResume \/ RecStop \/ RecUiMoves
  \/ RecCaptureMoves \/ RecCaptures \/ RecEncodeMoves \/ RecAudioMoves \/ RecHears
  \/ \E t \in {"capture", "audio"} : RecDeviceFails(t)

(* The threads are scheduled.  A device need not deliver, nor a user act.  *)
RecFairness ==
  /\ WF_RecVars(RecUiMoves) /\ WF_RecVars(RecCaptureMoves)
  /\ WF_RecVars(RecEncodeMoves) /\ WF_RecVars(RecAudioMoves)
RecSpec == RecInit /\ [][RecNext]_RecVars /\ RecFairness

-----------------------------------------------------------------------------
(* A recording that is over has no thread, and its file has its trailer:   *)
(* stop() and cleanup() join before they write it and free what is used.   *)
RecQuiet ==
  recState \in {"Idle", "Error"} =>
    /\ recTrailer /\ \A t \in RecThreads : recThread[t] = "none"
    /\ recQueue = <<>> /\ recHeld = <<>> /\ recHand = <<>>

(* The file is a header, packets, and one trailer, if that could be        *)
(* written, after which nothing more is written by either thread.          *)
RecFileWhole ==
  \A i \in 1 .. Len(recFile) :
    /\ recFile[i] = Header  <=> i = 1
    /\ recFile[i] = Trailer <=>
         i = Len(recFile) /\ recState \in {"Idle", "Error"} /\ Trailer \notin recLost

(* Frames are recorded in order, and what is missing between two of them   *)
(* queue, encoder or muxer failed on, across pauses and full queues; until *)
(* stop() nothing else is missing after the last one either.               *)
RecNoGap ==
  LET written == recFile \o recHeld \o recHand
      video   == {i \in 1 .. Len(written) : written[i] \in 1 .. RecFrames}
      encoded == {written[i] : i \in video} \cup (recLost \ {Trailer})
      queued  == {recQueue[i] : i \in 1 .. Len(recQueue)}
  IN  recMode # "Stream" =>
        /\ \A i, j \in video : i < j => written[i] < written[j]
        /\ \A i \in video : 1 .. written[i] \subseteq encoded
        /\ recState \in {"Recording", "Paused"} =>
             1 .. recCaptured \ (encoded \cup queued) \subseteq
               IF recThread["capture"] = "push" THEN {recCaptured} ELSE {}

(* stop() returns, whatever queue or device its threads wait for.          *)
RecInCall == recUi # "idle"
RecStopEnds == RecInCall ~> ~RecInCall
=============================================================================
