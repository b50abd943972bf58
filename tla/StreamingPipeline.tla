------------------------- MODULE StreamingPipeline -------------------------
(***************************************************************************)
(* StreamingPipeline sends a file to a server at the pace it plays, in a   *)
(* thread of its own; QMLCameraRecorder starts and cancels it from the     *)
(* thread of the user interface and is told of its state through queued    *)
(* calls.  StreamMuxer.tla is what it writes through.                      *)
(***************************************************************************)
EXTENDS StreamMuxer, Sequences

CONSTANTS
  StrPackets,  (* the packets of the source                                 *)
  StrPosts     (* bound: the user cancels with fewer calls waiting          *)

ASSUME StreamingAssumption == StrPackets \in Nat \ {0} /\ StrPosts \in Nat

StrStates == {"Idle", "Connecting", "Streaming", "Completed", "Failed", "Cancelled"}

VARIABLES
  strState, strCancel, strCleaned,
  strSource,   (* sourceCtx_ is open                                        *)
  strMux,      (* muxer_                                                    *)
  strAudio,    (* the audio of the source: "none", "added", "refused"       *)
  strRead,     (* packets read                                              *)
  strPc,       (* the loop: "none" before the thread, "ended" after it      *)
  strIdx,      (* streamIndex of the packet in hand                         *)
  strUi,       (* where the UI thread is in cancel()                        *)
  strEvents,   (* the states posted to the UI thread                        *)
  strShown,    (* isStreaming                                               *)
  strGone,     (* the recorder is destroyed                                 *)
  strNoIo      (* the library was asked to write through a null pointer     *)

strLoopVars == <<strRead, strPc, strIdx>>
StrVars == <<strState, strCancel, strCleaned, strSource, strMux, strAudio,
             strLoopVars, strUi, strEvents, strShown, strGone, strNoIo>>

StrTypeOK ==
  /\ strState \in StrStates /\ strCancel \in BOOLEAN /\ strCleaned \in BOOLEAN
  /\ strSource \in BOOLEAN /\ strMux \in Muxers
  /\ strAudio \in {"none", "added", "refused"}
  /\ strRead \in 0 .. StrPackets /\ strIdx \in {0, 1}
  /\ strPc \in {"none", "top", "enter", "write", "failed", "close", "end", "ended"}
  /\ strUi \in {"idle", "abort", "disconnect", "join", "clean"}
  /\ strEvents \in Seq(StrStates) /\ strShown \in BOOLEAN
  /\ strGone \in BOOLEAN /\ strNoIo \in BOOLEAN

StrInit ==
  /\ strState = "Idle" /\ strCancel = FALSE /\ strCleaned = FALSE
  /\ strSource = FALSE /\ strMux = MuxNew /\ strAudio = "none"
  /\ strRead = 0 /\ strPc = "none" /\ strIdx = 0
  /\ strUi = "idle" /\ strEvents = <<>> /\ strShown = FALSE
  /\ strGone = FALSE /\ strNoIo = FALSE

(* callback_: the call of handleStreamingStateChange is queued.            *)
StrPost(states) == strEvents' = strEvents \o states

(* start(), which only an Idle pipeline obeys: the source does not open or *)
(* has no video, and nobody is told ...                                    *)
StrStartNoSource ==
  /\ strUi = "idle" /\ ~strGone /\ ~strShown /\ strState = "Idle"
  /\ strState' = "Failed"
  /\ UNCHANGED <<strCancel, strCleaned, strSource, strMux, strAudio,
                 strLoopVars, strUi, strEvents, strShown, strGone, strNoIo>>

(* ... there is no connection, or the muxer refuses the video ...          *)
StrStartNoNetwork ==
  /\ strUi = "idle" /\ ~strGone /\ ~strShown /\ strState = "Idle"
  /\ strState' = "Failed"
  /\ StrPost(<<"Connecting", "Failed">>)
  /\ UNCHANGED <<strCancel, strCleaned, strSource, strMux, strAudio,
                 strLoopVars, strUi, strShown, strGone, strNoIo>>

(* ... or the loop starts.  Without a stream for the audio the log says    *)
(* "continuing video-only"; the loop writes the audio to stream 1 anyway.  *)
StrStart(audio) ==
  /\ strUi = "idle" /\ ~strGone /\ ~strShown /\ strState = "Idle"
  /\ strState' = "Streaming" /\ strSource' = TRUE /\ strAudio' = audio
  /\ strMux' = MuxOpen(strMux, IF audio = "added" THEN 2 ELSE 1)
  /\ StrPost(<<"Connecting">>)
  /\ strPc' = "top"
  /\ UNCHANGED <<strCancel, strCleaned, strRead, strIdx, strUi, strShown,
                 strGone, strNoIo>>

(* streamingLoop(): the end of the source or cancelFlag_ ends it ...       *)
StrLoopEnds ==
  /\ strPc = "top"
  /\ strCancel \/ strRead = StrPackets
  /\ strPc' = "close"
  /\ UNCHANGED <<strState, strCancel, strCleaned, strSource, strMux, strAudio,
                 strRead, strIdx, strUi, strEvents, strShown, strGone, strNoIo>>

(* ... so does an error of av_read_frame, the interrupt callback or not.   *)
StrReadFails ==
  /\ strPc = "top" /\ ~strCancel /\ strRead < StrPackets
  /\ strPc' = "failed"
  /\ UNCHANGED <<strState, strCancel, strCleaned, strSource, strMux, strAudio,
                 strRead, strIdx, strUi, strEvents, strShown, strGone, strNoIo>>

StrReads(stream) ==
  /\ strPc = "top" /\ ~strCancel /\ strRead < StrPackets
  /\ stream = 1 => strAudio # "none"
  /\ strRead' = strRead + 1 /\ strIdx' = stream /\ strPc' = "enter"
  /\ UNCHANGED <<strState, strCancel, strCleaned, strSource, strMux, strAudio,
                 strUi, strEvents, strShown, strGone, strNoIo>>

(* writePacket() before the mutex ...                                      *)
StrEntersWrite ==
  /\ strPc = "enter"
  /\ strPc' = IF MuxRefusesEarly(strMux) THEN "failed" ELSE "write"
  /\ UNCHANGED <<strState, strCancel, strCleaned, strSource, strMux, strAudio,
                 strRead, strIdx, strUi, strEvents, strShown, strGone, strNoIo>>

(* ... and with it: the packet is sent, and every 0.1 s the UI is told ... *)
StrWrites ==
  /\ strPc = "write" /\ ~MuxRefuses(strMux, strIdx) /\ strMux.io
  /\ strMux' = MuxWritten(strMux)
  /\ \/ strEvents' = strEvents \/ StrPost(<<"Streaming">>)
  /\ strPc' = "top"
  /\ UNCHANGED <<strState, strCancel, strCleaned, strSource, strAudio, strRead,
                 strIdx, strUi, strShown, strGone, strNoIo>>

(* ... or it is refused, or the library fails.                             *)
StrWriteFails ==
  /\ strPc = "write"
  /\ IF MuxRefuses(strMux, strIdx)
     THEN UNCHANGED <<strMux, strNoIo>>
     ELSE /\ strMux' \in {MuxHeaderFailed(strMux), MuxWriteFailed(strMux)}
          /\ strMux'.failed => strMux'.errors = MaxWriteErrors \/ ~strMux.header
          /\ strNoIo' = (strNoIo \/ ~strMux.io)
  /\ strPc' = "failed"
  /\ UNCHANGED <<strState, strCancel, strCleaned, strSource, strAudio, strRead,
                 strIdx, strUi, strEvents, strShown, strGone>>

StrFails ==
  /\ strPc = "failed"
  /\ strState' = "Failed" /\ StrPost(<<"Failed">>)
  /\ strPc' = "close"
  /\ UNCHANGED <<strCancel, strCleaned, strSource, strMux, strAudio, strRead,
                 strIdx, strUi, strShown, strGone, strNoIo>>

(* cleanedUp_.exchange(true): the first one closes the muxer, the source.  *)
StrCleanUp ==
  /\ strCleaned' = TRUE
  /\ IF strCleaned
     THEN UNCHANGED <<strMux, strSource, strNoIo>>
     ELSE /\ strMux' = MuxClosed(strMux) /\ strSource' = FALSE
          /\ strNoIo' = (strNoIo \/ (MuxWritesTrailer(strMux) /\ ~strMux.io))

StrCloses ==
  /\ strPc = "close"
  /\ StrCleanUp
  /\ strPc' = "end"
  /\ UNCHANGED <<strState, strCancel, strAudio, strRead, strIdx, strUi,
                 strEvents, strShown, strGone>>

(* The last state: an error before it is overwritten.                      *)
StrEnds ==
  /\ strPc = "end"
  /\ LET last == IF strCancel THEN "Cancelled" ELSE "Completed"
     IN  strState' = last /\ StrPost(<<last>>)
  /\ strPc' = "ended"
  /\ UNCHANGED <<strCancel, strCleaned, strSource, strMux, strAudio, strRead,
                 strIdx, strUi, strShown, strGone, strNoIo>>

(* cancelStreaming(), refused while isStreaming is not shown, and the      *)
(* destructors, which are not.  cancel() does nothing to an Idle pipeline. *)
StrCancel(leaving) ==
  /\ strUi = "idle" /\ ~strGone /\ strState # "Idle"
  /\ strShown \/ leaving
  /\ Len(strEvents) < StrPosts
  /\ strCancel' = TRUE /\ strGone' = leaving
  /\ strUi' = "abort"
  /\ UNCHANGED <<strState, strCleaned, strSource, strMux, strAudio,
                 strLoopVars, strEvents, strShown, strNoIo>>

StrAborts ==
  /\ strUi = "abort"
  /\ strMux' = [strMux EXCEPT !.aborted = TRUE]
  /\ strUi' = "disconnect"
  /\ UNCHANGED <<strState, strCancel, strCleaned, strSource, strAudio,
                 strLoopVars, strEvents, strShown, strGone, strNoIo>>

StrDisconnects ==
  /\ strUi = "disconnect"
  /\ strMux' = MuxDisconnected(strMux)
  /\ strUi' = "join"
  /\ UNCHANGED <<strState, strCancel, strCleaned, strSource, strAudio,
                 strLoopVars, strEvents, strShown, strGone, strNoIo>>

StrJoins ==
  /\ strUi = "join" /\ strPc \in {"none", "ended"}
  /\ strPc' = "none"
  /\ strUi' = "clean"
  /\ UNCHANGED <<strState, strCancel, strCleaned, strSource, strMux, strAudio,
                 strRead, strIdx, strEvents, strShown, strGone, strNoIo>>

StrCancelled ==
  /\ strUi = "clean"
  /\ StrCleanUp
  /\ IF strState \in {"Completed", "Failed"}
     THEN UNCHANGED <<strState, strEvents>>
     ELSE strState' = "Cancelled" /\ StrPost(<<"Cancelled">>)
  /\ strUi' = "idle"
  /\ UNCHANGED <<strCancel, strAudio, strLoopVars, strShown, strGone>>

(* The UI thread makes a queued call: handleStreamingStateChange().        *)
StrShow ==
  /\ strUi = "idle" /\ ~strGone /\ strEvents # <<>>
  /\ strShown' = (Head(strEvents) = "Streaming")
  /\ strEvents' = Tail(strEvents)
  /\ UNCHANGED <<strState, strCancel, strCleaned, strSource, strMux, strAudio,
                 strLoopVars, strUi, strGone, strNoIo>>

StrLoop == \/ StrLoopEnds \/ StrReadFails \/ (\E s \in {0, 1} : StrReads(s))
           \/ StrEntersWrite \/ StrWrites \/ StrWriteFails
           \/ StrFails \/ StrCloses \/ StrEnds
StrUiMoves == StrAborts \/ StrDisconnects \/ StrJoins \/ StrCancelled \/ StrShow

StrNext ==
  \/ StrStartNoSource \/ StrStartNoNetwork
  \/ \E a \in {"none", "added", "refused"} : StrStart(a)
  \/ \E leaving \in BOOLEAN : StrCancel(leaving)
  \/ StrLoop \/ StrUiMoves

(* Both threads are scheduled; a call of the library returns: it has its   *)
(* timeouts, and the interrupt callbacks.                                  *)
StrFairness == WF_StrVars(StrLoop) /\ WF_StrVars(StrUiMoves)
StrSpec == StrInit /\ [][StrNext]_StrVars /\ StrFairness

-----------------------------------------------------------------------------
(* The source is read by the loop alone: cancel() resets it after the join *)
(* or not at all, and it is gone once cancel() has returned.  Only cancel() *)
(* takes the connection away under the loop.                               *)
StrOwned ==
  /\ strPc \in {"top", "enter", "write", "failed"} => strSource /\ strMux.open
  /\ strUi = "idle" /\ strCancel => ~strSource /\ ~strMux.open /\ strPc = "none"
  /\ strNoIo => strCancel

(* When everything rests the recorder does not show a stream: whatever the *)
(* order of the loop's calls and of those of cancel(), the last one says   *)
(* that it is over.                                                        *)
StrShownIsOver ==
  strPc \in {"none", "ended"} /\ strUi = "idle" /\ strEvents = <<>> /\ ~strGone
    => ~strShown /\ (strState # "Idle" => strState \in {"Completed", "Failed", "Cancelled"})

(* cancel() returns, and the loop ends by itself.                          *)
StrInCall == strUi # "idle"
StrAtWork == strPc \notin {"none", "ended"}
StrEverEnds ==
  /\ StrInCall ~> ~StrInCall
  /\ StrAtWork ~> ~StrAtWork
=============================================================================
