--------------------------- MODULE FFmpegDemuxer ---------------------------
(***************************************************************************)
(* The demuxer: one thread (demuxLoop) that reads packets from the media   *)
(* and hands them to a callback, and the commands start, stop and seek     *)
(* that another thread gives it.  The commands talk to the loop through    *)
(* atomic flags and the condition variable commandCv_.                     *)
(*                                                                         *)
(* This module holds the demuxer's state, the steps of its thread and the  *)
(* state change of each command.  Who calls the commands, and what becomes *)
(* of a delivered packet, is the business of the modules that extend it:   *)
(* DemuxerProtocol (one caller) and FFPlayer (the player).                 *)
(*                                                                         *)
(* A packet is its position 0 .. MediaLen - 1 in the media.  A seek lands  *)
(* on its target.  Faults admits the failures of the media library that    *)
(* the code only logs or retries.                                          *)
(***************************************************************************)
EXTENDS Integers

CONSTANTS
  MediaLen,   (* the number of packets in the media                         *)
  Faults      (* the operations of the media library that may fail          *)

ASSUME MediaAssumption ==
  MediaLen \in Nat \ {0} /\ Faults \subseteq {"open", "read", "seek"}

VARIABLES
  demuxState,     (* state_                                                 *)
  ctxOpen,        (* formatCtx_ is not null                                 *)
  filePos,        (* the position the next av_read_frame returns            *)
  shouldStop, startReading, seekRequested, seekCompleted, (* the flags      *)
  pendingTarget,  (* pendingSeekTarget_                                     *)
  eofReached,     (* eofReached_                                            *)
  seekJustDone,   (* local of demuxLoop                                     *)
  hand,           (* the packet the demux thread is delivering              *)
  dpc             (* where the demux thread is                              *)

flagVars  == <<shouldStop, startReading, seekRequested, seekCompleted,
               pendingTarget>>
demuxVars == <<demuxState, ctxOpen, filePos, shouldStop, startReading,
               seekRequested, seekCompleted, pendingTarget, eofReached,
               seekJustDone, hand, dpc>>

NoPacket  == -1
Positions == 0 .. MediaLen - 1

(***************************************************************************)
(* "none": demuxThread_ is not joinable; "exited": demuxLoop returned and  *)
(* nobody joined it yet.  "park" evaluates the predicate of                *)
(* commandCv_.wait; "parkGap" found it false and still holds               *)
(* commandMutex_; "parked" sleeps on commandCv_.  "probe" delivers the     *)
(* packet that the reopen path of a seek reads.                            *)
(***************************************************************************)
DemuxPcs == {"none", "loop", "read", "deliver", "seek", "probe", "seekDone",
             "park", "parkGap", "parked", "exited"}

DemuxTypeOK ==
  /\ demuxState \in {"Idle", "Prepared", "Playing"}
  /\ ctxOpen \in BOOLEAN
  /\ filePos \in 0 .. MediaLen
  /\ shouldStop \in BOOLEAN
  /\ startReading \in BOOLEAN
  /\ seekRequested \in BOOLEAN
  /\ seekCompleted \in BOOLEAN
  /\ pendingTarget \in Positions
  /\ eofReached \in BOOLEAN
  /\ seekJustDone \in BOOLEAN
  /\ hand \in Positions \cup {NoPacket}
  /\ dpc \in DemuxPcs

DemuxInit ==
  /\ demuxState = "Idle"
  /\ ctxOpen = FALSE
  /\ filePos = 0
  /\ shouldStop = FALSE /\ startReading = FALSE
  /\ seekRequested = FALSE /\ seekCompleted = FALSE
  /\ pendingTarget = 0
  /\ eofReached = FALSE
  /\ seekJustDone = FALSE
  /\ hand = NoPacket
  /\ dpc = "none"

-----------------------------------------------------------------------------
(* The commands.                                                           *)

(* seek() takes commandMutex_, which the loop holds until it is asleep.     *)
CommandMutexFree_Mutant == TRUE
CommandMutexFree == dpc # "parkGap"

(* commandCv_.notify_one(): only a thread asleep on commandCv_ hears it.   *)
NotifyDemux_Mutant == UNCHANGED dpc
NotifyDemux == dpc' = IF dpc = "parked" THEN "park" ELSE dpc

(***************************************************************************)
(* open(): the probe of the streams may leave the file anywhere.  Of the   *)
(* flags it resets shouldStop_ only.                                       *)
(***************************************************************************)
DemuxOpen ==
  /\ demuxState = "Idle"
  /\ shouldStop' = FALSE
  /\ ctxOpen' = TRUE
  /\ filePos' \in 0 .. MediaLen
  /\ demuxState' = "Prepared"
  /\ UNCHANGED <<startReading, seekRequested, seekCompleted, pendingTarget,
                 eofReached, seekJustDone, hand, dpc>>

(* open() failing, before or after the format context is installed.        *)
DemuxOpenFails ==
  /\ "open" \in Faults
  /\ demuxState = "Idle"
  /\ shouldStop' = FALSE
  /\ ctxOpen' \in {ctxOpen, TRUE}
  /\ UNCHANGED <<demuxState, filePos, startReading, seekRequested,
                 seekCompleted, pendingTarget, eofReached, seekJustDone,
                 hand, dpc>>

(* start(): wakes the thread there is, or creates one.                     *)
DemuxStart ==
  /\ demuxState # "Idle"
  /\ shouldStop' = FALSE
  /\ startReading' = TRUE
  /\ demuxState' = "Playing"
  /\ IF dpc = "none"
     THEN dpc' = "loop" /\ seekJustDone' = FALSE
     ELSE NotifyDemux /\ UNCHANGED seekJustDone
  /\ UNCHANGED <<ctxOpen, filePos, seekRequested, seekCompleted,
                 pendingTarget, eofReached, hand>>

(***************************************************************************)
(* stop(), first half.  shouldStop_ is stored and commandCv_ notified      *)
(* without holding commandMutex_, so it can fall into "parkGap".           *)
(***************************************************************************)
DemuxStopSignal ==
  /\ demuxState # "Idle"
  /\ shouldStop' = TRUE
  /\ NotifyDemux
  /\ UNCHANGED <<demuxState, ctxOpen, filePos, startReading, seekRequested,
                 seekCompleted, pendingTarget, eofReached, seekJustDone,
                 hand>>

(* stop(), second half: the thread is joined, the format context freed.    *)
DemuxStopJoin ==
  /\ dpc \in {"none", "exited"}
  /\ dpc' = "none"
  /\ ctxOpen' = FALSE
  /\ filePos' = 0
  /\ demuxState' = "Idle"
  /\ UNCHANGED <<shouldStop, startReading, seekRequested,
                 seekCompleted, pendingTarget, eofReached, seekJustDone,
                 hand>>

CanSeek == demuxState \in {"Playing", "Prepared"} /\ ctxOpen

(* seek(), first half, under commandMutex_.                                *)
DemuxSeekSignal(t) ==
  /\ CanSeek
  /\ CommandMutexFree
  /\ seekCompleted' = FALSE
  /\ pendingTarget' = t
  /\ seekRequested' = TRUE
  /\ NotifyDemux
  /\ UNCHANGED <<demuxState, ctxOpen, filePos, shouldStop, startReading,
                 eofReached, seekJustDone, hand>>

(* The predicate seek() waits for.                                         *)
SeekAnswered_Mutant == TRUE
SeekAnswered == seekCompleted \/ shouldStop

-----------------------------------------------------------------------------
(* The steps of demuxLoop.                                                 *)

(* The loop condition.                                                     *)
DemuxExit ==
  /\ dpc = "loop"
  /\ shouldStop
  /\ dpc' = "exited"
  /\ seekJustDone' = FALSE
  /\ UNCHANGED <<demuxState, ctxOpen, filePos, flagVars, eofReached, hand>>

DemuxSeesSeek ==
  /\ dpc = "loop"
  /\ ~shouldStop
  /\ seekRequested
  /\ dpc' = "seek"
  /\ UNCHANGED <<demuxState, ctxOpen, filePos, flagVars, eofReached,
                 seekJustDone, hand>>

(* avformat_seek_file(0) on the first read, unless a seek was just done.   *)
Rewind_Mutant == startReading
Rewind == startReading /\ ~seekJustDone

(* The startReading gate and the test of formatCtx_ that follows it.       *)
DemuxGate ==
  /\ dpc = "loop"
  /\ ~shouldStop /\ ~seekRequested
  /\ startReading' = FALSE
  /\ seekJustDone' = (seekJustDone /\ ~startReading)
  /\ filePos' = IF Rewind /\ ctxOpen THEN 0 ELSE filePos
  /\ dpc' = IF ctxOpen THEN "read" ELSE "exited"
  /\ UNCHANGED <<demuxState, ctxOpen, shouldStop, seekRequested,
                 seekCompleted, pendingTarget, eofReached, hand>>

MoreToRead_Mutant == filePos <= MediaLen
MoreToRead == filePos < MediaLen

DemuxRead ==
  /\ dpc = "read"
  /\ MoreToRead
  /\ hand' = filePos
  /\ filePos' = filePos + 1
  /\ dpc' = "deliver"
  /\ UNCHANGED <<demuxState, ctxOpen, flagVars, eofReached, seekJustDone>>

(* EAGAIN, another read error, a read that stop() interrupts, or any error *)
(* while a seek is requested.                                              *)
DemuxReadRetry ==
  /\ dpc = "read"
  /\ \/ "read" \in Faults
     \/ shouldStop
     \/ filePos = MediaLen /\ seekRequested
  /\ dpc' = "loop"
  /\ UNCHANGED <<demuxState, ctxOpen, filePos, flagVars, eofReached,
                 seekJustDone, hand>>

(* AVERROR_EOF; the modules that extend this one add onEndOfStream.        *)
DemuxEof_Mutant ==
  /\ dpc = "read"
  /\ filePos = MediaLen
  /\ ~seekRequested
  /\ dpc' = "park"
  /\ UNCHANGED <<demuxState, ctxOpen, filePos, flagVars, eofReached,
                 seekJustDone, hand>>

DemuxEof ==
  /\ dpc = "read"
  /\ filePos = MediaLen
  /\ ~seekRequested
  /\ eofReached' = TRUE
  /\ dpc' = "park"
  /\ UNCHANGED <<demuxState, ctxOpen, filePos, flagVars, seekJustDone, hand>>

(* processPacket() returns: the callback has taken the packet.             *)
DemuxDelivered ==
  /\ dpc \in {"deliver", "probe"}
  /\ hand' = NoPacket
  /\ dpc' = IF dpc = "deliver" THEN "loop" ELSE "seekDone"
  /\ UNCHANGED <<demuxState, ctxOpen, filePos, flagVars, eofReached,
                 seekJustDone>>

WakeReasons_Mutant == seekRequested \/ startReading
WakeReasons == seekRequested \/ shouldStop \/ startReading

(* commandCv_.wait on EOF: the predicate is evaluated holding              *)
(* commandMutex_ ...                                                       *)
DemuxParkTest ==
  /\ dpc = "park"
  /\ IF WakeReasons
     THEN startReading' = FALSE /\ dpc' = "loop"
     ELSE UNCHANGED startReading /\ dpc' = "parkGap"
  /\ UNCHANGED <<demuxState, ctxOpen, filePos, shouldStop, seekRequested,
                 seekCompleted, pendingTarget, eofReached, seekJustDone,
                 hand>>

(* ... and the thread goes to sleep, releasing it, in a later step.        *)
DemuxPark ==
  /\ dpc = "parkGap"
  /\ dpc' = "parked"
  /\ UNCHANGED <<demuxState, ctxOpen, filePos, flagVars, eofReached,
                 seekJustDone, hand>>

(* A seek while the media has not ended: avformat_seek_file.               *)
DemuxSeekFile ==
  /\ dpc = "seek"
  /\ ~eofReached
  /\ \/ filePos' = pendingTarget
     \/ "seek" \in Faults /\ UNCHANGED filePos
  /\ dpc' = "seekDone"
  /\ UNCHANGED <<demuxState, ctxOpen, flagVars, eofReached, seekJustDone,
                 hand>>

(* A seek after the end: the media is reopened, and one packet read to     *)
(* probe the new position.                                                 *)
DemuxReopen ==
  /\ dpc = "seek"
  /\ eofReached
  /\ ctxOpen' = TRUE
  /\ hand' = pendingTarget
  /\ filePos' = pendingTarget + 1
  /\ dpc' = "probe"
  /\ UNCHANGED <<demuxState, flagVars, eofReached, seekJustDone>>

(* Reopening fails, or its seek, or its probe: the seek is completed all   *)
(* the same.                                                               *)
DemuxReopenFails ==
  /\ "seek" \in Faults
  /\ dpc = "seek"
  /\ eofReached
  /\ \/ ctxOpen' = FALSE /\ UNCHANGED filePos
     \/ ctxOpen' = TRUE /\ filePos' \in {0, pendingTarget}
  /\ dpc' = "seekDone"
  /\ UNCHANGED <<demuxState, flagVars, eofReached, seekJustDone, hand>>

(* The answer to seek(), under commandMutex_.                              *)
DemuxSeekDone ==
  /\ dpc = "seekDone"
  /\ eofReached' = FALSE
  /\ seekRequested' = FALSE
  /\ seekCompleted' = TRUE
  /\ seekJustDone' = TRUE
  /\ dpc' = "loop"
  /\ UNCHANGED <<demuxState, ctxOpen, filePos, shouldStop, startReading,
                 pendingTarget, hand>>

(* The steps that no other component takes part in.                        *)
DemuxInternal ==
  \/ DemuxExit \/ DemuxSeesSeek \/ DemuxGate \/ DemuxRead \/ DemuxReadRetry
  \/ DemuxParkTest \/ DemuxPark \/ DemuxSeekDone

DemuxReposition == DemuxSeekFile \/ DemuxReopen \/ DemuxReopenFails
=============================================================================
