-------------------------- MODULE DemuxerProtocol --------------------------
(***************************************************************************)
(* The demuxer under one caller that gives the commands in the order       *)
(* FFPlayer gives them: open, then start; a seek, then start again; stop   *)
(* at any time.  Delivering a packet takes as long as it takes.            *)
(***************************************************************************)
EXTENDS FFmpegDemuxer

CONSTANT MaxCalls  (* bound on the calls of open, seek and stop *)

ASSUME MaxCallsAssumption == MaxCalls \in Nat

VARIABLES
  caller,      (* where the calling thread is                               *)
  startDue,    (* the caller's next command may be start                    *)
  sought,      (* history: a seek has completed since the media was opened  *)
  staleStart,  (* history: a seek completed with startReading_ still set    *)
  missed,      (* history: the last stop() signalled a thread about to park *)
  calls        (* the number of calls made                                  *)

protocolVars == <<caller, startDue, sought, staleStart, missed,
                  calls>>
vars == <<demuxVars, protocolVars>>

TypeOK ==
  /\ DemuxTypeOK
  /\ caller \in {"idle", "seekWait", "stopJoin"}
  /\ startDue \in BOOLEAN
  /\ sought \in BOOLEAN
  /\ staleStart \in BOOLEAN
  /\ missed \in BOOLEAN
  /\ calls \in 0 .. MaxCalls

Init ==
  /\ DemuxInit
  /\ caller = "idle"
  /\ startDue = FALSE
  /\ sought = FALSE
  /\ staleStart = FALSE
  /\ missed = FALSE
  /\ calls = 0

-----------------------------------------------------------------------------
Call == caller = "idle" /\ calls < MaxCalls /\ calls' = calls + 1

CallOpen ==
  /\ Call
  /\ DemuxOpen
  /\ startDue' = TRUE
  /\ sought' = FALSE
  /\ staleStart' = FALSE
  /\ UNCHANGED <<caller, missed>>

CallOpenFails ==
  /\ Call
  /\ DemuxOpenFails
  /\ UNCHANGED <<caller, startDue, sought, staleStart, missed>>

CallStart ==
  /\ caller = "idle"
  /\ startDue
  /\ DemuxStart
  /\ startDue' = FALSE
  /\ UNCHANGED <<caller, sought, staleStart, missed, calls>>

CallSeek(t) ==
  /\ Call
  /\ DemuxSeekSignal(t)
  /\ caller' = "seekWait"
  /\ UNCHANGED <<startDue, sought, staleStart, missed>>

SeekReturns ==
  /\ caller = "seekWait"
  /\ SeekAnswered
  /\ caller' = "idle"
  /\ startDue' = TRUE
  /\ UNCHANGED <<demuxVars, sought, staleStart, missed, calls>>

CallStop ==
  /\ Call
  /\ DemuxStopSignal
  /\ caller' = "stopJoin"
  /\ startDue' = FALSE
  /\ missed' = (dpc = "parkGap")
  /\ UNCHANGED <<sought, staleStart>>

StopReturns ==
  /\ caller = "stopJoin"
  /\ DemuxStopJoin
  /\ caller' = "idle"
  /\ UNCHANGED <<startDue, sought, staleStart, missed, calls>>

CallerReturns == SeekReturns \/ StopReturns

SeekDone ==
  /\ DemuxSeekDone
  /\ sought' = TRUE
  /\ staleStart' = (staleStart \/ startReading)
  /\ UNCHANGED <<caller, startDue, missed, calls>>

Quiet ==
  /\ \/ DemuxExit \/ DemuxSeesSeek \/ DemuxGate \/ DemuxRead
     \/ DemuxReadRetry \/ DemuxParkTest \/ DemuxPark
     \/ DemuxEof \/ DemuxDelivered
     \/ DemuxSeekFile \/ DemuxReopen \/ DemuxReopenFails
  /\ UNCHANGED protocolVars

DemuxThread == Quiet \/ SeekDone

Next ==
  \/ CallOpen \/ CallOpenFails \/ CallStart \/ CallStop
  \/ \E t \in Positions : CallSeek(t)
  \/ CallerReturns
  \/ DemuxThread

(***************************************************************************)
(* The demux thread runs on, its callback returns (the consumer drains the *)
(* queues), and a caller whose wait is over returns.  Nobody is forced to  *)
(* give another command.                                                   *)
(***************************************************************************)
Spec == /\ Init /\ [][Next]_vars
        /\ WF_vars(DemuxThread) /\ WF_vars(CallerReturns)

-----------------------------------------------------------------------------
(* The loop goes back to position 0 at the startReading gate.              *)
RewindStep == dpc = "loop" /\ filePos' # filePos

(***************************************************************************)
(* FFmpegDemuxer.cpp:623-625: "A seek was just performed -- skip the       *)
(* seek-to-zero so we don't override the seek target with position 0."     *)
(* Once a seek has completed, the loop never rewinds the media.            *)
(***************************************************************************)
SeekTargetKept == [][RewindStep => ~sought]_vars

(***************************************************************************)
(* What does hold: the seek target is overridden only in a session where   *)
(* some seek was executed while the startReading_ of an earlier start()    *)
(* had not been consumed yet, so that it used up seekJustDone.             *)
(***************************************************************************)
RewindOnlyAfterStaleStart == [][RewindStep /\ sought => staleStart]_vars

(***************************************************************************)
(* While a seek waits for its answer, either the request is still pending  *)
(* or the answer is there, and the thread that owes it has not left; the   *)
(* one exception is a seek before the first start(), which waits for a     *)
(* thread that does not exist.                                             *)
(***************************************************************************)
SeekOwed ==
  caller = "seekWait" =>
    /\ seekRequested # seekCompleted
    /\ seekRequested => dpc \notin {"exited", "parkGap", "parked"}

(***************************************************************************)
(* The demux thread rests for two reasons only.  It sleeps at the end of   *)
(* the media; and without a stop() it has left its loop, with the state    *)
(* still Playing, only after a seek that could not reopen the ended media. *)
(* In either case it has nothing in its hands and owes no seek an answer.  *)
(***************************************************************************)
RestsForAReason ==
  /\ dpc \in {"parkGap", "parked"} =>
       eofReached /\ hand = NoPacket /\ ~seekRequested
  /\ dpc = "exited" /\ ~shouldStop =>
       ~ctxOpen /\ sought /\ hand = NoPacket /\ ~seekRequested

(***************************************************************************)
(* stop() stores shouldStop_ and notifies without commandMutex_.  All the  *)
(* same, while it joins the thread, the thread is never asleep, or about   *)
(* to be, on the condition it has just made true: the one exception is a   *)
(* notification between the thread's test and its sleep.                   *)
(***************************************************************************)
StopHeard ==
  caller = "stopJoin" /\ ~missed => shouldStop /\ dpc \notin {"parkGap", "parked"}

(***************************************************************************)
(* stop() returns, unless its notification fell between the test of the    *)
(* predicate and the sleep of a thread parking on the end of the media:    *)
(* there is no other way for it to hang.                                   *)
(***************************************************************************)
StopEnds == (caller = "stopJoin" /\ ~missed) ~> caller # "stopJoin"

(***************************************************************************)
(* seek() returns, unless no demux thread was ever started.                *)
(***************************************************************************)
SeekEnds == (caller = "seekWait" /\ dpc # "none") ~> caller # "seekWait"
=============================================================================
