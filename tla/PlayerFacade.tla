---------------------------- MODULE PlayerFacade ----------------------------
(***************************************************************************)
(* PlayerFacade, the player of the SDK: one recursive apiMutex around its  *)
(* calls and around the demuxer's callbacks, and a state machine.  It      *)
(* plays in the demuxer's thread: onPacket decodes and shows a video       *)
(* packet before it returns.  The demuxer is an FFmpegDemuxer, reduced to  *)
(* what the locks touch; its member demuxThread_ is facThread, and the     *)
(* loop that stop() detaches when it is called on it may go on.            *)
(*                                                                         *)
(* Left out: audio.  startAudioThread() shuts audioQueue down before it    *)
(* starts the thread, and nothing opens it again: the thread ends at once. *)
(***************************************************************************)
EXTENDS Integers, FiniteSets

CONSTANT FacCalls   (* bound: calls of the client                           *)

ASSUME FacadeAssumption == FacCalls \in Nat

FacLoops == {1, 2}   (* bound: loops that are not over, one detached        *)

VARIABLES
  facState,    (* stateMachine                                              *)
  facHolder,   (* of apiMutex: 0 is nobody, -1 the client, else a loop      *)
  facClient,   (* where the client is                                       *)
  facCalls,
  facDemux,    (* state_ of the demuxer                                     *)
  facThread,   (* the loop in demuxThread_, 0 if it is not joinable         *)
  facStop, facSeek, facDone,   (* shouldStop_, seekRequested_, seekCompleted_ *)
  facMedia,    (* formatCtx_ is not null                                    *)
  facEof,      (* eofReached_                                               *)
  facLoop,     (* [FacLoops]: where each loop is                            *)
  facDetached  (* a loop has detached itself                                *)

facCall  == <<facClient, facCalls>>
facFlags == <<facStop, facSeek, facDone>>
facFile  == <<facMedia, facEof>>
FacVars  == <<facState, facHolder, facCall, facDemux, facThread, facFlags,
              facFile, facLoop, facDetached>>

FacTypeOK ==
  /\ facState \in {"Idle", "ResolvingURL", "Prepared", "Playing", "Paused",
                   "End", "Error"}
  /\ facHolder \in {-1, 0} \cup FacLoops
  /\ facClient \in {"idle", "reopen", "stop", "seek"} /\ facCalls \in 0 .. FacCalls
  /\ facDemux \in {"Idle", "Prepared", "Playing"} /\ facThread \in {0} \cup FacLoops
  /\ facStop \in BOOLEAN /\ facSeek \in BOOLEAN /\ facDone \in BOOLEAN
  /\ facMedia \in BOOLEAN /\ facEof \in BOOLEAN
  /\ facLoop \in [FacLoops -> {"over", "top", "packet", "broken", "eof",
                               "deliver", "join", "parked", "probe", "show",
                               "reopened"}]
  /\ facDetached \in BOOLEAN

FacInit ==
  /\ facState = "Idle" /\ facHolder = 0 /\ facClient = "idle" /\ facCalls = 0
  /\ facDemux = "Idle" /\ facThread = 0
  /\ facStop = FALSE /\ facSeek = FALSE /\ facDone = FALSE
  /\ facMedia = FALSE /\ facEof = FALSE
  /\ facLoop = [l \in FacLoops |-> "over"] /\ facDetached = FALSE

FacEnters ==
  /\ facClient = "idle" /\ facHolder = 0 /\ facCalls < FacCalls
  /\ facCalls' = facCalls + 1

(* The demuxer's stop(), called by another thread: the flag; the join; and *)
(* what it leaves, nothing of which a stop() of an idle demuxer touches.   *)
FacDemuxStop == facStop' = (facStop \/ facDemux # "Idle")
FacJoined ==
  \A l \in FacLoops : l = facThread /\ facDemux # "Idle" => facLoop[l] = "over"
FacForget == IF facDemux = "Idle" THEN facThread ELSE 0
FacCloses == facMedia' = (facMedia /\ facDemux = "Idle") /\ UNCHANGED facEof

(* open(): a session there was is stopped first.                           *)
FacOpen ==
  /\ FacEnters
  /\ FacDemuxStop
  /\ facClient' = "reopen" /\ facHolder' = -1
  /\ UNCHANGED <<facState, facDemux, facThread, facSeek, facDone, facFile,
                 facLoop, facDetached>>

(* It resolves the URL and opens the demuxer, which clears shouldStop_, or *)
(* one of the two fails: the resolver, which may also promise to answer    *)
(* later; avformat_open_input; or what reads the streams of the media.     *)
FacOutcomes == {"open", "pending", "unresolved", "refused", "unreadable"}

FacOpened(outcome) ==
  /\ facClient = "reopen" /\ FacJoined
  /\ facThread' = FacForget
  /\ facState' = CASE outcome = "open" -> "Prepared"
                   [] outcome = "pending" -> "ResolvingURL"
                   [] OTHER -> "Error"
  /\ facDemux' = IF outcome = "open" THEN "Prepared" ELSE "Idle"
  /\ facStop' = (facStop /\ outcome \in {"pending", "unresolved"})
  /\ facMedia' = (\/ outcome \in {"open", "unreadable"}
                  \/ facMedia /\ facDemux = "Idle")
  /\ facClient' = "idle" /\ facHolder' = 0
  /\ UNCHANGED <<facCalls, facSeek, facDone, facEof, facLoop, facDetached>>

(* play(): the first starts the demuxer's loop; a later one only resumes.  *)
FacPlay ==
  /\ FacEnters /\ facState \in {"Prepared", "Paused"}
  /\ facState' = "Playing"
  /\ IF facState = "Paused"
     THEN UNCHANGED <<facDemux, facStop, facThread, facLoop>>
     ELSE /\ facDemux' = "Playing" /\ facStop' = FALSE
          /\ \E l \in FacLoops :
               /\ facLoop[l] = "over"
               /\ facThread' = l /\ facLoop' = [facLoop EXCEPT ![l] = "top"]
  /\ UNCHANGED <<facHolder, facClient, facSeek, facDone, facFile, facDetached>>

(* pause() tells the audio renderer; the demuxer reads on.                 *)
FacPause ==
  /\ FacEnters /\ facState = "Playing"
  /\ facState' = "Paused"
  /\ UNCHANGED <<facHolder, facClient, facDemux, facThread, facFlags, facFile,
                 facLoop, facDetached>>

(* stop(), with apiMutex until the loop is joined.  The state machine has  *)
(* no way out of ResolvingURL for it.                                      *)
FacStopCalled ==
  /\ FacEnters /\ facState # "Idle"
  /\ FacDemuxStop
  /\ facClient' = "stop" /\ facHolder' = -1
  /\ UNCHANGED <<facState, facDemux, facThread, facSeek, facDone, facFile,
                 facLoop, facDetached>>

FacAfterStop == IF facState = "ResolvingURL" THEN facState ELSE "Idle"

FacStopped_Mutant ==
  /\ facClient = "stop"
  /\ facThread' = FacForget /\ facDemux' = "Idle" /\ FacCloses
  /\ facState' = FacAfterStop
  /\ facClient' = "idle" /\ facHolder' = 0
  /\ UNCHANGED <<facCalls, facFlags, facLoop, facDetached>>

FacStopped ==
  /\ facClient = "stop" /\ FacJoined
  /\ facThread' = FacForget /\ facDemux' = "Idle" /\ FacCloses
  /\ facState' = FacAfterStop
  /\ facClient' = "idle" /\ facHolder' = 0
  /\ UNCHANGED <<facCalls, facFlags, facLoop, facDetached>>

(* seek(), with apiMutex until the loop has answered.  The demuxer refuses *)
(* it at once when it has no media.                                        *)
FacSeekCalled ==
  /\ FacEnters /\ facState \in {"Playing", "Paused"}
  /\ facDemux # "Idle" /\ facMedia
  /\ facSeek' = TRUE /\ facDone' = FALSE
  /\ facClient' = "seek" /\ facHolder' = -1
  /\ UNCHANGED <<facState, facDemux, facThread, facStop, facFile, facLoop,
                 facDetached>>

FacSeekAnswered ==
  /\ facClient = "seek" /\ (facDone \/ facStop)
  /\ facClient' = "idle" /\ facHolder' = 0
  /\ UNCHANGED <<facState, facCalls, facDemux, facThread, facFlags, facFile,
                 facLoop, facDetached>>

-----------------------------------------------------------------------------
FacGo(l, place) == facLoop' = [facLoop EXCEPT ![l] = place]

(* demuxLoop(): ends, answers a seek, or reads: a packet, an error, or the *)
(* end.  Each of the three has a callback that wants apiMutex.             *)
FacEnds(l) ==
  /\ facLoop[l] = "top" /\ (facStop \/ (~facSeek /\ ~facMedia))
  /\ FacGo(l, "over")
  /\ UNCHANGED <<facState, facHolder, facCall, facDemux, facThread, facFlags,
                 facFile, facDetached>>

FacAnswers == facSeek' = FALSE /\ facDone' = TRUE /\ facEof' = FALSE

FacSeeks(l) ==
  /\ facLoop[l] = "top" /\ ~facStop /\ facSeek /\ ~facEof
  /\ FacAnswers
  /\ UNCHANGED <<facState, facHolder, facCall, facDemux, facThread, facStop,
                 facMedia, facLoop, facDetached>>

(* Behind the end of the media it is opened again, without the streams     *)
(* being read: which fails, and leaves none; or fails to seek, or to read  *)
(* what follows, or reads a packet of sound, which wants no lock; or reads *)
(* a picture, and delivers it before the seek is answered.                 *)
FacReopens(l) ==
  /\ facLoop[l] = "top" /\ ~facStop /\ facSeek /\ facEof
  /\ \/ facMedia' \in BOOLEAN /\ FacGo(l, "reopened")
     \/ facMedia' = TRUE /\ FacGo(l, "probe")
  /\ UNCHANGED <<facState, facHolder, facCall, facDemux, facThread, facFlags,
                 facEof, facDetached>>

(* However that went, the seek is answered.                                *)
FacReopened(l) ==
  /\ facLoop[l] = "reopened"
  /\ FacAnswers /\ FacGo(l, "top")
  /\ UNCHANGED <<facState, facHolder, facCall, facDemux, facThread, facStop,
                 facMedia, facDetached>>

FacReads(l) ==
  /\ facLoop[l] = "top" /\ ~facStop /\ ~facSeek /\ facMedia
  /\ \E place \in {"packet", "broken", "eof"} :
       FacGo(l, place) /\ facEof' = (facEof \/ place = "eof")
  /\ UNCHANGED <<facState, facHolder, facCall, facDemux, facThread, facFlags,
                 facMedia, facDetached>>

(* onPacket and deliverVideoPacket().                                      *)
FacDelivers(l) ==
  /\ facLoop[l] \in {"packet", "probe"} /\ facHolder = 0
  /\ facHolder' = l
  /\ FacGo(l, IF facLoop[l] = "probe" THEN "show" ELSE "deliver")
  /\ UNCHANGED <<facState, facCall, facDemux, facThread, facFlags, facFile,
                 facDetached>>

FacDelivered(l) ==
  /\ facLoop[l] \in {"deliver", "show"}
  /\ facHolder' = 0
  /\ FacGo(l, IF facLoop[l] = "show" THEN "reopened" ELSE "top")
  /\ UNCHANGED <<facState, facCall, facDemux, facThread, facFlags, facFile,
                 facDetached>>

(* The decoder fails, or onError: the demuxer's stop() on the loop itself. *)
(* If that is a probe's picture, the loop then reads through the pointer   *)
(* to the media it has closed: the program crashes, and no step follows.   *)
FacFails(l) ==
  /\ \/ facLoop[l] = "deliver"
     \/ facLoop[l] = "broken" /\ facHolder = 0
  /\ facHolder' = l
  /\ facState' = IF facState \in {"Idle", "ResolvingURL", "End"} THEN facState
                 ELSE "Error"
  /\ FacDemuxStop
  /\ FacGo(l, "join")
  /\ UNCHANGED <<facCall, facDemux, facThread, facSeek, facDone, facFile,
                 facDetached>>

(* ... which detaches its own thread, and joins any other.                 *)
FacFailed(l) ==
  /\ facLoop[l] = "join" /\ (facThread = l \/ FacJoined)
  /\ facDetached' = (facDetached \/ (facThread = l /\ facDemux # "Idle"))
  /\ facThread' = FacForget /\ facDemux' = "Idle" /\ FacCloses
  /\ facHolder' = 0 /\ FacGo(l, "top")
  /\ UNCHANGED <<facState, facCall, facFlags>>

(* onEndOfStream: only a player that is Playing is told the End.           *)
FacFinishes(l) ==
  /\ facLoop[l] = "eof" /\ facHolder = 0
  /\ facState' = IF facState = "Playing" THEN "End" ELSE facState
  /\ FacGo(l, "parked")
  /\ UNCHANGED <<facHolder, facCall, facDemux, facThread, facFlags, facFile,
                 facDetached>>

FacUnparks(l) ==
  /\ facLoop[l] = "parked" /\ (facStop \/ facSeek)
  /\ FacGo(l, "top")
  /\ UNCHANGED <<facState, facHolder, facCall, facDemux, facThread, facFlags,
                 facFile, facDetached>>

FacNext ==
  \/ FacOpen \/ FacPlay \/ FacPause \/ FacStopCalled \/ FacSeekCalled
  \/ \E outcome \in FacOutcomes : FacOpened(outcome)
  \/ FacStopped \/ FacSeekAnswered
  \/ \E l \in FacLoops :
       \/ FacEnds(l) \/ FacSeeks(l) \/ FacReopens(l) \/ FacReopened(l)
       \/ FacReads(l) \/ FacDelivers(l) \/ FacDelivered(l) \/ FacFails(l)
       \/ FacFailed(l) \/ FacFinishes(l) \/ FacUnparks(l)

FacSpec == FacInit /\ [][FacNext]_FacVars

-----------------------------------------------------------------------------
FacRunning == {l \in FacLoops : facLoop[l] # "over"}

(* One loop reads the media, and none after a stop(), but for a loop that  *)
(* an error made detach itself: open() clears shouldStop_, and if the loop *)
(* has not seen it by then, it goes on beside the new one.  A player that  *)
(* says Playing or Paused has a loop that reads or waits at the end of the *)
(* media, but for a seek behind that end which failed to open them again:  *)
(* that loop is over, and neither the demuxer nor the player says so.      *)
FacOneLoop ==
  /\ ~facDetached => FacRunning \subseteq {facThread}
  /\ facState = "Idle" /\ facClient = "idle" /\ ~facDetached => FacRunning = {}
  /\ facState \in {"Playing", "Paused"} /\ facClient = "idle" =>
       FacRunning # {} \/ (facDemux = "Playing" /\ ~facMedia)

(* The comment in seek() on what it does before it asks the demuxer: "This *)
(* prevents a deadlock when seeking while paused".  Who seeks then does    *)
(* not wait, with apiMutex, for a loop that waits for apiMutex.            *)
FacSeekPrevails ==
  facState = "Paused" /\ facClient = "seek" /\ ~facDone =>
    \A l \in FacLoops : facLoop[l] \notin {"packet", "broken", "eof", "probe"}
=============================================================================
