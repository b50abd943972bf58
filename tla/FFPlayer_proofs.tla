--------------------------- MODULE FFPlayer_proofs ---------------------------
(***************************************************************************)
(* Proofs of the safety of FFPlayer, for every media, every capacity of    *)
(* the queues and every number of calls.                                   *)
(*                                                                         *)
(* The player has five threads.  A first lemma for each kind of thread     *)
(* (DemuxMoves, DecoderMoves, RefreshMoves) says what its steps leave      *)
(* alone; the invariants about the session are then proved thread by       *)
(* thread.  Session and Stages tie playerState, demuxState and the threads *)
(* there are to the point that the calling thread has reached; Requests    *)
(* and Positioned follow a seek through the demuxer, so that readSerial is *)
(* never more than one behind; Near and Generations are what the two       *)
(* serials of a packet then obey on its way from the demuxer to the        *)
(* screen; EndChain follows the end of the media along the same way.       *)
(***************************************************************************)
EXTENDS FFPlayer, TLAPS

NoDecoders == \A s \in Streams : wpc[s] = "none"

(* What the player's state says of its threads ...                         *)
Session ==
  /\ dpc = "none" <=> demuxState # "Playing"
  /\ playerState = "Idle" <=> demuxState = "Idle"
  /\ demuxState = "Idle" => rpc = "none" /\ NoDecoders
  /\ playerState = "Prepared" /\ apc \notin {"playDemux", "playDone"} =>
       demuxState = "Prepared" /\ rpc = "none" /\ NoDecoders
  /\ shouldStop => apc = "stopJoin" \/ demuxState = "Idle"

(* ... and what the point that the calling thread has reached says of both.*)
Stages ==
  /\ apc = "open" => demuxState = "Idle"
  /\ apc = "play" => playerState = "Prepared"
  /\ apc = "playDemux" => demuxState = "Prepared"
  /\ apc \in {"playDone", "seekClear", "seekResume", "seekDone"} =>
       demuxState = "Playing"
  /\ apc \in {"resume", "pause", "seekWait"} => demuxState # "Idle"
  /\ apc \in {"stopWorkers", "stopDemux", "stopJoin"} => rpc = "none"
  /\ apc \in {"stopDemux", "stopJoin"} => NoDecoders

(* A seek is with the demuxer only while the calling thread waits for it.  *)
Behind  == {"seekVideo", "seekAudio", "seekAudioDone", "seekVideoDone",
            "seekClaim", "seekRequest", "seekFlush", "seekDecoders",
            "seekCmd", "seekWait"}
Seeking == Behind \cup {"seekSerial"}

Requests ==
  /\ seekRequested => apc = "seekWait"
  /\ apc = "seekWait" => (seekRequested <=> ~seekCompleted)
  /\ apc = "seekWait" /\ seekCompleted => demuxState = "Playing"
  /\ dpc \in {"seek", "probe", "seekDone"} => seekRequested
  /\ apc \in Seeking => seekInProgress

(* The media is positioned for the present serial, or for the one before   *)
(* it while a seek that has taken its serial is under way.                 *)
Positioned ==
  /\ demuxState # "Idle" /\ ctxOpen =>
       \/ readSerial = seekSerial
       \/ apc \in Behind /\ readSerial = seekSerial - 1
  /\ apc = "seekWait" /\ seekCompleted => readSerial = seekSerial
  /\ dpc \in {"probe", "seekDone"} => readSerial = seekSerial
  /\ dpc \in {"read", "deliver", "probe"} => ctxOpen
  /\ tag # NoSerial =>
       dpc \in {"deliver", "probe"} /\ tag \in {readSerial, readSerial + 1}

(* An Idle player's queues are empty.                                      *)
Emptied ==
  demuxState = "Idle" =>
    frames = <<>> /\ \A s \in Streams : packets[s] = <<>>

(* Wherever a packet is, it was read for its serial or the one before.     *)
NearRead(p) == p.serial \in {p.read, p.read + 1}
AllNear(q)  == \A i \in 1 .. Len(q) : NearRead(q[i])

Near ==
  /\ \A s \in Streams : NearRead(whand[s])
  /\ \A s \in Streams : AllNear(packets[s])
  /\ AllNear(frames)

(* The generations ascend from the frames to the packets, over the packet  *)
(* in the decode thread's hands, and no further than the present one, or   *)
(* the one that onPacket has taken.                                        *)
Hold(pc) == pc \in {"decode", "decoding", "clear", "out"}

NoneLater(q, n)   == \A i \in 1 .. Len(q) : q[i].serial <= n
NoneEarlier(q, n) == \A i \in 1 .. Len(q) : n <= q[i].serial
Before(q, r) ==
  \A i \in 1 .. Len(q) : \A j \in 1 .. Len(r) : q[i].serial <= r[j].serial
Ascending(q) == \A i, j \in 1 .. Len(q) : i < j => q[i].serial <= q[j].serial

InLine ==
  /\ Ascending(frames) /\ Ascending(packets["video"])
  /\ Before(frames, packets["video"])
  /\ Hold(wpc["video"]) => /\ NoneLater(frames, whand["video"].serial)
                           /\ NoneEarlier(packets["video"],
                                whand["video"].serial)
  /\ wpc["audio"] # "out"

UpTo(n) ==
  /\ NoneLater(frames, n) /\ NoneLater(packets["video"], n)
  /\ Hold(wpc["video"]) => whand["video"].serial <= n

Generations ==
  /\ InLine /\ UpTo(seekSerial)
  /\ tag # NoSerial => tag <= seekSerial /\ UpTo(tag)

(* The demux thread has read the media to its end, and will read no more.  *)
AtEnd ==
  /\ filePos = MediaLen /\ hand = NoPacket /\ tag = NoSerial
  /\ dpc \in {"park", "parkGap", "parked", "loop", "exited"}
  /\ dpc = "loop" => shouldStop

(* Nothing is left for the decode thread of s.                             *)
Over(s) ==
  /\ demuxerDone /\ packets[s] = <<>>
  /\ wpc[s] \in {"loop", "pop", "claim", "request", "dead"} \cup EndTests
       \cup (IF decodeDone[s] THEN {} ELSE {"setDone"})

(* As long as nobody has sought: the demuxer is done at the end of the     *)
(* media, a decode thread after the demuxer, and who ends the playback     *)
(* after both decode threads.                                              *)
Unsought ==
  /\ apc \notin Behind \cup {"seekClear", "seekResume", "seekDone"}
  /\ startReading /\ dpc # "none" => dpc \in {"loop", "exited"} /\ ~demuxerDone
  /\ demuxerDone /\ dpc # "none" => AtEnd
  /\ apc = "playDemux" => ~demuxerDone
  /\ \A s \in Streams :
       /\ wpc[s] # "none" => dpc # "none" \/ apc = "playDemux"
       /\ wpc[s] # "none" /\ (decodeDone[s] \/ wpc[s] = "setDone") => Over(s)
       /\ wpc[s] \in {"askVideo", "askPaused", "claim", "request"} =>
            decodeDone["audio"]
       /\ wpc[s] \in {"askPaused", "claim", "request"} => decodeDone["video"]
       /\ wpc[s] # "none" /\ endRequested => \A t \in Streams : decodeDone[t]
       /\ rpc # "none" => wpc[s] # "none"
  /\ rpc = "drain" => endRequested /\ frames = <<>>

EndChain == seekSerial = 0 => Unsought

(* The serial counts the seeks, but for one that has not taken it yet.     *)
Counted ==
  calls["seek"] = IF apc = "seekSerial" THEN seekSerial + 1 ELSE seekSerial

Types ==
  /\ TypeOK /\ Counted
  /\ dpc \in {"deliver", "probe"} <=> hand # NoPacket

IInv ==
  /\ Types /\ Session /\ Stages /\ Requests /\ FlushedDecodersRest
  /\ Positioned /\ Emptied /\ Near /\ Generations /\ EndChain

-----------------------------------------------------------------------------
(* What a step of the demux thread, of a decode thread and of the refresh  *)
(* thread leaves alone, and what it may change of the session.             *)
LEMMA DemuxMoves ==
  ASSUME DemuxThread
  PROVE  /\ dpc # "none" /\ dpc' # "none"
         /\ UNCHANGED <<demuxState, shouldStop, playerState, ctlVars,
                        decodeDone, endTransitioning, endRequested,
                        claimSerial, frames, closed, workerVars, refreshVars,
                        apc, localVars>>
<1> USE DEF flagVars, demuxVars, callVars, queueVars, endVars
<1>1. CASE OnPacketTag \/ OnPacketPush
  BY <1>1 DEF OnPacketTag, OnPacketPush, DemuxDelivered
<1>2. CASE OnEndOfStream
  BY <1>2 DEF OnEndOfStream, DemuxEof
<1>3. CASE Reposition
  BY <1>3 DEF Reposition, DemuxReposition, DemuxSeekFile, DemuxReopen,
     DemuxReopenFails
<1>4. ASSUME DemuxInternal,
             UNCHANGED <<playerState, ctlVars, endVars, queueVars, callVars,
                         workerVars, refreshVars, apc, localVars>>
      PROVE  /\ dpc # "none" /\ dpc' # "none"
             /\ UNCHANGED <<demuxState, shouldStop>>
  BY <1>4 DEF DemuxInternal, DemuxExit, DemuxSeesSeek, DemuxGate, DemuxRead,
     DemuxReadRetry, DemuxParkTest, DemuxPark, DemuxSeekDone
<1>5. QED
  BY <1>1, <1>2, <1>3, <1>4 DEF DemuxThread

LEMMA DecoderMoves ==
  ASSUME TypeOK, NEW s \in Streams, DecodeThread(s)
  PROVE  /\ NotWorker
         /\ wpc' \in [Streams -> WorkerPcs]
         /\ wpc[s] # "none" /\ wpc'[s] # "none"
         /\ \A t \in Streams : t # s
              => wpc'[t] = wpc[t] /\ whand'[t] = whand[t]
         /\ playerState' \in {playerState, "End"}
         /\ claimSerial' \in {claimSerial, seekSerial}
<1> wpc \in [Streams -> WorkerPcs] /\ whand \in [Streams -> Packet]
  BY DEF TypeOK
<1> USE DEF Jump, Again, WorkerPcs, endVars
<1>1. CASE WorkerExit(s) \/ WorkerEnter(s) \/ WorkerBack(s)
  BY <1>1 DEF WorkerExit, WorkerEnter, WorkerBack
<1>2. CASE WorkerPop(s)
  BY <1>2 DEF WorkerPop
<1>3. CASE WorkerStarves(s) \/ WorkerDone(s) \/ WorkerRequest(s)
  BY <1>3 DEF WorkerStarves, WorkerDone, WorkerRequest, EndTests
<1>3a. CASE WorkerAsks(s)
  BY <1>3a DEF WorkerAsks, EndTests, NextTest
<1>3b. CASE WorkerClaim(s)
  BY <1>3b DEF WorkerClaim
<1>4. CASE WorkerFeed(s) \/ WorkerDecoded(s) \/ WorkerClear(s) \/ WorkerOut(s)
  BY <1>4 DEF WorkerFeed, WorkerDecoded, WorkerClear, WorkerOut
<1>5. QED
  BY <1>1, <1>2, <1>3, <1>3a, <1>3b, <1>4 DEF DecodeThread

LEMMA RefreshMoves ==
  ASSUME RefreshThread
  PROVE  /\ NotRefresh
         /\ rpc # "none" /\ rpc' # "none"
         /\ playerState' \in {playerState, "End"}
BY DEF RefreshThread, RefreshExit, RefreshEnter, RefreshBack, RefreshPop,
   RefreshLate, RefreshShow, RefreshStarves, RefreshEnd, RefreshAgain,
   refreshVars

-----------------------------------------------------------------------------
(* The session.                                                            *)
LEMMA SessionStep ==
  ASSUME TypeOK, Session, Stages, Requests, [Next]_vars
  PROVE  Session' /\ Stages'
<1> USE DEF TypeOK, DemuxTypeOK, PlayerStates, Session, Stages, Requests,
NoDecoders,
            demuxVars, ctlVars, endVars, queueVars, callVars, workerVars,
            refreshVars, localVars, Goto
<1>1. CASE OpenMedia
  BY <1>1 DEF OpenMedia, DemuxOpen
<1>2. CASE OpenFails
  BY <1>2 DEF OpenFails, DemuxOpenFails
<1>3. CASE PlayThreads
  BY <1>3 DEF PlayThreads, CreateThreads, EmptyQueues, ResetEnd
<1>4. CASE PlayDemux
  BY <1>4 DEF PlayDemux, DemuxStart, NotifyDemux
<1>5. CASE PlayDone \/ ResumeDone \/ PauseDone \/ SeekFinish
  BY <1>5 DEF PlayDone, ResumeDone, PauseDone, SeekFinish, EndCall
<1>6. CASE StopClose \/ StopRefresh \/ StopWorkers
  BY <1>6 DEF StopClose, CloseQueues, StopRefresh, StopWorkers
<1>7. CASE StopDemux \/ StopFinish
  BY <1>7 DEF StopDemux, DemuxStopSignal, NotifyDemux, StopFinish,
     DemuxStopJoin, EmptyQueues
<1>7a. CASE SeekStores
  BY <1>7a DEF SeekStores, StoreSerial, StoreTarget, ClearDone, ClearClaim,
     ClaimCleared, ClearRequest, NotSeek, NextSerial
<1>8. CASE SeekFlush \/ SeekFlushDecoders
  BY <1>8 DEF SeekFlush, EmptyQueues, SeekFlushDecoders
<1>9. CASE SeekCommand \/ SeekRefused
  BY <1>9 DEF SeekCommand, DemuxSeekSignal, CanSeek, NotifyDemux, SeekRefused
<1>10. CASE SeekAnswer \/ SeekClear
  BY <1>10 DEF SeekAnswer, SeekAnswered, SeekClear
<1>11. CASE SeekResume
  BY <1>11 DEF SeekResume, CreateThreads, EmptyQueues, DemuxStart, NotifyDemux
<1>12. CASE ApiCalls
  BY <1>12 DEF ApiCalls, CallOpen, PlayResume, PlayAgain, PlayPrepared,
     CallPause, CallStop, CallSeek, Call, StopThen, MustStop
<1>13. CASE DemuxThread
  BY <1>13, DemuxMoves
<1>14. ASSUME NEW s \in Streams, DecodeThread(s)
       PROVE  Session' /\ Stages'
  BY <1>14, DecoderMoves DEF NotWorker
<1>15. CASE RefreshThread
  BY <1>15, RefreshMoves DEF NotRefresh
<1>16. CASE UNCHANGED vars
  BY <1>16 DEF vars
<1>17. QED
  BY <1>1, <1>2, <1>3, <1>4, <1>5, <1>6, <1>7, <1>7a, <1>8, <1>9, <1>10,
     <1>11, <1>12, <1>13, <1>14, <1>15, <1>16 DEF Next, LeftAlone, ApiContinues

(* A seek on its way through the demuxer.                                  *)
LEMMA RequestsStep ==
  ASSUME TypeOK, Session, Stages, Requests, [Next]_vars
  PROVE  Requests'
<1> seekRequested \in BOOLEAN /\ seekCompleted \in BOOLEAN
    /\ demuxState \in {"Idle", "Prepared", "Playing"}
  BY DEF TypeOK, DemuxTypeOK
<1> USE DEF Session, Stages, Requests, Seeking, Behind, flagVars, demuxVars,
ctlVars,
endVars, queueVars, callVars,
            workerVars, refreshVars, localVars, Goto
<1>1. CASE OpenMedia
  BY <1>1 DEF OpenMedia, DemuxOpen
<1>2. CASE OpenFails
  BY <1>2 DEF OpenFails, DemuxOpenFails
<1>3. CASE PlayThreads
  BY <1>3 DEF PlayThreads, CreateThreads, EmptyQueues, ResetEnd
<1>4. CASE PlayDemux
  BY <1>4 DEF PlayDemux, DemuxStart, NotifyDemux
<1>5. CASE PlayDone \/ ResumeDone \/ PauseDone \/ SeekFinish
  BY <1>5 DEF PlayDone, ResumeDone, PauseDone, SeekFinish, EndCall
<1>6. CASE StopClose \/ StopRefresh \/ StopWorkers
  BY <1>6 DEF StopClose, CloseQueues, StopRefresh, StopWorkers
<1>7. CASE StopDemux \/ StopFinish
  BY <1>7 DEF StopDemux, DemuxStopSignal, NotifyDemux, StopFinish,
     DemuxStopJoin, EmptyQueues
<1>7a. CASE SeekStores
  BY <1>7a DEF SeekStores, StoreSerial, StoreTarget, ClearDone, ClearClaim,
     ClaimCleared, ClearRequest, NotSeek, NextSerial
<1>8. CASE SeekFlush \/ SeekFlushDecoders
  BY <1>8 DEF SeekFlush, EmptyQueues, SeekFlushDecoders
<1>9. CASE SeekCommand \/ SeekRefused
  BY <1>9 DEF SeekCommand, DemuxSeekSignal, CanSeek, NotifyDemux, SeekRefused
<1>10. CASE SeekAnswer \/ SeekClear
  BY <1>10 DEF SeekAnswer, SeekAnswered, SeekClear
<1>11. CASE SeekResume
  BY <1>11 DEF SeekResume, CreateThreads, EmptyQueues, DemuxStart, NotifyDemux
<1>12. CASE ApiCalls
  BY <1>12 DEF ApiCalls, CallOpen, PlayResume, PlayAgain, PlayPrepared,
     CallPause, CallStop, CallSeek, Call, StopThen, MustStop
<1>13. CASE DemuxThread
  <2>1. CASE OnPacketTag \/ OnPacketPush \/ OnEndOfStream
    BY <2>1 DEF OnPacketTag, OnPacketPush, DemuxDelivered, OnEndOfStream,
       DemuxEof
  <2>2. CASE Reposition
    BY <2>2 DEF Reposition, DemuxReposition, DemuxSeekFile, DemuxReopen,
       DemuxReopenFails
  <2>3. CASE DemuxInternal /\ UNCHANGED <<ctlVars, apc>>
    BY <2>3 DEF DemuxInternal, DemuxExit, DemuxSeesSeek, DemuxGate, DemuxRead,
       DemuxReadRetry, DemuxParkTest, DemuxPark, DemuxSeekDone
  <2>4. QED
    BY <1>13, <2>1, <2>2, <2>3 DEF DemuxThread
<1>14. ASSUME NEW s \in Streams, DecodeThread(s)
       PROVE  Requests'
  BY <1>14, DecoderMoves DEF NotWorker
<1>15. CASE RefreshThread
  BY <1>15, RefreshMoves DEF NotRefresh
<1>16. CASE UNCHANGED vars
  BY <1>16 DEF vars
<1>17. QED
  BY <1>1, <1>2, <1>3, <1>4, <1>5, <1>6, <1>7, <1>7a, <1>8, <1>9, <1>10,
     <1>11, <1>12, <1>13, <1>14, <1>15, <1>16 DEF Next, LeftAlone, ApiContinues

(* Where the media is positioned.                                          *)
LEMMA PositionedStep ==
  ASSUME TypeOK, Session, Stages, Requests, Positioned, [Next]_vars
  PROVE  Positioned'
<1> /\ seekSerial \in Nat /\ readSerial \in Nat /\ tag \in Nat \cup {NoSerial}
    /\ ctxOpen \in BOOLEAN /\ seekCompleted \in BOOLEAN
    /\ demuxState \in {"Idle", "Prepared", "Playing"}
  BY PlayerAssumption
     DEF TypeOK, DemuxTypeOK, Serials, PlayerAssumption, Ops, NoSerial
<1> USE DEF Session, Stages, Requests, Positioned, Seeking, Behind, NoSerial,
flagVars, demuxVars, ctlVars, endVars, queueVars, callVars,
            workerVars, refreshVars, localVars, Goto
<1>1. CASE OpenMedia
  BY <1>1 DEF OpenMedia, DemuxOpen
<1>2. CASE OpenFails
  BY <1>2 DEF OpenFails, DemuxOpenFails
<1>3. CASE PlayThreads
  BY <1>3 DEF PlayThreads, CreateThreads, EmptyQueues, ResetEnd
<1>4. CASE PlayDemux
  BY <1>4 DEF PlayDemux, DemuxStart, NotifyDemux
<1>5. CASE PlayDone \/ ResumeDone \/ PauseDone \/ SeekFinish
  BY <1>5 DEF PlayDone, ResumeDone, PauseDone, SeekFinish, EndCall
<1>6. CASE StopClose \/ StopRefresh \/ StopWorkers
  BY <1>6 DEF StopClose, CloseQueues, StopRefresh, StopWorkers
<1>7. CASE StopDemux \/ StopFinish
  BY <1>7 DEF StopDemux, DemuxStopSignal, NotifyDemux, StopFinish,
     DemuxStopJoin, EmptyQueues
<1>7a. CASE SeekStores
  BY <1>7a DEF SeekStores, StoreSerial, StoreTarget, ClearDone, ClearClaim,
     ClaimCleared, ClearRequest, NotSeek, NextSerial
<1>8. CASE SeekFlush \/ SeekFlushDecoders
  BY <1>8 DEF SeekFlush, EmptyQueues, SeekFlushDecoders
<1>9. CASE SeekCommand \/ SeekRefused
  BY <1>9 DEF SeekCommand, DemuxSeekSignal, CanSeek, NotifyDemux, SeekRefused
<1>10. CASE SeekAnswer \/ SeekClear
  BY <1>10 DEF SeekAnswer, SeekAnswered, SeekClear
<1>11. CASE SeekResume
  BY <1>11 DEF SeekResume, CreateThreads, EmptyQueues, DemuxStart, NotifyDemux
<1>12. CASE ApiCalls
  BY <1>12 DEF ApiCalls, CallOpen, PlayResume, PlayAgain, PlayPrepared,
     CallPause, CallStop, CallSeek, Call, StopThen, MustStop, NextSerial
<1>13. CASE DemuxThread
  <2>1. CASE OnPacketTag \/ OnPacketPush \/ OnEndOfStream
    BY <2>1 DEF OnPacketTag, OnPacketPush, DemuxDelivered, OnEndOfStream,
       DemuxEof
  <2>2. CASE Reposition
    BY <2>2 DEF Reposition, DemuxReposition, DemuxSeekFile, DemuxReopen,
       DemuxReopenFails
  <2>3. CASE DemuxInternal /\ UNCHANGED <<ctlVars, callVars, apc>>
    BY <2>3 DEF DemuxInternal, DemuxExit, DemuxSeesSeek, DemuxGate, DemuxRead,
       DemuxReadRetry, DemuxParkTest, DemuxPark, DemuxSeekDone
  <2>4. QED
    BY <1>13, <2>1, <2>2, <2>3 DEF DemuxThread
<1>14. ASSUME NEW s \in Streams, DecodeThread(s)
       PROVE  Positioned'
  BY <1>14, DecoderMoves DEF NotWorker
<1>15. CASE RefreshThread
  BY <1>15, RefreshMoves DEF NotRefresh
<1>16. CASE UNCHANGED vars
  BY <1>16 DEF vars
<1>17. QED
  BY <1>1, <1>2, <1>3, <1>4, <1>5, <1>6, <1>7, <1>7a, <1>8, <1>9, <1>10,
     <1>11, <1>12, <1>13, <1>14, <1>15, <1>16 DEF Next, LeftAlone, ApiContinues

-----------------------------------------------------------------------------
(* The types, in five parts: where everybody is, the flags, the positions  *)
(* in the media, the serials and the packets.                              *)
Places ==
  /\ demuxState \in {"Idle", "Prepared", "Playing"} /\ dpc \in DemuxPcs
  /\ playerState \in PlayerStates /\ apc \in ApiPcs
  /\ andThen \in {"idle", "open", "play"}
  /\ rpc \in RefreshPcs /\ wpc \in [Streams -> WorkerPcs]

(* Folded, so that the provers need not look into the flags they copy.     *)
Truth == BOOLEAN

Flags ==
  /\ ctxOpen \in Truth /\ shouldStop \in Truth /\ startReading \in Truth
  /\ seekRequested \in Truth /\ seekCompleted \in Truth
  /\ eofReached \in Truth /\ seekJustDone \in Truth
  /\ running \in Truth /\ paused \in Truth /\ seekInProgress \in Truth
  /\ seekTarget \in [Streams -> Truth]
  /\ demuxerDone \in Truth /\ decodeDone \in [Streams -> Truth]
  /\ endTransitioning \in Truth /\ endRequested \in Truth
  /\ closed \in Truth
  /\ rPaused \in Truth /\ rPauseNext \in Truth /\ rCompleted \in Truth
  /\ wasPaused \in Truth /\ hasUrl \in Truth

Numbers ==
  /\ filePos \in 0 .. MediaLen
  /\ pendingTarget \in Positions /\ seekTo \in Positions
  /\ hand \in Positions \cup {NoPacket}
  /\ dpc \in {"deliver", "probe"} <=> hand # NoPacket

Counts ==
  /\ seekSerial \in Serials /\ readSerial \in Serials
  /\ tag \in Serials \cup {NoSerial}
  /\ calls \in [Ops -> Nat] /\ \A op \in Ops : calls[op] <= Budget[op]
  /\ claimSerial \in Serials /\ Counted

Contents ==
  /\ packets \in [Streams -> Seq(Packet)]
  /\ \A s \in Streams : Len(packets[s]) <= PacketCap
  /\ frames \in Seq(Packet) /\ Len(frames) <= FrameCap
  /\ whand \in [Streams -> Packet]

LEMMA TypeParts ==
  Types <=> Places /\ Flags /\ Numbers /\ Counts /\ Contents
BY DEF Types, TypeOK, DemuxTypeOK, Places, Flags, Truth, Numbers, Counts,
   Contents

LEMMA PlacesStep ==
  ASSUME TypeOK, [Next]_vars
  PROVE  Places'
<1> Places
  BY DEF TypeOK, DemuxTypeOK, Places
<1> USE DEF Places, DemuxPcs, PlayerStates, WorkerPcs, RefreshPcs, ApiPcs,
            demuxVars, ctlVars, endVars, queueVars, callVars, workerVars,
            refreshVars, localVars, Goto
<1>1. CASE OpenMedia
  BY <1>1 DEF OpenMedia, DemuxOpen
<1>2. CASE OpenFails
  BY <1>2 DEF OpenFails, DemuxOpenFails
<1>3. CASE PlayThreads
  BY <1>3 DEF PlayThreads, CreateThreads, EmptyQueues, ResetEnd
<1>4. CASE PlayDemux
  BY <1>4 DEF PlayDemux, DemuxStart, NotifyDemux
<1>5. CASE PlayDone \/ ResumeDone \/ PauseDone \/ SeekFinish
  BY <1>5 DEF PlayDone, ResumeDone, PauseDone, SeekFinish, EndCall
<1>6. CASE StopClose \/ StopRefresh \/ StopWorkers
  BY <1>6 DEF StopClose, CloseQueues, StopRefresh, StopWorkers
<1>7. CASE StopDemux \/ StopFinish
  BY <1>7 DEF StopDemux, DemuxStopSignal, NotifyDemux, StopFinish,
     DemuxStopJoin, EmptyQueues
<1>7a. CASE SeekStores
  BY <1>7a DEF SeekStores, StoreSerial, StoreTarget, ClearDone, ClearClaim,
     ClaimCleared, ClearRequest, NotSeek, NextSerial
<1>8. CASE SeekFlush \/ SeekFlushDecoders
  BY <1>8 DEF SeekFlush, EmptyQueues, SeekFlushDecoders
<1>9. CASE SeekCommand \/ SeekRefused
  BY <1>9 DEF SeekCommand, DemuxSeekSignal, CanSeek, NotifyDemux, SeekRefused
<1>10. CASE SeekAnswer \/ SeekClear
  BY <1>10 DEF SeekAnswer, SeekAnswered, SeekClear
<1>11. CASE SeekResume
  BY <1>11 DEF SeekResume, CreateThreads, EmptyQueues, DemuxStart, NotifyDemux
<1>12. CASE ApiCalls
  BY <1>12 DEF ApiCalls, CallOpen, PlayResume, PlayAgain, PlayPrepared,
     CallPause, CallStop, CallSeek, Call, StopThen
<1>13. CASE DemuxThread
  <2>1. dpc' \in DemuxPcs
    BY <1>13
       DEF DemuxThread, OnPacketTag, OnPacketPush, DemuxDelivered,
           OnEndOfStream, DemuxEof, Reposition, DemuxReposition,
           DemuxSeekFile, DemuxReopen, DemuxReopenFails, DemuxInternal,
           DemuxExit, DemuxSeesSeek, DemuxGate, DemuxRead, DemuxReadRetry,
           DemuxParkTest, DemuxPark, DemuxSeekDone
  <2>2. QED
    BY <1>13, <2>1, DemuxMoves
<1>14. ASSUME NEW s \in Streams, DecodeThread(s)
       PROVE  Places'
  BY <1>14, DecoderMoves DEF NotWorker
<1>15. CASE RefreshThread
  BY <1>15, RefreshMoves
     DEF NotRefresh, RefreshThread, RefreshExit, RefreshEnter, RefreshBack,
         RefreshPop, RefreshLate, RefreshShow, RefreshStarves, RefreshEnd,
         RefreshAgain
<1>16. CASE UNCHANGED vars
  BY <1>16 DEF vars
<1>17. QED
  BY <1>1, <1>2, <1>3, <1>4, <1>5, <1>6, <1>7, <1>7a, <1>8, <1>9, <1>10,
     <1>11, <1>12, <1>13, <1>14, <1>15, <1>16 DEF Next, LeftAlone, ApiContinues

LEMMA NumbersStep ==
  ASSUME TypeOK, Requests, dpc \in {"deliver", "probe"} <=> hand # NoPacket,
         [Next]_vars
  PROVE  Numbers'
<1> Numbers /\ 0 \in Positions /\ Targets \subseteq Positions
  BY MediaAssumption, PlayerAssumption
     DEF TypeOK, DemuxTypeOK, Numbers, MediaAssumption, PlayerAssumption,
         Positions
<1> MediaLen \in Nat
  BY MediaAssumption DEF MediaAssumption
<1> USE DEF Numbers, Positions, NoPacket, flagVars, demuxVars, localVars, Goto
<1>1. CASE OpenMedia
  BY <1>1 DEF OpenMedia, DemuxOpen
<1>2. CASE OpenFails
  BY <1>2 DEF OpenFails, DemuxOpenFails
<1>3. CASE PlayThreads
  BY <1>3 DEF PlayThreads, CreateThreads, EmptyQueues, ResetEnd
<1>4. CASE PlayDemux
  BY <1>4 DEF PlayDemux, DemuxStart, NotifyDemux
<1>5. CASE PlayDone \/ ResumeDone \/ PauseDone \/ SeekFinish
  BY <1>5 DEF PlayDone, ResumeDone, PauseDone, SeekFinish, EndCall
<1>6. CASE StopClose \/ StopRefresh \/ StopWorkers
  BY <1>6 DEF StopClose, CloseQueues, StopRefresh, StopWorkers
<1>7. CASE StopDemux \/ StopFinish
  BY <1>7 DEF StopDemux, DemuxStopSignal, NotifyDemux, StopFinish,
     DemuxStopJoin, EmptyQueues
<1>7a. CASE SeekStores
  BY <1>7a DEF SeekStores, StoreSerial, StoreTarget, ClearDone, ClearClaim,
     ClaimCleared, ClearRequest, NotSeek, NextSerial
<1>8. CASE SeekFlush \/ SeekFlushDecoders
  BY <1>8 DEF SeekFlush, EmptyQueues, SeekFlushDecoders
<1>9. CASE SeekCommand \/ SeekRefused
  BY <1>9 DEF SeekCommand, DemuxSeekSignal, CanSeek, NotifyDemux, SeekRefused
<1>10. CASE SeekAnswer \/ SeekClear
  BY <1>10 DEF SeekAnswer, SeekAnswered, SeekClear
<1>11. CASE SeekResume
  BY <1>11 DEF SeekResume, CreateThreads, EmptyQueues, DemuxStart, NotifyDemux
<1>12. CASE ApiCalls
  BY <1>12 DEF ApiCalls, CallOpen, PlayResume, PlayAgain, PlayPrepared,
     CallPause, CallStop, CallSeek
<1>13. CASE DemuxThread
  <2>1. CASE OnPacketTag \/ OnPacketPush
    BY <2>1 DEF OnPacketTag, OnPacketPush, DemuxDelivered
  <2>2. CASE OnEndOfStream
    BY <2>2 DEF OnEndOfStream, DemuxEof
  <2>3. CASE Reposition
    BY <2>3 DEF Reposition, DemuxReposition, DemuxSeekFile, DemuxReopen,
       DemuxReopenFails
  <2>4. CASE DemuxInternal /\ UNCHANGED seekTo
    BY <2>4 DEF DemuxInternal, DemuxExit, DemuxSeesSeek, DemuxGate, DemuxRead,
       DemuxReadRetry, DemuxParkTest, DemuxPark, DemuxSeekDone, MoreToRead
  <2>5. QED
    BY <1>13, <2>1, <2>2, <2>3, <2>4 DEF DemuxThread
<1>14. ASSUME NEW s \in Streams, DecodeThread(s)
       PROVE  Numbers'
  BY <1>14, DecoderMoves DEF NotWorker
<1>15. CASE RefreshThread
  BY <1>15, RefreshMoves DEF NotRefresh
<1>16. CASE UNCHANGED vars
  BY <1>16 DEF vars
<1>17. QED
  BY <1>1, <1>2, <1>3, <1>4, <1>5, <1>6, <1>7, <1>7a, <1>8, <1>9, <1>10,
     <1>11, <1>12, <1>13, <1>14, <1>15, <1>16 DEF Next, LeftAlone, ApiContinues

LEMMA CountsStep ==
  ASSUME TypeOK, Counted, [Next]_vars
  PROVE  Counts'
<1> Counts /\ Budget \in [Ops -> Nat]
  BY PlayerAssumption DEF TypeOK, Counts, PlayerAssumption
<1> USE DEF Counts, Counted, Serials, Ops, NoSerial,
            demuxVars, ctlVars, endVars, queueVars, callVars, workerVars,
            refreshVars, localVars, Goto
<1>1. CASE OpenMedia
  BY <1>1 DEF OpenMedia, DemuxOpen
<1>2. CASE OpenFails
  BY <1>2 DEF OpenFails, DemuxOpenFails
<1>3. CASE PlayThreads
  BY <1>3 DEF PlayThreads, CreateThreads, EmptyQueues, ResetEnd
<1>4. CASE PlayDemux
  BY <1>4 DEF PlayDemux, DemuxStart, NotifyDemux
<1>5. CASE PlayDone \/ ResumeDone \/ PauseDone \/ SeekFinish
  BY <1>5 DEF PlayDone, ResumeDone, PauseDone, SeekFinish, EndCall
<1>6. CASE StopClose \/ StopRefresh \/ StopWorkers
  BY <1>6 DEF StopClose, CloseQueues, StopRefresh, StopWorkers
<1>7. CASE StopDemux \/ StopFinish
  BY <1>7 DEF StopDemux, DemuxStopSignal, NotifyDemux, StopFinish,
     DemuxStopJoin, EmptyQueues
<1>7a. CASE SeekStores
  BY <1>7a DEF SeekStores, StoreSerial, StoreTarget, ClearDone, ClearClaim,
     ClaimCleared, ClearRequest, NotSeek, NextSerial
<1>8. CASE SeekFlush \/ SeekFlushDecoders
  BY <1>8 DEF SeekFlush, EmptyQueues, SeekFlushDecoders
<1>9. CASE SeekCommand \/ SeekRefused
  BY <1>9 DEF SeekCommand, DemuxSeekSignal, CanSeek, NotifyDemux, SeekRefused
<1>10. CASE SeekAnswer \/ SeekClear
  BY <1>10 DEF SeekAnswer, SeekAnswered, SeekClear
<1>11. CASE SeekResume
  BY <1>11 DEF SeekResume, CreateThreads, EmptyQueues, DemuxStart, NotifyDemux
<1>12. CASE CallOpen \/ PlayResume \/ PlayAgain \/ PlayPrepared
  BY <1>12 DEF CallOpen, PlayResume, PlayAgain, PlayPrepared, Call, StopThen
<1>13. CASE CallPause \/ CallStop \/ \E t \in Targets : CallSeek(t)
  BY <1>13 DEF CallPause, CallStop, CallSeek, Call, StopThen
<1>14. CASE DemuxThread
  BY <1>14, DemuxMoves DEF DemuxThread, OnPacketTag, OnPacketPush,
     OnEndOfStream, Reposition
<1>15. ASSUME NEW s \in Streams, DecodeThread(s)
       PROVE  Counts'
  BY <1>15, DecoderMoves DEF NotWorker
<1>16. CASE RefreshThread
  BY <1>16, RefreshMoves DEF NotRefresh
<1>17. CASE UNCHANGED vars
  BY <1>17 DEF vars
<1>18. QED
  BY <1>1, <1>2, <1>3, <1>4, <1>5, <1>6, <1>7, <1>7a, <1>8, <1>9, <1>10,
     <1>11, <1>12, <1>13, <1>14, <1>15, <1>16, <1>17 DEF Next, LeftAlone,
     ApiContinues, ApiCalls

LEMMA FlagsStep ==
  ASSUME TypeOK, [Next]_vars
  PROVE  Flags'
<1> Flags
  BY DEF TypeOK, DemuxTypeOK, Flags, Truth
<1> /\ TRUE \in Truth /\ FALSE \in Truth
    /\ (rPaused /\ rpc = "none") \in Truth
         /\ (rPaused \/ rpc # "none") \in Truth
    /\ (rPaused \/ rPauseNext) \in Truth /\ (playerState = "Paused") \in Truth
    /\ (seekJustDone /\ ~startReading) \in Truth
  BY DEF Truth
<1> USE DEF Flags, flagVars, demuxVars, ctlVars, endVars, queueVars, callVars,
            workerVars, refreshVars, localVars, Goto
<1>1. CASE OpenMedia
  BY <1>1 DEF OpenMedia, DemuxOpen
<1>2. CASE OpenFails
  BY <1>2 DEF OpenFails, DemuxOpenFails
<1>3. CASE PlayThreads
  BY <1>3 DEF PlayThreads, CreateThreads, EmptyQueues, ResetEnd
<1>4. CASE PlayDemux
  BY <1>4 DEF PlayDemux, DemuxStart, NotifyDemux
<1>5. CASE PlayDone \/ ResumeDone \/ PauseDone \/ SeekFinish
  BY <1>5 DEF PlayDone, ResumeDone, PauseDone, SeekFinish, EndCall
<1>6. CASE StopClose \/ StopRefresh \/ StopWorkers
  BY <1>6 DEF StopClose, CloseQueues, StopRefresh, StopWorkers
<1>7. CASE StopDemux \/ StopFinish
  BY <1>7 DEF StopDemux, DemuxStopSignal, NotifyDemux, StopFinish,
     DemuxStopJoin, EmptyQueues
<1>7a. CASE SeekStores
  BY Zenon, <1>7a DEF SeekStores, StoreSerial, StoreTarget, ClearDone,
     ClearClaim, ClaimCleared, ClearRequest, NotSeek, NextSerial
<1>8. CASE SeekFlush \/ SeekFlushDecoders
  BY <1>8 DEF SeekFlush, EmptyQueues, SeekFlushDecoders
<1>9. CASE SeekCommand \/ SeekRefused
  BY <1>9 DEF SeekCommand, DemuxSeekSignal, CanSeek, NotifyDemux, SeekRefused
<1>10. CASE SeekAnswer \/ SeekClear
  BY <1>10 DEF SeekAnswer, SeekAnswered, SeekClear
<1>11. CASE SeekResume
  BY <1>11 DEF SeekResume, CreateThreads, EmptyQueues, DemuxStart, NotifyDemux
<1>12. CASE CallOpen \/ PlayResume \/ PlayAgain \/ PlayPrepared
  BY <1>12 DEF CallOpen, PlayResume, PlayAgain, PlayPrepared
<1>13. CASE CallPause \/ CallStop \/ \E t \in Targets : CallSeek(t)
  BY <1>13 DEF CallPause, CallStop, CallSeek, ResetEnd
<1>14. CASE OnPacketTag \/ OnPacketPush \/ OnEndOfStream
  BY <1>14 DEF OnPacketTag, OnPacketPush, DemuxDelivered, OnEndOfStream,
     DemuxEof
<1>15. CASE Reposition
  BY <1>15 DEF Reposition, DemuxReposition, DemuxSeekFile, DemuxReopen,
     DemuxReopenFails
<1>16. ASSUME DemuxInternal,
              UNCHANGED <<ctlVars, endVars, closed, refreshVars, localVars>>
       PROVE  Flags'
  <2>1. CASE DemuxExit \/ DemuxSeesSeek \/ DemuxGate
    BY <1>16, <2>1 DEF DemuxExit, DemuxSeesSeek, DemuxGate
  <2>2. CASE DemuxRead \/ DemuxReadRetry
    BY <1>16, <2>2 DEF DemuxRead, DemuxReadRetry
  <2>3. CASE DemuxParkTest \/ DemuxPark \/ DemuxSeekDone
    BY <1>16, <2>3 DEF DemuxParkTest, DemuxPark, DemuxSeekDone
  <2>4. QED
    BY <1>16, <2>1, <2>2, <2>3 DEF DemuxInternal
<1>17. ASSUME NEW s \in Streams, DecodeThread(s)
       PROVE  Flags'
  <2> NotWorker
    BY <1>17, DecoderMoves
  <2> USE DEF NotWorker
  <2>1. CASE WorkerExit(s) \/ WorkerEnter(s) \/ WorkerBack(s)
               \/ WorkerStarves(s)
    BY <2>1 DEF WorkerExit, WorkerEnter, WorkerBack, WorkerStarves
  <2>2. CASE WorkerPop(s)
    BY <2>2 DEF WorkerPop
  <2>3. CASE WorkerDone(s) \/ WorkerAsks(s) \/ WorkerClaim(s)
               \/ WorkerRequest(s)
    BY <2>3 DEF WorkerDone, WorkerAsks, WorkerClaim, WorkerRequest,
       RequestEnd
  <2>4. CASE WorkerFeed(s) \/ WorkerDecoded(s) \/ WorkerClear(s)
               \/ WorkerOut(s)
    BY <2>4 DEF WorkerFeed, WorkerDecoded, WorkerClear, WorkerOut
  <2>5. QED
    BY <1>17, <2>1, <2>2, <2>3, <2>4 DEF DecodeThread
<1>18. CASE RefreshThread
  <2> NotRefresh
    BY <1>18, RefreshMoves
  <2> USE DEF NotRefresh
  <2>1. CASE RefreshExit \/ RefreshEnter \/ RefreshBack \/ RefreshPop
    BY <2>1 DEF RefreshExit, RefreshEnter, RefreshBack, RefreshPop
  <2>2. CASE RefreshLate \/ RefreshShow \/ RefreshStarves \/ RefreshEnd
    BY <2>2 DEF RefreshLate, RefreshShow, RefreshStarves, RefreshEnd
  <2>3. QED
    BY <1>18, <2>1, <2>2 DEF RefreshThread
<1>19. CASE UNCHANGED vars
  BY <1>19 DEF vars
<1>20. QED
  BY <1>1, <1>2, <1>3, <1>4, <1>5, <1>6, <1>7, <1>7a, <1>8, <1>9, <1>10,
     <1>11, <1>12, <1>13, <1>14, <1>15, <1>16, <1>17, <1>18, <1>19
     DEF Next, LeftAlone, ApiContinues, ApiCalls, DemuxThread

-----------------------------------------------------------------------------
(* Sequences of packets: what is taken from the front and put at the back. *)
LEMMA PacketInts ==
  /\ \A p \in Packet : p.serial \in Int /\ p.read \in Int
  /\ NoHand \in Packet /\ \A n \in Serials : n \in Nat
BY PlayerAssumption DEF Packet, Serials, NoHand, PlayerAssumption, Ops

LEMMA TailOf ==
  ASSUME NEW q \in Seq(Packet), q # <<>>
  PROVE  /\ Tail(q) \in Seq(Packet) /\ Len(Tail(q)) = Len(q) - 1
         /\ Len(q) \in Nat \ {0} /\ Head(q) = q[1] /\ Head(q) \in Packet
         /\ \A i \in 1 .. Len(q) : q[i] \in Packet
         /\ \A i \in 1 .. Len(Tail(q)) : Tail(q)[i] = q[i + 1]
              /\ i + 1 \in 1 .. Len(q)
OBVIOUS

LEMMA AppendOf ==
  ASSUME NEW q \in Seq(Packet), NEW p \in Packet
  PROVE  /\ Append(q, p) \in Seq(Packet) /\ Len(Append(q, p)) = Len(q) + 1
         /\ Len(q) \in Nat
         /\ \A i \in 1 .. Len(q) : q[i] \in Packet
         /\ \A i \in 1 .. Len(Append(q, p)) :
              Append(q, p)[i] = IF i <= Len(q) THEN q[i] ELSE p
OBVIOUS

LEMMA TailKeeps ==
  ASSUME NEW q \in Seq(Packet), q # <<>>
  PROVE  /\ AllNear(q) => AllNear(Tail(q)) /\ NearRead(Head(q))
         /\ \A n : NoneLater(q, n)
              => NoneLater(Tail(q), n) /\ Head(q).serial <= n
         /\ \A n : NoneEarlier(q, n) => NoneEarlier(Tail(q), n)
         /\ Ascending(q)
              => Ascending(Tail(q)) /\ NoneEarlier(Tail(q), Head(q).serial)
         /\ \A r : Before(q, r) => Before(Tail(q), r)
         /\ \A r : Before(r, q)
              => Before(r, Tail(q)) /\ NoneLater(r, Head(q).serial)
<1> USE TailOf
<1>1. AllNear(q) => AllNear(Tail(q)) /\ NearRead(Head(q))
  BY DEF AllNear
<1>2. \A n : NoneLater(q, n) => NoneLater(Tail(q), n) /\ Head(q).serial <= n
  BY DEF NoneLater
<1>3. \A n : NoneEarlier(q, n) => NoneEarlier(Tail(q), n)
  BY DEF NoneEarlier
<1>4. Ascending(q)
        => Ascending(Tail(q)) /\ NoneEarlier(Tail(q), Head(q).serial)
  BY DEF Ascending, NoneEarlier
<1>5. \A r : Before(q, r) => Before(Tail(q), r)
  BY DEF Before
<1>6. \A r : Before(r, q) => Before(r, Tail(q)) /\ NoneLater(r, Head(q).serial)
  BY DEF Before, NoneLater
<1>7. QED
  BY <1>1, <1>2, <1>3, <1>4, <1>5, <1>6

LEMMA AppendKeeps ==
  ASSUME NEW q \in Seq(Packet), NEW p \in Packet
  PROVE  /\ AllNear(q) /\ NearRead(p) => AllNear(Append(q, p))
         /\ \A n : NoneLater(q, n) /\ p.serial <= n
              => NoneLater(Append(q, p), n)
         /\ \A n : NoneEarlier(q, n) /\ n <= p.serial
              => NoneEarlier(Append(q, p), n)
         /\ Ascending(q) /\ NoneLater(q, p.serial) => Ascending(Append(q, p))
         /\ \A r : Before(q, r) /\ NoneEarlier(r, p.serial)
              => Before(Append(q, p), r)
         /\ \A r : Before(r, q) /\ NoneLater(r, p.serial)
              => Before(r, Append(q, p))
<1> USE AppendOf
<1>1. AllNear(q) /\ NearRead(p) => AllNear(Append(q, p))
  BY DEF AllNear
<1>2. \A n : NoneLater(q, n) /\ p.serial <= n => NoneLater(Append(q, p), n)
  BY DEF NoneLater
<1>3. \A n : NoneEarlier(q, n) /\ n <= p.serial => NoneEarlier(Append(q, p), n)
  BY DEF NoneEarlier
<1>4. Ascending(q) /\ NoneLater(q, p.serial) => Ascending(Append(q, p))
  BY PacketInts DEF Ascending, NoneLater
<1>5. \A r : Before(q, r) /\ NoneEarlier(r, p.serial)
        => Before(Append(q, p), r)
  BY DEF Before, NoneEarlier
<1>6. \A r : Before(r, q) /\ NoneLater(r, p.serial) => Before(r, Append(q, p))
  BY DEF Before, NoneLater
<1>7. QED
  BY <1>1, <1>2, <1>3, <1>4, <1>5, <1>6

LEMMA LaterBound ==
  ASSUME NEW q \in Seq(Packet), NEW m \in Int, NEW n \in Int, m <= n,
         NoneLater(q, m)
  PROVE  NoneLater(q, n)
<1> SUFFICES ASSUME NEW i \in 1 .. Len(q)
             PROVE  q[i].serial <= n
  BY DEF NoneLater
<1>1. q[i] \in Packet
  OBVIOUS
<1>2. QED
  BY <1>1, PacketInts DEF NoneLater

(* No packet is before, after or out of order in an empty queue.           *)
LEMMA EmptyKeeps ==
  /\ AllNear(<<>>) /\ Ascending(<<>>)
  /\ \A n : NoneLater(<<>>, n) /\ NoneEarlier(<<>>, n)
  /\ \A q : Before(<<>>, q) /\ Before(q, <<>>)
BY DEF AllNear, Ascending, NoneLater, NoneEarlier, Before

-----------------------------------------------------------------------------
(* What a step of each thread does to the packets.                         *)
Empties == frames' = <<>> /\ packets' = [s \in Streams |-> <<>>]

LEMMA ApiContents ==
  ASSUME TypeOK, ApiCalls \/ ApiContinues
  PROVE  /\ UNCHANGED <<whand, tag>>
         /\ UNCHANGED <<packets, frames>> \/ Empties
         /\ wpc' = wpc \/ \A s \in Streams : wpc'[s] \in {"loop", "none"}
         /\ demuxState' = "Idle" => demuxState = "Idle" \/ Empties
<1> USE DEF Empties, EmptyQueues, queueVars, callVars, workerVars, demuxVars
<1>1. CASE OpenMedia
  BY <1>1 DEF OpenMedia, DemuxOpen
<1>2. CASE OpenFails
  BY <1>2 DEF OpenFails, DemuxOpenFails
<1>3. CASE PlayThreads
  BY <1>3 DEF PlayThreads, CreateThreads, EmptyQueues, ResetEnd
<1>4. CASE PlayDemux
  BY <1>4 DEF PlayDemux, DemuxStart, NotifyDemux
<1>5. CASE PlayDone \/ ResumeDone \/ PauseDone \/ SeekFinish
  BY <1>5 DEF PlayDone, ResumeDone, PauseDone, SeekFinish, EndCall
<1>6. CASE StopClose \/ StopRefresh \/ StopWorkers
  BY <1>6 DEF StopClose, CloseQueues, StopRefresh, StopWorkers
<1>7. CASE StopDemux \/ StopFinish
  BY <1>7 DEF StopDemux, DemuxStopSignal, NotifyDemux, StopFinish,
     DemuxStopJoin, EmptyQueues
<1>7a. CASE SeekStores
  BY <1>7a DEF SeekStores, StoreSerial, StoreTarget, ClearDone, ClearClaim,
     ClaimCleared, ClearRequest, NotSeek, NextSerial
<1>8. CASE SeekFlush \/ SeekFlushDecoders
  BY <1>8 DEF SeekFlush, EmptyQueues, SeekFlushDecoders
<1>9. CASE SeekCommand \/ SeekRefused
  BY <1>9 DEF SeekCommand, DemuxSeekSignal, CanSeek, NotifyDemux, SeekRefused
<1>10. CASE SeekAnswer \/ SeekClear
  BY <1>10 DEF SeekAnswer, SeekAnswered, SeekClear
<1>11. CASE SeekResume
  BY <1>11 DEF SeekResume, CreateThreads, EmptyQueues, DemuxStart, NotifyDemux
<1>12. CASE ApiCalls
  BY <1>12 DEF ApiCalls, CallOpen, PlayResume, PlayAgain, PlayPrepared,
     CallPause, CallStop, CallSeek
<1>13. QED
  BY <1>1, <1>2, <1>3, <1>4, <1>5, <1>6, <1>7, <1>7a, <1>8, <1>9, <1>10,
     <1>11, <1>12 DEF ApiContinues

(* The decode thread takes a packet in its hands, drops it from the queue, *)
(* keeps what it has, lets go of it, or passes it on.                      *)
Released(s) ==
  whand' = [whand EXCEPT ![s] = NoHand] /\ ~Hold(wpc'[s])

Takes(s) ==
  /\ ~Hold(wpc[s]) /\ packets[s] # <<>>
  /\ packets' = [packets EXCEPT ![s] = Tail(packets[s])] /\ UNCHANGED frames
  /\ whand' = [whand EXCEPT ![s] = Head(packets[s])] /\ wpc'[s] = "decode"

Skips(s) ==
  /\ packets[s] # <<>>
  /\ packets' = [packets EXCEPT ![s] = Tail(packets[s])] /\ UNCHANGED frames
  /\ Released(s)

Keeps(s) ==
  /\ UNCHANGED <<packets, frames, whand>>
  /\ Hold(wpc'[s]) => Hold(wpc[s])
  /\ wpc'[s] = "out" => s = "video"

LetsGo(s) == UNCHANGED <<packets, frames>> /\ Released(s)

PassesOn(s) ==
  /\ wpc[s] = "out" /\ FrameRoom
  /\ UNCHANGED packets /\ frames' = Append(frames, whand[s])
  /\ Released(s)

LEMMA DecoderContents ==
  ASSUME TypeOK, NEW s \in Streams, DecodeThread(s)
  PROVE  Takes(s) \/ Skips(s) \/ Keeps(s) \/ LetsGo(s) \/ PassesOn(s)
<1> wpc \in [Streams -> WorkerPcs] /\ s \in {"video", "audio"}
  BY DEF TypeOK, Streams
<1> USE DEF Jump, Again, Released, Hold
<1>1. CASE WorkerExit(s) \/ WorkerEnter(s) \/ WorkerBack(s) \/ WorkerStarves(s)
  BY <1>1 DEF WorkerExit, WorkerEnter, WorkerBack, WorkerStarves, Keeps, LetsGo
<1>2. CASE WorkerPop(s)
  BY <1>2 DEF WorkerPop, Takes, Skips
<1>3. CASE WorkerDone(s) \/ WorkerAsks(s) \/ WorkerClaim(s) \/ WorkerRequest(s)
  BY <1>3 DEF WorkerDone, WorkerAsks, WorkerClaim, WorkerRequest, Keeps,
     LetsGo, EndTests, NextTest
<1>4. CASE WorkerFeed(s) \/ WorkerDecoded(s) \/ WorkerClear(s)
  BY <1>4 DEF WorkerFeed, WorkerDecoded, WorkerClear, Keeps, LetsGo
<1>5. CASE WorkerOut(s)
  BY <1>5 DEF WorkerOut, LetsGo, PassesOn
<1>6. QED
  BY <1>1, <1>2, <1>3, <1>4, <1>5 DEF DecodeThread

LEMMA RefreshContents ==
  ASSUME RefreshThread
  PROVE  UNCHANGED frames \/ (frames # <<>> /\ frames' = Tail(frames))
BY DEF RefreshThread, RefreshExit, RefreshEnter, RefreshBack, RefreshPop,
   RefreshLate, RefreshShow, RefreshStarves, RefreshEnd

(* onPacket puts a packet of serial tag at the back of its queue.          *)
Arrived == [serial |-> tag, read |-> readSerial]

Arrives(s) ==
  /\ tag # NoSerial /\ Len(packets[s]) < PacketCap
  /\ packets' = [packets EXCEPT ![s] = Append(packets[s], Arrived)]

LEMMA DemuxContents ==
  ASSUME TypeOK, dpc \in {"deliver", "probe"} <=> hand # NoPacket, DemuxThread
  PROVE  \/ UNCHANGED <<packets, tag>>
         \/ UNCHANGED packets /\ tag' \in {seekSerial, NoSerial}
         \/ tag' = NoSerial /\ \E s \in Streams : Arrives(s)
<1> USE DEF queueVars, callVars
<1>1. CASE OnPacketPush
  <2>1. hand \in Positions
    BY <1>1 DEF OnPacketPush, DemuxDelivered, TypeOK, DemuxTypeOK
  <2>2. StreamOf[hand] \in Streams
    BY <2>1, PlayerAssumption DEF PlayerAssumption
  <2>3. QED
    BY <1>1, <2>2 DEF OnPacketPush, Arrives, Arrived
<1>2. CASE OnPacketTag
  BY <1>2 DEF OnPacketTag
<1>3. CASE OnEndOfStream \/ Reposition
  BY <1>3 DEF OnEndOfStream, Reposition
<1>4. QED
  BY <1>1, <1>2, <1>3 DEF DemuxThread

-----------------------------------------------------------------------------
(* The queues hold packets, no more than they may.                         *)
LEMMA ContentsStep ==
  ASSUME Types, [Next]_vars
  PROVE  Contents'
<1> /\ Contents /\ TypeOK /\ readSerial \in Serials
    /\ dpc \in {"deliver", "probe"} <=> hand # NoPacket
    /\ PacketCap \in Nat /\ FrameCap \in Nat /\ tag \in Serials \cup {NoSerial}
  BY TypeParts, PlayerAssumption DEF Types, TypeOK, PlayerAssumption
<1> SUFFICES Contents'
  OBVIOUS
<1>1. CASE ApiCalls \/ ApiContinues
  <2>1. <<>> \in Seq(Packet) /\ Len(<<>>) = 0
    OBVIOUS
  <2>2. CASE UNCHANGED <<packets, frames>>
    BY <1>1, <2>2, ApiContents DEF Contents
  <2>3. CASE Empties
    BY <1>1, <2>1, <2>3, ApiContents DEF Contents, Empties
  <2>4. QED
    BY <1>1, <2>2, <2>3, ApiContents
<1>2. CASE DemuxThread
  <2>1. UNCHANGED <<frames, whand>>
    BY <1>2, DemuxMoves DEF workerVars
  <2>2. CASE UNCHANGED packets
    BY <2>1, <2>2 DEF Contents
  <2>3. ASSUME NEW s \in Streams, Arrives(s)
        PROVE  Contents'
    <3>1. packets[s] \in Seq(Packet) /\ Arrived \in Packet
      BY <2>3 DEF Contents, Arrives, Arrived, Packet
    <3>2. /\ Append(packets[s], Arrived) \in Seq(Packet)
          /\ Len(Append(packets[s], Arrived)) <= PacketCap
      BY <2>3, <3>1, AppendOf DEF Arrives
    <3>3. QED
      BY <2>1, <2>3, <3>2 DEF Arrives, Contents
  <2>4. QED
    BY <1>2, <2>2, <2>3, DemuxContents
<1>3. ASSUME NEW s \in Streams, DecodeThread(s)
      PROVE  Contents'
  <2> /\ packets[s] \in Seq(Packet) /\ whand[s] \in Packet
      /\ NoHand \in Packet
    BY PacketInts DEF Contents
  <2>1. ASSUME packets[s] # <<>>
        PROVE  /\ Tail(packets[s]) \in Seq(Packet)
               /\ Len(Tail(packets[s])) <= PacketCap
               /\ Head(packets[s]) \in Packet
    BY <2>1, TailOf DEF Contents
  <2>2. CASE Takes(s)
    BY <2>1, <2>2 DEF Takes, Contents
  <2>3. CASE Skips(s)
    BY <2>1, <2>3 DEF Skips, Released, Contents
  <2>4. CASE Keeps(s) \/ LetsGo(s)
    BY <2>4 DEF Keeps, LetsGo, Released, Contents
  <2>5. CASE PassesOn(s)
    <3>1. /\ Append(frames, whand[s]) \in Seq(Packet)
          /\ Len(Append(frames, whand[s])) <= FrameCap
      BY <2>5, AppendOf DEF PassesOn, FrameRoom, Contents
    <3>2. QED
      BY <2>5, <3>1 DEF PassesOn, Released, Contents
  <2>6. QED
    BY <1>3, <2>2, <2>3, <2>4, <2>5, DecoderContents
<1>4. CASE RefreshThread
  <2>1. UNCHANGED <<packets, whand>>
    BY <1>4, RefreshMoves DEF NotRefresh, workerVars
  <2>2. frames # <<>> => Tail(frames) \in Seq(Packet)
                         /\ Len(Tail(frames)) <= FrameCap
    BY TailOf DEF Contents
  <2>3. QED
    BY <1>4, <2>1, <2>2, RefreshContents DEF Contents
<1>5. CASE UNCHANGED vars
  BY <1>5 DEF vars, queueVars, workerVars, Contents
<1>6. QED
  BY <1>1, <1>2, <1>3, <1>4, <1>5 DEF Next, LeftAlone

LEMMA TypesStep ==
  ASSUME Types, Requests, [Next]_vars
  PROVE  Types'
<1>1. Places' /\ Flags' /\ Numbers' /\ Counts' /\ Contents'
  BY PlacesStep, FlagsStep, NumbersStep, CountsStep, ContentsStep DEF Types
<1>2. QED
  BY <1>1 DEF Types, TypeOK, DemuxTypeOK, Places, Flags, Truth, Numbers,
     Counts, Contents

-----------------------------------------------------------------------------
(* The queues of an Idle player.                                           *)
LEMMA EmptiedStep ==
  ASSUME TypeOK, Session, Emptied, [Next]_vars
  PROVE  Emptied'
<1> USE DEF Emptied
<1>1. CASE ApiCalls \/ ApiContinues
  BY <1>1, ApiContents DEF Empties
<1>2. CASE DemuxThread
  BY <1>2, DemuxMoves DEF Session
<1>3. ASSUME NEW s \in Streams, DecodeThread(s)
      PROVE  Emptied'
  BY <1>3, DecoderMoves DEF Session, NoDecoders, NotWorker, demuxVars
<1>4. CASE RefreshThread
  BY <1>4, RefreshMoves DEF Session, NotRefresh, demuxVars
<1>5. CASE UNCHANGED vars
  BY <1>5 DEF vars, demuxVars, queueVars
<1>6. QED
  BY <1>1, <1>2, <1>3, <1>4, <1>5 DEF Next, LeftAlone

-----------------------------------------------------------------------------
(* The two serials of a packet.                                            *)
LEMMA NearStep ==
  ASSUME Types, Positioned, Near, [Next]_vars
  PROVE  Near'
<1> TypeOK /\ Contents /\ NearRead(NoHand)
  BY TypeParts DEF Types, NearRead, NoHand
<1> USE DEF Near
<1>1. CASE ApiCalls \/ ApiContinues
  BY <1>1, ApiContents, EmptyKeeps DEF Empties
<1>2. CASE DemuxThread
  <2>1. UNCHANGED <<frames, whand>>
    BY <1>2, DemuxMoves DEF workerVars
  <2>2. CASE UNCHANGED packets
    BY <2>1, <2>2
  <2>3. ASSUME NEW s \in Streams, Arrives(s)
        PROVE  Near'
    <3>1. NearRead(Arrived) /\ Arrived \in Packet /\ packets[s] \in Seq(Packet)
      BY <2>3
         DEF Arrives, Arrived, NearRead, Positioned, TypeOK, Packet, Contents
    <3>2. AllNear(Append(packets[s], Arrived))
      BY <3>1, AppendKeeps
    <3>3. packets \in [Streams -> Seq(Packet)]
      BY DEF Contents
    <3>4. QED
      BY <2>1, <2>3, <3>2, <3>3 DEF Arrives
  <2>4. QED
    BY <1>2, <2>2, <2>3, DemuxContents DEF Types
<1>3. ASSUME NEW s \in Streams, DecodeThread(s)
      PROVE  Near'
  <2> /\ packets \in [Streams -> Seq(Packet)] /\ packets[s] \in Seq(Packet)
      /\ whand \in [Streams -> Packet] /\ whand[s] \in Packet
      /\ frames \in Seq(Packet)
    BY DEF Contents
  <2>1. packets[s] # <<>> =>
          AllNear(Tail(packets[s])) /\ NearRead(Head(packets[s]))
    BY TailKeeps
  <2>2. AllNear(Append(frames, whand[s]))
    BY AppendKeeps
  <2>3. QED
    BY <1>3, <2>1, <2>2, DecoderContents
       DEF Takes, Skips, Keeps, LetsGo, PassesOn, Released
<1>4. CASE RefreshThread
  <2>1. frames # <<>> => AllNear(Tail(frames))
    BY TailKeeps DEF Contents
  <2>2. QED
    BY <1>4, <2>1, RefreshContents, RefreshMoves DEF NotRefresh, workerVars
<1>5. CASE UNCHANGED vars
  BY <1>5 DEF vars, queueVars, workerVars
<1>6. QED
  BY <1>1, <1>2, <1>3, <1>4, <1>5 DEF Next, LeftAlone

-----------------------------------------------------------------------------
(* The generations.                                                        *)
LEMMA SerialGrows ==
  ASSUME TypeOK, ApiCalls \/ ApiContinues
  PROVE  seekSerial' \in {seekSerial, seekSerial + 1}
<1> USE DEF ctlVars
<1>1. CASE OpenMedia
  BY <1>1 DEF OpenMedia, DemuxOpen
<1>2. CASE OpenFails
  BY <1>2 DEF OpenFails, DemuxOpenFails
<1>3. CASE PlayThreads
  BY <1>3 DEF PlayThreads, CreateThreads, EmptyQueues, ResetEnd
<1>4. CASE PlayDemux
  BY <1>4 DEF PlayDemux, DemuxStart, NotifyDemux
<1>5. CASE PlayDone \/ ResumeDone \/ PauseDone \/ SeekFinish
  BY <1>5 DEF PlayDone, ResumeDone, PauseDone, SeekFinish, EndCall
<1>6. CASE StopClose \/ StopRefresh \/ StopWorkers
  BY <1>6 DEF StopClose, CloseQueues, StopRefresh, StopWorkers
<1>7. CASE StopDemux \/ StopFinish
  BY <1>7 DEF StopDemux, DemuxStopSignal, NotifyDemux, StopFinish,
     DemuxStopJoin, EmptyQueues
<1>7a. CASE SeekStores
  BY <1>7a DEF SeekStores, StoreSerial, StoreTarget, ClearDone, ClearClaim,
     ClaimCleared, ClearRequest, NotSeek, NextSerial
<1>8. CASE SeekFlush \/ SeekFlushDecoders
  BY <1>8 DEF SeekFlush, EmptyQueues, SeekFlushDecoders
<1>9. CASE SeekCommand \/ SeekRefused
  BY <1>9 DEF SeekCommand, DemuxSeekSignal, CanSeek, NotifyDemux, SeekRefused
<1>10. CASE SeekAnswer \/ SeekClear
  BY <1>10 DEF SeekAnswer, SeekAnswered, SeekClear
<1>11. CASE SeekResume
  BY <1>11 DEF SeekResume, CreateThreads, EmptyQueues, DemuxStart, NotifyDemux
<1>12. CASE ApiCalls
  BY <1>12 DEF ApiCalls, CallOpen, PlayResume, PlayAgain, PlayPrepared,
     CallPause, CallStop, CallSeek, NextSerial
<1>13. QED
  BY <1>1, <1>2, <1>3, <1>4, <1>5, <1>6, <1>7, <1>7a, <1>8, <1>9, <1>10,
     <1>11, <1>12 DEF ApiContinues

LEMMA GenerationsStep ==
  ASSUME Types, Positioned, Generations, [Next]_vars
  PROVE  Generations'
<1> DEFINE queue == packets["video"]
           held  == whand["video"]
<1> /\ TypeOK /\ Contents /\ "video" \in Streams /\ "audio" \in Streams
    /\ seekSerial \in Nat /\ tag \in Nat \cup {NoSerial}
    /\ queue \in Seq(Packet) /\ held \in Packet /\ frames \in Seq(Packet)
    /\ held.serial \in Int
  BY TypeParts, PacketInts DEF Types, TypeOK, Streams, Contents
<1>1. CASE ApiCalls \/ ApiContinues
  <2>1. /\ whand' = whand /\ tag' = tag
        /\ UNCHANGED <<packets, frames>>
             \/ (frames' = <<>> /\ packets'["video"] = <<>>)
        /\ Hold(wpc'["video"]) => Hold(wpc["video"])
        /\ wpc'["audio"] # "out"
    BY <1>1, ApiContents DEF Empties, Hold, Generations, InLine
  <2>2. InLine'
    BY <2>1, EmptyKeeps DEF Generations, InLine
  <2>3. \A n : UpTo(n) => UpTo(n)'
    BY <2>1, EmptyKeeps DEF UpTo
  <2>4. UpTo(seekSerial) => UpTo(seekSerial + 1)
    BY LaterBound DEF UpTo
  <2>5. seekSerial' \in {seekSerial, seekSerial + 1}
    BY <1>1, SerialGrows
  <2>6. UpTo(seekSerial')
    BY <2>4, <2>5 DEF Generations
  <2>7. QED
    BY <2>1, <2>2, <2>3, <2>5, <2>6 DEF Generations
<1>2. CASE DemuxThread
  <2>1. /\ UNCHANGED <<frames, whand, wpc, seekSerial>>
        /\ InLine /\ UpTo(seekSerial)
        /\ tag # NoSerial => tag <= seekSerial /\ UpTo(tag)
    BY <1>2, DemuxMoves DEF workerVars, ctlVars, Generations
  <2>2. CASE UNCHANGED queue
    <3>1. InLine' /\ \A n : UpTo(n) => UpTo(n)'
      BY <2>1, <2>2 DEF InLine, UpTo
    <3>2. tag' \in {tag, seekSerial, NoSerial}
      BY <1>2, DemuxContents DEF Types
    <3>3. QED
      BY <2>1, <3>1, <3>2 DEF Generations
  <2>3. CASE Arrives("video") /\ tag' = NoSerial
    <3>1. /\ queue' = Append(queue, Arrived)
          /\ Arrived \in Packet /\ Arrived.serial = tag
          /\ UpTo(tag) /\ tag <= seekSerial /\ tag \in Nat
      BY <2>1, <2>3
         DEF Arrives, Arrived, Packet, Contents, TypeOK
    <3>2. UpTo(seekSerial)'
      BY <2>1, <3>1, AppendKeeps DEF UpTo
    <3>3. /\ Ascending(queue') /\ Before(frames, queue')
          /\ Hold(wpc["video"]) => NoneEarlier(queue', held.serial)
      BY <2>1, <3>1, AppendKeeps DEF UpTo, InLine
    <3>4. InLine'
      BY <2>1, <3>3 DEF InLine
    <3>5. QED
      BY <2>1, <2>3, <3>2, <3>4 DEF Generations
  <2>4. QED
    BY <1>2, <2>2, <2>3, DemuxContents DEF Types, Arrives, Streams, Contents
<1>3. ASSUME NEW s \in Streams, DecodeThread(s)
      PROVE  Generations'
  <2>1. UNCHANGED <<seekSerial, tag>>
    BY <1>3, DecoderMoves DEF NotWorker, callVars
  <2>2. SUFFICES InLine' /\ \A n \in Int : UpTo(n) => UpTo(n)'
    BY <2>1 DEF Generations
  <2>3. CASE s = "audio"
    <3>1. UNCHANGED <<queue, frames, held, wpc["video"]>>
            /\ wpc'["audio"] # "out"
      BY <1>3, <2>3, DecoderMoves, DecoderContents
         DEF Takes, Skips, Keeps, LetsGo, PassesOn, Released, Hold, Contents,
             Generations, InLine
    <3>2. QED
      BY <3>1 DEF Generations, InLine, UpTo
  <2>4. CASE s = "video"
    <3>1. wpc'["audio"] # "out" /\ InLine
      BY <1>3, <2>4, DecoderMoves DEF Generations, InLine
    <3>2. packets \in [Streams -> Seq(Packet)] /\ whand \in [Streams -> Packet]
      BY DEF Contents
    <3>3. CASE Takes(s)
      <4>1. /\ queue # <<>> /\ queue' = Tail(queue) /\ held' = Head(queue)
            /\ frames' = frames
        BY <2>4, <3>2, <3>3 DEF Takes
      <4>2. /\ Ascending(queue') /\ Before(frames, queue')
            /\ NoneLater(frames, held'.serial)
                 /\ NoneEarlier(queue', held'.serial)
        BY <3>1, <4>1, TailKeeps DEF InLine
      <4>3. \A n \in Int : UpTo(n) => UpTo(n)'
        BY <4>1, TailKeeps DEF UpTo
      <4>4. QED
        BY <3>1, <4>1, <4>2, <4>3 DEF InLine
    <3>4. CASE Skips(s)
      <4>1. /\ queue # <<>> /\ queue' = Tail(queue) /\ ~Hold(wpc'["video"])
            /\ frames' = frames
        BY <2>4, <3>2, <3>4 DEF Skips, Released
      <4>2. Ascending(queue') /\ Before(frames, queue')
        BY <3>1, <4>1, TailKeeps DEF InLine
      <4>3. \A n \in Int : UpTo(n) => UpTo(n)'
        BY <4>1, TailKeeps DEF UpTo
      <4>4. QED
        BY <3>1, <4>1, <4>2, <4>3 DEF InLine
    <3>5. CASE Keeps(s) \/ LetsGo(s)
      BY <2>4, <3>1, <3>5 DEF Keeps, LetsGo, Released, InLine, UpTo
    <3>6. CASE PassesOn(s)
      <4>1. /\ Hold(wpc["video"]) /\ ~Hold(wpc'["video"]) /\ queue' = queue
            /\ frames' = Append(frames, held)
        BY <2>4, <3>6 DEF PassesOn, Released, Hold
      <4>2. Ascending(frames') /\ Before(frames', queue)
        BY <3>1, <4>1, AppendKeeps DEF InLine
      <4>3. \A n \in Int : UpTo(n) => UpTo(n)'
        BY <4>1, AppendKeeps DEF UpTo
      <4>4. QED
        BY <3>1, <4>1, <4>2, <4>3 DEF InLine
    <3>7. QED
      BY <1>3, <3>3, <3>4, <3>5, <3>6, DecoderContents
  <2>5. QED
    BY <2>3, <2>4 DEF Streams
<1>4. CASE RefreshThread
  <2>1. UNCHANGED <<packets, whand, wpc, seekSerial, tag>>
    BY <1>4, RefreshMoves DEF NotRefresh, workerVars, ctlVars, callVars
  <2>2. CASE UNCHANGED frames
    BY <2>1, <2>2 DEF Generations, InLine, UpTo
  <2>3. CASE frames # <<>> /\ frames' = Tail(frames)
    <3>1. InLine'
      BY <2>1, <2>3, TailKeeps DEF Generations, InLine
    <3>2. \A n : UpTo(n) => UpTo(n)'
      BY <2>1, <2>3, TailKeeps DEF UpTo
    <3>3. QED
      BY <2>1, <3>1, <3>2 DEF Generations
  <2>4. QED
    BY <1>4, <2>2, <2>3, RefreshContents
<1>5. CASE UNCHANGED vars
  BY <1>5
     DEF vars, queueVars, workerVars, ctlVars, callVars, Generations, InLine,
         UpTo
<1>6. QED
  BY <1>1, <1>2, <1>3, <1>4, <1>5 DEF Next, LeftAlone

-----------------------------------------------------------------------------
(* The end of the media.                                                   *)
LEMMA EndChainStep ==
  ASSUME Types, Session, Stages, Requests, Positioned, EndChain, [Next]_vars
  PROVE  EndChain'
<1> SUFFICES ASSUME seekSerial' = 0
             PROVE  Unsought'
  BY DEF EndChain
<1> TypeOK /\ Contents
  BY TypeParts DEF Types
<1>1. UNCHANGED seekSerial
  <2>1. CASE ApiCalls \/ ApiContinues
    BY <2>1, SerialGrows, PacketInts DEF TypeOK
  <2>2. QED
    BY <2>1, DemuxMoves, DecoderMoves, RefreshMoves
       DEF Next, LeftAlone, NotWorker, NotRefresh, ctlVars, vars
<1>2. Unsought
  BY <1>1 DEF EndChain
<1> USE DEF demuxVars, ctlVars, endVars, queueVars, callVars, workerVars,
            refreshVars, localVars, Goto
<1>3. CASE ApiCalls
  BY <1>1, <1>2, <1>3
     DEF ApiCalls, CallOpen, PlayResume, PlayAgain, PlayPrepared, CallPause,
         CallStop, CallSeek, Call, StopThen, Unsought, Over, AtEnd,
         Behind
<1>4. CASE ApiContinues
  <2> USE <1>1, <1>2 DEF Unsought, Over, AtEnd, Behind, EndTests
  <2>1. CASE OpenMedia
    BY <2>1 DEF OpenMedia, DemuxOpen, Session, NoDecoders
  <2>2. CASE OpenFails
    BY <2>2 DEF OpenFails, DemuxOpenFails, Session, NoDecoders
  <2>3. CASE PlayThreads
    BY <2>3
       DEF PlayThreads, CreateThreads, EmptyQueues, ResetEnd, Session, Stages,
           NoDecoders
  <2>4. CASE PlayDemux
    BY <2>4 DEF PlayDemux, DemuxStart, NotifyDemux, Session, Stages
  <2>5. CASE PlayDone \/ ResumeDone \/ PauseDone
    BY <2>5 DEF PlayDone, ResumeDone, PauseDone, EndCall
  <2>6. CASE StopClose \/ StopRefresh \/ StopWorkers
    BY <2>6 DEF StopClose, CloseQueues, StopRefresh, StopWorkers, Stages
  <2>7. CASE StopDemux
    BY <2>7 DEF StopDemux, DemuxStopSignal, NotifyDemux, Stages, NoDecoders
  <2>8. CASE StopFinish
    BY <2>8
       DEF StopFinish, DemuxStopJoin, EmptyQueues, Session, Stages, NoDecoders
  <2>9. CASE SeekFlush \/ SeekFlushDecoders \/ SeekCommand \/ SeekRefused
               \/ SeekAnswer \/ SeekClear \/ SeekResume \/ SeekFinish
    BY <2>9
       DEF SeekFlush, SeekFlushDecoders, SeekCommand, SeekRefused, SeekAnswer,
           SeekClear, SeekResume, SeekFinish, EndCall
  <2>10. CASE SeekStores
    BY <2>10 DEF SeekStores, StoreSerial, StoreTarget, ClearDone, ClearClaim,
       ClearRequest, NotSeek, NextSerial, TypeOK, Serials
  <2>11. QED
    BY <1>4, <2>1, <2>2, <2>3, <2>4, <2>5, <2>6, <2>7, <2>8, <2>9, <2>10
       DEF ApiContinues
<1>5. CASE DemuxThread
  <2>1. /\ UNCHANGED <<demuxState, shouldStop, seekSerial, decodeDone,
                       endRequested, frames, wpc, rpc, apc>>
        /\ dpc # "none" /\ dpc' # "none" /\ ~seekRequested
    BY <1>2, <1>5, DemuxMoves DEF Requests, Unsought, Behind
  <2>2. CASE demuxerDone
    <3>1. /\ AtEnd /\ ~startReading
          /\ dpc \notin {"read", "deliver", "probe", "seek", "seekDone"}
      BY <1>2, <2>1, <2>2 DEF Unsought, AtEnd
    <3>2. DemuxInternal /\ UNCHANGED <<demuxerDone, packets, tag>>
      BY <1>5, <3>1
         DEF DemuxThread, OnPacketTag, OnPacketPush, DemuxDelivered, AtEnd,
             OnEndOfStream, DemuxEof, Reposition, DemuxReposition,
             DemuxSeekFile, DemuxReopen, DemuxReopenFails
    <3>3. AtEnd' /\ (startReading' => startReading)
      BY <2>1, <3>1, <3>2
         DEF AtEnd, flagVars, DemuxInternal, DemuxExit, DemuxSeesSeek,
             DemuxGate, DemuxRead, DemuxReadRetry, DemuxParkTest, DemuxPark,
             DemuxSeekDone, WakeReasons
    <3>4. QED
      BY <1>2, <2>1, <2>2, <3>2, <3>3 DEF Unsought, Over
  <2>3. CASE ~demuxerDone
    <3>1. \A s \in Streams :
            wpc[s] # "none" => ~decodeDone[s] /\ wpc[s] # "setDone"
      BY <1>2, <2>3 DEF Unsought, Over
    <3>2. CASE OnEndOfStream
      <4>1. demuxerDone' /\ AtEnd'
        BY <3>2 DEF OnEndOfStream, DemuxEof, AtEnd, Types, Positioned, flagVars
      <4>2. startReading' => startReading
        BY <3>2 DEF OnEndOfStream, DemuxEof, flagVars
      <4>3. ~startReading /\ apc # "playDemux"
        BY <1>2, <3>2 DEF Unsought, OnEndOfStream, DemuxEof, Session, Stages
      <4>4. QED
        BY <1>2, <2>1, <3>1, <4>1, <4>2, <4>3 DEF Unsought, Over
    <3>3. CASE ~OnEndOfStream
      <4>1. ~demuxerDone'
        BY <1>5, <2>3, <3>3 DEF DemuxThread, OnPacketTag, OnPacketPush,
           Reposition
      <4>2. startReading' => startReading /\ dpc' \in {"loop", "exited"}
        BY <1>2, <1>5, <2>1, <3>3
           DEF Unsought, flagVars, DemuxThread, OnPacketTag, OnPacketPush,
               DemuxDelivered, Reposition, DemuxReposition, DemuxSeekFile,
               DemuxReopen, DemuxReopenFails, DemuxInternal, DemuxExit,
               DemuxSeesSeek, DemuxGate, DemuxRead, DemuxReadRetry,
               DemuxParkTest, DemuxPark, DemuxSeekDone
      <4>3. QED
        BY <1>2, <2>1, <3>1, <4>1, <4>2 DEF Unsought, Over
    <3>4. QED
      BY <3>2, <3>3
  <2>4. QED
    BY <2>2, <2>3
<1>6. ASSUME NEW s \in Streams, DecodeThread(s)
      PROVE  Unsought'
  <2>1. /\ NotWorker /\ wpc[s] # "none" /\ wpc'[s] # "none"
        /\ \A t \in Streams : t # s => wpc'[t] = wpc[t]
    BY <1>6, DecoderMoves
  <2> USE DEF NotWorker
  <2> /\ wpc \in [Streams -> WorkerPcs] /\ decodeDone \in [Streams -> BOOLEAN]
      /\ packets \in [Streams -> Seq(Packet)]
    BY DEF TypeOK
  <2>2. CASE WorkerExit(s)
    BY <1>2, <2>1, <2>2 DEF WorkerExit, Jump, Unsought, Over, AtEnd
  <2>3. CASE WorkerEnter(s)
    BY <1>2, <2>1, <2>3 DEF WorkerEnter, Jump, Unsought, Over, AtEnd
  <2>4. CASE WorkerBack(s)
    BY <1>2, <2>1, <2>4 DEF WorkerBack, Jump, Unsought, Over, AtEnd
  <2>5. CASE WorkerStarves(s)
    BY <1>2, <2>1, <2>5 DEF WorkerStarves, InputOver, Jump, Unsought, Over,
       AtEnd
  <2>6. CASE WorkerPop(s)
    <3>1. /\ ~decodeDone[s] /\ wpc'[s] \in {"decode", "loop", "pop"}
          /\ \A t \in Streams : t # s => packets'[t] = packets[t]
          /\ ~decodeDone'[s]
          /\ \A t \in Streams : t # s => decodeDone'[t] = decodeDone[t]
      BY <1>2, <2>1, <2>6 DEF WorkerPop, Again, Jump, Unsought, Over
    <3>2. UNCHANGED <<endRequested, demuxerDone, frames, tag>>
      BY <2>6 DEF WorkerPop
    <3>3. QED
      BY <1>2, <2>1, <3>1, <3>2 DEF EndTests, Unsought, Over, AtEnd,
         Streams
  <2>7. CASE WorkerDone(s)
    BY <1>2, <2>1, <2>7 DEF WorkerDone, EndTests, Jump, Unsought, Over, AtEnd
  <2>7a. CASE WorkerAsks(s)
    BY <1>2, <2>1, <2>7a DEF WorkerAsks, EndTests, MayEnd, NextTest, Again,
       Jump, Unsought, Over, AtEnd
  <2>8. CASE WorkerClaim(s)
    BY <1>2, <2>1, <2>8 DEF WorkerClaim, Again, Jump, Unsought, Over, AtEnd,
       EndTests
  <2>9. CASE WorkerRequest(s)
    BY <1>2, <2>1, <2>9 DEF WorkerRequest, RequestEnd, Again, Jump,
       Unsought, Over, AtEnd, EndTests, Streams
  <2>10. CASE WorkerFeed(s)
    BY SMTT(30), <1>2, <2>1, <2>10 DEF WorkerFeed, EndTests, Again, Jump,
       Unsought, Over, AtEnd
  <2>11. CASE WorkerDecoded(s)
    BY <1>2, <2>1, <2>11 DEF WorkerDecoded, EndTests, Again, Jump, Unsought,
       Over, AtEnd
  <2>12. CASE WorkerClear(s)
    BY <1>2, <2>1, <2>12 DEF WorkerClear, EndTests, Again, Jump, Unsought,
       Over, AtEnd
  <2>13. CASE WorkerOut(s)
    BY SMTT(30), <1>2, <2>1, <2>13 DEF WorkerOut, EndTests, Again, Jump,
       Unsought, Over, AtEnd
  <2>14. QED
    BY <1>6, <2>2, <2>3, <2>4, <2>5, <2>6, <2>7, <2>7a, <2>8, <2>9, <2>10,
       <2>11, <2>12, <2>13 DEF DecodeThread
<1>7. CASE RefreshThread
  <2> USE DEF NotRefresh
  <2>1. CASE RefreshExit \/ RefreshEnter \/ RefreshBack \/ RefreshPop
    BY <1>2, <2>1 DEF RefreshExit, RefreshEnter, RefreshBack, RefreshPop,
       RefreshAgain, Unsought, Over, AtEnd
  <2>2. CASE RefreshLate \/ RefreshShow \/ RefreshStarves \/ RefreshEnd
    BY <1>2, <2>2 DEF RefreshLate, RefreshShow, RefreshStarves, RefreshEnd,
       RefreshAgain, Unsought, Over, AtEnd
  <2>3. QED
    BY <1>7, <2>1, <2>2 DEF RefreshThread
<1>8. CASE UNCHANGED vars
  BY <1>2, <1>8
     DEF vars, demuxVars, ctlVars, endVars, queueVars, callVars, workerVars,
         refreshVars, Unsought, Over, AtEnd
<1>9. QED
  BY <1>3, <1>4, <1>5, <1>6, <1>7, <1>8 DEF Next, LeftAlone

-----------------------------------------------------------------------------
(* The flushed decoders.                                                   *)
LEMMA FlushedStep ==
  ASSUME TypeOK, Requests, FlushedDecodersRest, [Next]_vars
  PROVE  FlushedDecodersRest'
<1> USE DEF FlushedDecodersRest, Requests, Seeking, Behind
<1>1. CASE ApiCalls
  BY <1>1
     DEF ApiCalls, CallOpen, PlayResume, PlayAgain, PlayPrepared, CallPause,
         CallStop, CallSeek, StopThen, Goto
<1>2. CASE ApiContinues
  BY <1>2
     DEF ApiContinues, OpenMedia, OpenFails, PlayThreads, PlayDemux, PlayDone,
         ResumeDone, PauseDone, SeekFinish, EndCall, StopClose, StopRefresh,
         StopWorkers, StopDemux, StopFinish, SeekFlush, SeekFlushDecoders,
         SeekCommand, SeekRefused, SeekAnswer, SeekClear, SeekResume,
         SeekStores, StoreSerial, StoreTarget, ClearDone, ClearClaim,
         ClearRequest, NotSeek, Goto, workerVars
<1>3. CASE DemuxThread
  BY <1>3, DemuxMoves DEF workerVars
<1>4. ASSUME NEW s \in Streams, DecodeThread(s)
      PROVE  FlushedDecodersRest'
  <2>1. UNCHANGED <<apc, seekInProgress>>
    BY <1>4, DecoderMoves DEF NotWorker
  <2>2. wpc'[s] = "decoding" => ~seekInProgress
    BY <1>4
       DEF TypeOK, DecodeThread, WorkerExit, WorkerEnter, WorkerBack,
           WorkerPop, WorkerStarves, WorkerDone, WorkerAsks, WorkerClaim,
           WorkerRequest,
           WorkerFeed, MayFeed, WorkerDecoded, WorkerClear, WorkerOut, Again,
           EndTests, NextTest,
           Jump
  <2>3. QED
    BY <1>4, <2>1, <2>2, DecoderMoves
<1>5. CASE RefreshThread
  BY <1>5, RefreshMoves DEF NotRefresh, workerVars
<1>6. CASE UNCHANGED vars
  BY <1>6 DEF vars, workerVars
<1>7. QED
  BY <1>1, <1>2, <1>3, <1>4, <1>5, <1>6 DEF Next, LeftAlone

-----------------------------------------------------------------------------
LEMMA InitIInv ==
  ASSUME Init
  PROVE  IInv
<1> USE MediaAssumption, PlayerAssumption
    DEF Init, DemuxInit, MediaAssumption, PlayerAssumption
<1>1. Types
  <2>2. Counts
    BY DEF Counts, Counted, Serials, NoSerial, Ops
  <2>3. Contents
    BY DEF Contents, Packet, NoHand, Serials, Ops
  <2>4. Places
    BY DEF Places, DemuxPcs, PlayerStates, ApiPcs, RefreshPcs, WorkerPcs
  <2>5. Flags
    BY DEF Flags, Truth
  <2>6. Numbers
    BY DEF Numbers, Positions, NoPacket
  <2>7. QED
    BY <2>2, <2>3, <2>4, <2>5, <2>6, TypeParts
<1>2. Session /\ Stages /\ Requests /\ FlushedDecodersRest
  BY DEF Session, Stages, Requests, Seeking, Behind, FlushedDecodersRest,
     NoDecoders
<1>3. Positioned /\ Emptied
  BY DEF Positioned, Emptied, NoSerial
<1>4. Near
  BY EmptyKeeps DEF Near, NearRead, NoHand
<1>5. Generations
  <2>1. ~Hold("none") /\ "video" \in Streams /\ "audio" \in Streams
    BY DEF Hold, Streams
  <2>2. QED
    BY <2>1, EmptyKeeps DEF Generations, InLine, UpTo
<1>6. EndChain
  BY DEF EndChain, Unsought, Behind
<1>7. QED
  BY <1>1, <1>2, <1>3, <1>4, <1>5, <1>6 DEF IInv

(* IInv is inductive.                                                      *)
THEOREM Invariance == Spec => []IInv
<1>1. IInv /\ [Next]_vars => IInv'
  BY TypesStep, SessionStep, RequestsStep, FlushedStep, PositionedStep,
     EmptiedStep, NearStep, GenerationsStep, EndChainStep DEF IInv, Types
<1>2. QED
  BY InitIInv, <1>1, PTL DEF Spec

(* No step of any of the five threads takes a variable out of its type:    *)
(* the queues hold no more than they may, and no call is lost or counted   *)
(* twice.                                                                  *)
THEOREM TypeCorrect == Spec => []TypeOK
<1>1. IInv => TypeOK
  BY DEF IInv, Types
<1>2. QED
  BY <1>1, Invariance, PTL

(* On every path to the opening of a media and to the creation of threads, *)
(* the threads of the last session are gone and joined.                    *)
THEOREM ThreadsAreOwned == Spec => []ThreadsOwned
<1>1. IInv => ThreadsOwned
  BY DEF IInv, Session, Stages, NoDecoders, ThreadsOwned, NoThreads, Types,
     TypeOK, DemuxTypeOK
<1>2. QED
  BY <1>1, Invariance, PTL

(* A player that stop() left Idle has no threads, and neither a packet nor *)
(* a frame of the old media, not even one that is being pushed.            *)
THEOREM IdleIsQuiet == Spec => []QuietWhenIdle
<1>1. IInv => QuietWhenIdle
  BY DEF IInv, Session, NoDecoders, Emptied, Positioned, QuietWhenIdle,
     NoThreads, Queued, Decoded
<1>2. QED
  BY <1>1, Invariance, PTL

(* From the flush of the decoders to the demuxer's answer no decoder is    *)
(* fed.                                                                    *)
THEOREM DecodersRest == Spec => []FlushedDecodersRest
<1>1. IInv => FlushedDecodersRest
  BY DEF IInv
<1>2. QED
  BY <1>1, Invariance, PTL

(* A packet's serial is never more than the one seek under way ahead of    *)
(* the position it was read from.                                          *)
THEOREM AtMostOneSeekStale == Spec => []OneSeekStale
<1>1. IInv => OneSeekStale
  <2> SUFFICES ASSUME IInv, NEW p \in Queued \cup Decoded
               PROVE  p.serial \in {p.read, p.read + 1}
    BY DEF OneSeekStale
  <2>1. Contents /\ Near
    BY TypeParts DEF IInv
  <2>2. CASE p \in Queued
    BY <2>1, <2>2 DEF Queued, Contents, Near, AllNear, NearRead
  <2>3. CASE p \in Decoded
    BY <2>1, <2>3 DEF Decoded, Contents, Near, AllNear, NearRead
  <2>4. QED
    BY <2>2, <2>3
<1>2. QED
  BY <1>1, Invariance, PTL

(* Two queues in one line.                                                 *)
LEMMA ConcatKeeps ==
  ASSUME NEW q \in Seq(Packet), NEW r \in Seq(Packet)
  PROVE  /\ q \o r \in Seq(Packet)
         /\ \A n : NoneLater(q, n) /\ NoneLater(r, n) => NoneLater(q \o r, n)
         /\ Ascending(q) /\ Ascending(r) /\ Before(q, r) => Ascending(q \o r)
         /\ \A t : Before(q, t) /\ Before(r, t) => Before(q \o r, t)
<1>1. /\ q \o r \in Seq(Packet) /\ Len(q) \in Nat /\ Len(r) \in Nat
      /\ Len(q \o r) = Len(q) + Len(r)
      /\ \A i \in 1 .. Len(q \o r) :
           /\ (q \o r)[i] = IF i <= Len(q) THEN q[i] ELSE r[i - Len(q)]
           /\ i <= Len(q) => i \in 1 .. Len(q)
           /\ ~(i <= Len(q)) => i - Len(q) \in 1 .. Len(r)
  OBVIOUS
<1> DEFINE line == q \o r
<1> HIDE DEF line
<1>2. \A n : NoneLater(q, n) /\ NoneLater(r, n) => NoneLater(line, n)
  BY <1>1 DEF NoneLater, line
<1>3. Ascending(q) /\ Ascending(r) /\ Before(q, r) => Ascending(line)
  <2> SUFFICES ASSUME Ascending(q), Ascending(r), Before(q, r),
                      NEW i \in 1 .. Len(line), NEW j \in 1 .. Len(line), i < j
               PROVE  line[i].serial <= line[j].serial
    BY DEF Ascending
  <2>1. CASE j <= Len(q)
    BY <1>1, <2>1 DEF Ascending, line
  <2>2. CASE i <= Len(q) /\ ~(j <= Len(q))
    BY <1>1, <2>2 DEF Before, line
  <2>3. CASE ~(i <= Len(q))
    BY SMTT(30), <1>1, <2>3 DEF Ascending, line
  <2>4. QED
    BY <1>1, <2>1, <2>2, <2>3 DEF line
<1>4. \A t : Before(q, t) /\ Before(r, t) => Before(line, t)
  BY <1>1 DEF Before, line
<1>5. QED
  BY <1>1, <1>2, <1>3, <1>4 DEF line

(* Behind a frame of one generation, on the whole way from onPacket to the *)
(* refresh thread, no packet of an older one follows.                      *)
THEOREM GenerationsAscend == Spec => []GenerationsInOrder
<1>1. IInv => GenerationsInOrder
  <2> SUFFICES ASSUME IInv
               PROVE  GenerationsInOrder
    OBVIOUS
  <2> DEFINE held == IF wpc["video"] \in {"decode", "decoding", "clear", "out"}
                     THEN <<whand["video"]>> ELSE <<>>
             queue == packets["video"]
             line  == frames \o held \o queue
  <2>1. /\ Contents /\ Generations /\ InLine
        /\ queue \in Seq(Packet) /\ frames \in Seq(Packet)
        /\ whand["video"] \in Packet
    BY TypeParts DEF IInv, Contents, Generations, Streams
  <2>2. /\ held \in Seq(Packet) /\ Ascending(held)
        /\ Before(frames, held) /\ Before(held, queue)
        /\ \A n : UpTo(n) => NoneLater(held, n)
    BY <2>1, EmptyKeeps
       DEF InLine, Hold, Ascending, Before, NoneLater, NoneEarlier, UpTo
  <2> HIDE DEF held, queue
  <2>3. /\ frames \o held \in Seq(Packet) /\ Ascending(frames \o held)
        /\ Before(frames \o held, queue)
    BY <2>1, <2>2, ConcatKeeps DEF InLine, queue
  <2>4. Ascending(line) /\ line \in Seq(Packet)
    BY <2>1, <2>3, ConcatKeeps DEF InLine, queue
  <2>5. tag # NoSerial => NoneLater(line, tag)
    BY <2>1, <2>2, <2>3, ConcatKeeps DEF Generations, UpTo, queue
  <2>6. DOMAIN line = 1 .. Len(line)
    BY <2>4
  <2> HIDE DEF line
  <2>7. /\ \A i, j \in DOMAIN line : i < j => line[i].serial <= line[j].serial
        /\ tag # NoSerial => \A i \in DOMAIN line : line[i].serial <= tag
    BY <2>4, <2>5, <2>6 DEF Ascending, NoneLater
  <2>8. QED
    BY <2>7 DEF GenerationsInOrder, line, held, queue
<1>2. QED
  BY <1>1, Invariance, PTL

(* A player with a sink that nobody has sought in becomes End only when    *)
(* the whole media was read, delivered, decoded and shown.                 *)
THEOREM EndsAreHonest ==
  ASSUME HasSink
  PROVE  Spec => EndIsHonest
<1>1. IInv /\ [Next]_vars =>
        [playerState # "End" /\ playerState' = "End" /\ seekSerial = 0
         => Drained]_vars
  <2> SUFFICES ASSUME IInv, Next, playerState # "End", playerState' = "End",
                      seekSerial = 0
               PROVE  Drained
    BY DEF vars
  <2>1. RefreshEnd
    <3>1. CASE ApiCalls
      BY <3>1
         DEF ApiCalls, CallOpen, PlayResume, PlayAgain, PlayPrepared,
             CallPause, CallStop, CallSeek
    <3>2. CASE ApiContinues
      BY <3>2
         DEF ApiContinues, OpenMedia, OpenFails, PlayThreads, PlayDemux,
             PlayDone, ResumeDone, PauseDone, SeekFinish, EndCall, StopClose,
             StopRefresh, StopWorkers, StopDemux, StopFinish, SeekFlush,
             SeekFlushDecoders, SeekCommand, SeekRefused, SeekAnswer,
             SeekClear, SeekResume, SeekStores, StoreSerial, StoreTarget,
             ClearDone, ClearClaim, ClearRequest, NotSeek
    <3>3. CASE DemuxThread
      BY <3>3, DemuxMoves
    <3>4. ASSUME NEW s \in Streams, DecodeThread(s)
          PROVE  FALSE
      BY <3>4
         DEF DecodeThread, WorkerExit, WorkerEnter, WorkerBack, WorkerPop,
             WorkerStarves, WorkerDone, WorkerAsks, WorkerClaim, WorkerRequest,
             WorkerFeed, WorkerDecoded, WorkerClear, WorkerOut
    <3>5. CASE RefreshThread
      BY <3>5
         DEF RefreshThread, RefreshExit, RefreshEnter, RefreshBack,
             RefreshPop, RefreshLate, RefreshShow, RefreshStarves
    <3>6. QED
      BY <3>1, <3>2, <3>3, <3>4, <3>5 DEF Next, LeftAlone
  <2>2. rpc = "drain" /\ Unsought
    BY <2>1 DEF RefreshEnd, IInv, EndChain
  <2>3. /\ frames = <<>>
        /\ \A s \in Streams : wpc[s] # "none" /\ decodeDone[s] /\ Over(s)
    BY <2>2 DEF Unsought
  <2>4. AtEnd /\ \A s \in Streams : packets[s] = <<>>
    BY <2>2, <2>3 DEF Unsought, Over, Streams
  <2>5. QED
    BY <2>2, <2>3, <2>4 DEF Drained, Over, AtEnd, Queued, Decoded,
       EndTests
<1>2. QED
  BY <1>1, Invariance, PTL DEF EndIsHonest, Spec
=============================================================================
