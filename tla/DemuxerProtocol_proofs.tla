----------------------- MODULE DemuxerProtocol_proofs -----------------------
(***************************************************************************)
(* Proofs of the safety of DemuxerProtocol, for every length of the media, *)
(* every choice of Faults and every number of calls.                       *)
(*                                                                         *)
(* The properties are not inductive: that the thread owes an answer, for   *)
(* example, depends on how demuxState_, the thread and the calling thread  *)
(* go together (Session), on which program points a request can be pending *)
(* at (Requests), and on what puts the thread to sleep (Asleep).  Their    *)
(* conjunction IInv is inductive.                                          *)
(***************************************************************************)
EXTENDS DemuxerProtocol, TLAPS

(* There is a demux thread exactly in state Playing; shouldStop_ is set    *)
(* only from stop() to the next open(); a thread that has left did so      *)
(* because of stop() or because a reopening failed, which is the only way  *)
(* for the media of a session to be closed.                                *)
Session ==
  /\ dpc = "none" <=> demuxState # "Playing"
  /\ shouldStop => caller = "stopJoin" \/ demuxState = "Idle"
  /\ caller = "stopJoin" => shouldStop
  /\ caller = "seekWait" => demuxState # "Idle"
  /\ dpc = "exited" => shouldStop \/ ~ctxOpen
  /\ demuxState = "Prepared" => ctxOpen /\ ~sought
  /\ demuxState = "Playing" /\ ~ctxOpen => sought \/ dpc = "seekDone"

(* A seek request is pending only while its caller waits.                  *)
Requests ==
  /\ seekRequested => caller = "seekWait"
  /\ caller = "seekWait" => (seekRequested <=> ~seekCompleted)
  /\ dpc \in {"seek", "probe", "seekDone"} => seekRequested
  /\ seekRequested => dpc # "exited"

(* Only the end of the media leads to the sleep on commandCv_.             *)
Asleep ==
  /\ dpc \in {"park", "parkGap", "parked"} => eofReached
  /\ dpc \in {"deliver", "probe"} <=> hand # NoPacket
  /\ dpc \in {"parkGap", "parked"} => ~seekRequested
  /\ caller = "stopJoin" /\ ~missed => dpc \notin {"parkGap", "parked"}

(* While no stale start has spoilt the session, the seek that start() must *)
(* not undo is still remembered when start() is called, and until the loop *)
(* has seen it.                                                            *)
Remembered ==
  demuxState = "Playing" /\ ~shouldStop /\ sought /\ ~staleStart =>
    LET answered == caller = "seekWait" /\ seekCompleted
    IN  /\ startReading \/ startDue \/ answered => seekJustDone
        /\ startReading => ~startDue /\ ~answered

IInv == TypeOK /\ Session /\ Requests /\ Asleep /\ Remembered

(* The type invariant in three parts, which the provers take one by one.   *)
Places ==
  /\ demuxState \in {"Idle", "Prepared", "Playing"}
  /\ caller \in {"idle", "seekWait", "stopJoin"}
  /\ dpc \in DemuxPcs

Flags ==
  /\ ctxOpen \in BOOLEAN
  /\ shouldStop \in BOOLEAN
  /\ startReading \in BOOLEAN
  /\ seekRequested \in BOOLEAN
  /\ seekCompleted \in BOOLEAN
  /\ eofReached \in BOOLEAN
  /\ seekJustDone \in BOOLEAN
  /\ startDue \in BOOLEAN
  /\ sought \in BOOLEAN
  /\ staleStart \in BOOLEAN
  /\ missed \in BOOLEAN

Numbers ==
  /\ filePos \in 0 .. MediaLen
  /\ pendingTarget \in Positions
  /\ hand \in Positions \cup {NoPacket}
  /\ calls \in 0 .. MaxCalls

LEMMA TypeParts == TypeOK <=> Places /\ Flags /\ Numbers
BY DEF TypeOK, DemuxTypeOK, Places, Flags, Numbers

(* The program points.                                                     *)
LEMMA PlacesStep ==
  ASSUME Places, [Next]_vars
  PROVE  Places'
<1> USE DEF Places, DemuxPcs, flagVars, protocolVars
<1>1. CASE CallOpen
  BY <1>1 DEF CallOpen, Call, DemuxOpen
<1>2. CASE CallOpenFails
  BY <1>2 DEF CallOpenFails, Call, DemuxOpenFails
<1>3. CASE CallStart
  BY <1>3 DEF CallStart, DemuxStart, NotifyDemux
<1>4. CASE CallStop
  BY <1>4 DEF CallStop, Call, DemuxStopSignal, NotifyDemux
<1>5. ASSUME NEW t \in Positions, CallSeek(t)
      PROVE  Places'
  BY <1>5 DEF CallSeek, Call, DemuxSeekSignal, CanSeek,
     CommandMutexFree, NotifyDemux
<1>6. CASE SeekReturns
  BY <1>6 DEF SeekReturns, SeekAnswered, demuxVars
<1>7. CASE StopReturns
  BY <1>7 DEF StopReturns, DemuxStopJoin
<1>8. CASE SeekDone
  BY <1>8 DEF SeekDone, DemuxSeekDone
<1>9. CASE DemuxExit /\ UNCHANGED protocolVars
  BY <1>9 DEF DemuxExit
<1>10. CASE DemuxSeesSeek /\ UNCHANGED protocolVars
  BY <1>10 DEF DemuxSeesSeek
<1>11. CASE DemuxGate /\ UNCHANGED protocolVars
  BY <1>11 DEF DemuxGate, Rewind
<1>12. CASE DemuxRead /\ UNCHANGED protocolVars
  BY <1>12 DEF DemuxRead, MoreToRead
<1>13. CASE DemuxReadRetry /\ UNCHANGED protocolVars
  BY <1>13 DEF DemuxReadRetry
<1>14. CASE DemuxParkTest /\ UNCHANGED protocolVars
  BY <1>14 DEF DemuxParkTest, WakeReasons
<1>15. CASE DemuxPark /\ UNCHANGED protocolVars
  BY <1>15 DEF DemuxPark
<1>16. CASE DemuxEof /\ UNCHANGED protocolVars
  BY <1>16 DEF DemuxEof
<1>17. CASE DemuxDelivered /\ UNCHANGED protocolVars
  BY <1>17 DEF DemuxDelivered
<1>18. CASE DemuxSeekFile /\ UNCHANGED protocolVars
  BY <1>18 DEF DemuxSeekFile
<1>19. CASE DemuxReopen /\ UNCHANGED protocolVars
  BY <1>19 DEF DemuxReopen
<1>20. CASE DemuxReopenFails /\ UNCHANGED protocolVars
  BY <1>20 DEF DemuxReopenFails
<1>21. CASE UNCHANGED vars
  BY <1>21 DEF vars, demuxVars
<1>22. QED
  BY <1>1, <1>2, <1>3, <1>4, <1>5, <1>6, <1>7, <1>8, <1>9, <1>10,
     <1>11, <1>12, <1>13, <1>14, <1>15, <1>16, <1>17, <1>18, <1>19,
     <1>20, <1>21
     DEF Next, CallerReturns, DemuxThread, Quiet

(* The flags.                                                              *)
LEMMA FlagsStep ==
  ASSUME Flags, [Next]_vars
  PROVE  Flags'
<1> USE DEF Flags, flagVars, protocolVars
<1>1. CASE CallOpen
  BY <1>1 DEF CallOpen, Call, DemuxOpen
<1>2. CASE CallOpenFails
  BY ZenonT(30), <1>2 DEF CallOpenFails, Call, DemuxOpenFails
<1>3. CASE CallStart
  BY <1>3 DEF CallStart, DemuxStart, NotifyDemux
<1>4. CASE CallStop
  BY <1>4 DEF CallStop, Call, DemuxStopSignal, NotifyDemux
<1>5. ASSUME NEW t \in Positions, CallSeek(t)
      PROVE  Flags'
  BY <1>5 DEF CallSeek, Call, DemuxSeekSignal, CanSeek,
     CommandMutexFree, NotifyDemux
<1>6. CASE SeekReturns
  BY <1>6 DEF SeekReturns, SeekAnswered, demuxVars
<1>7. CASE StopReturns
  BY ZenonT(30), <1>7 DEF StopReturns, DemuxStopJoin
<1>8. CASE SeekDone
  BY <1>8 DEF SeekDone, DemuxSeekDone
<1>9. CASE DemuxExit /\ UNCHANGED protocolVars
  BY <1>9 DEF DemuxExit
<1>10. CASE DemuxSeesSeek /\ UNCHANGED protocolVars
  BY <1>10 DEF DemuxSeesSeek
<1>11. CASE DemuxGate /\ UNCHANGED protocolVars
  BY <1>11 DEF DemuxGate, Rewind
<1>12. CASE DemuxRead /\ UNCHANGED protocolVars
  BY <1>12 DEF DemuxRead, MoreToRead
<1>13. CASE DemuxReadRetry /\ UNCHANGED protocolVars
  BY <1>13 DEF DemuxReadRetry
<1>14. CASE DemuxParkTest /\ UNCHANGED protocolVars
  BY ZenonT(30), <1>14 DEF DemuxParkTest, WakeReasons
<1>15. CASE DemuxPark /\ UNCHANGED protocolVars
  BY <1>15 DEF DemuxPark
<1>16. CASE DemuxEof /\ UNCHANGED protocolVars
  BY <1>16 DEF DemuxEof
<1>17. CASE DemuxDelivered /\ UNCHANGED protocolVars
  BY <1>17 DEF DemuxDelivered
<1>18. CASE DemuxSeekFile /\ UNCHANGED protocolVars
  BY <1>18 DEF DemuxSeekFile
<1>19. CASE DemuxReopen /\ UNCHANGED protocolVars
  BY <1>19 DEF DemuxReopen
<1>20. CASE DemuxReopenFails /\ UNCHANGED protocolVars
  BY <1>20 DEF DemuxReopenFails
<1>21. CASE UNCHANGED vars
  BY <1>21 DEF vars, demuxVars
<1>22. QED
  BY <1>1, <1>2, <1>3, <1>4, <1>5, <1>6, <1>7, <1>8, <1>9, <1>10,
     <1>11, <1>12, <1>13, <1>14, <1>15, <1>16, <1>17, <1>18, <1>19,
     <1>20, <1>21
     DEF Next, CallerReturns, DemuxThread, Quiet

(* The positions in the media, and the number of calls.                    *)
LEMMA NumbersStep ==
  ASSUME Numbers, [Next]_vars
  PROVE  Numbers'
<1> USE MediaAssumption, MaxCallsAssumption
    DEF MediaAssumption, MaxCallsAssumption, Numbers, Positions, NoPacket,
        flagVars, protocolVars
<1>1. CASE CallOpen
  BY <1>1 DEF CallOpen, Call, DemuxOpen
<1>2. CASE CallOpenFails
  BY <1>2 DEF CallOpenFails, Call, DemuxOpenFails
<1>3. CASE CallStart
  BY <1>3 DEF CallStart, DemuxStart, NotifyDemux
<1>4. CASE CallStop
  BY <1>4 DEF CallStop, Call, DemuxStopSignal, NotifyDemux
<1>5. ASSUME NEW t \in Positions, CallSeek(t)
      PROVE  Numbers'
  BY <1>5 DEF CallSeek, Call, DemuxSeekSignal, CanSeek,
     CommandMutexFree, NotifyDemux
<1>6. CASE SeekReturns
  BY <1>6 DEF SeekReturns, SeekAnswered, demuxVars
<1>7. CASE StopReturns
  BY <1>7 DEF StopReturns, DemuxStopJoin
<1>8. CASE SeekDone
  BY <1>8 DEF SeekDone, DemuxSeekDone
<1>9. CASE DemuxExit /\ UNCHANGED protocolVars
  BY <1>9 DEF DemuxExit
<1>10. CASE DemuxSeesSeek /\ UNCHANGED protocolVars
  BY <1>10 DEF DemuxSeesSeek
<1>11. CASE DemuxGate /\ UNCHANGED protocolVars
  BY <1>11 DEF DemuxGate, Rewind
<1>12. CASE DemuxRead /\ UNCHANGED protocolVars
  BY <1>12 DEF DemuxRead, MoreToRead
<1>13. CASE DemuxReadRetry /\ UNCHANGED protocolVars
  BY <1>13 DEF DemuxReadRetry
<1>14. CASE DemuxParkTest /\ UNCHANGED protocolVars
  BY <1>14 DEF DemuxParkTest, WakeReasons
<1>15. CASE DemuxPark /\ UNCHANGED protocolVars
  BY <1>15 DEF DemuxPark
<1>16. CASE DemuxEof /\ UNCHANGED protocolVars
  BY <1>16 DEF DemuxEof
<1>17. CASE DemuxDelivered /\ UNCHANGED protocolVars
  BY <1>17 DEF DemuxDelivered
<1>18. CASE DemuxSeekFile /\ UNCHANGED protocolVars
  BY <1>18 DEF DemuxSeekFile
<1>19. CASE DemuxReopen /\ UNCHANGED protocolVars
  BY <1>19 DEF DemuxReopen
<1>20. CASE DemuxReopenFails /\ UNCHANGED protocolVars
  BY <1>20 DEF DemuxReopenFails
<1>21. CASE UNCHANGED vars
  BY <1>21 DEF vars, demuxVars
<1>22. QED
  BY <1>1, <1>2, <1>3, <1>4, <1>5, <1>6, <1>7, <1>8, <1>9, <1>10,
     <1>11, <1>12, <1>13, <1>14, <1>15, <1>16, <1>17, <1>18, <1>19,
     <1>20, <1>21
     DEF Next, CallerReturns, DemuxThread, Quiet

LEMMA TypeStep ==
  ASSUME TypeOK, [Next]_vars
  PROVE  TypeOK'
<1>1. Places' /\ Flags' /\ Numbers'
  BY TypeParts, PlacesStep, FlagsStep, NumbersStep
<1>2. QED
  BY <1>1 DEF TypeOK, DemuxTypeOK, Places, Flags, Numbers

(***************************************************************************)
(* How the caller, the flags and the thread go together.                   *)
(***************************************************************************)
Protocol == Session /\ Requests /\ Asleep /\ Remembered

LEMMA ProtocolStep ==
  ASSUME TypeOK, TypeOK', Protocol, [Next]_vars
  PROVE  Protocol'
<1> USE MediaAssumption
    DEF MediaAssumption, TypeOK, DemuxTypeOK, Positions, NoPacket, Protocol,
        Session, Requests, Asleep, Remembered, flagVars, protocolVars
<1>1. CASE CallOpen
  BY <1>1 DEF CallOpen, Call, DemuxOpen
<1>2. CASE CallOpenFails
  BY <1>2 DEF CallOpenFails, Call, DemuxOpenFails
<1>3. CASE CallStart
  BY <1>3 DEF CallStart, DemuxStart, NotifyDemux
<1>4. CASE CallStop
  BY <1>4 DEF CallStop, Call, DemuxStopSignal, NotifyDemux
<1>5. ASSUME NEW t \in Positions, CallSeek(t)
      PROVE  Protocol'
  BY <1>5 DEF CallSeek, Call, DemuxSeekSignal, CanSeek,
     CommandMutexFree, NotifyDemux
<1>6. CASE SeekReturns
  BY <1>6 DEF SeekReturns, SeekAnswered, demuxVars
<1>7. CASE StopReturns
  BY <1>7 DEF StopReturns, DemuxStopJoin
<1>8. CASE SeekDone
  BY <1>8 DEF SeekDone, DemuxSeekDone
<1>9. CASE DemuxExit /\ UNCHANGED protocolVars
  BY <1>9 DEF DemuxExit
<1>10. CASE DemuxSeesSeek /\ UNCHANGED protocolVars
  BY <1>10 DEF DemuxSeesSeek
<1>11. CASE DemuxGate /\ UNCHANGED protocolVars
  BY <1>11 DEF DemuxGate, Rewind
<1>12. CASE DemuxRead /\ UNCHANGED protocolVars
  BY <1>12 DEF DemuxRead, MoreToRead
<1>13. CASE DemuxReadRetry /\ UNCHANGED protocolVars
  BY <1>13 DEF DemuxReadRetry
<1>14. CASE DemuxParkTest /\ UNCHANGED protocolVars
  BY <1>14 DEF DemuxParkTest, WakeReasons
<1>15. CASE DemuxPark /\ UNCHANGED protocolVars
  BY <1>15 DEF DemuxPark
<1>16. CASE DemuxEof /\ UNCHANGED protocolVars
  BY <1>16 DEF DemuxEof
<1>17. CASE DemuxDelivered /\ UNCHANGED protocolVars
  BY <1>17 DEF DemuxDelivered
<1>18. CASE DemuxSeekFile /\ UNCHANGED protocolVars
  BY <1>18 DEF DemuxSeekFile
<1>19. CASE DemuxReopen /\ UNCHANGED protocolVars
  BY <1>19 DEF DemuxReopen
<1>20. CASE DemuxReopenFails /\ UNCHANGED protocolVars
  BY <1>20 DEF DemuxReopenFails
<1>21. CASE UNCHANGED vars
  BY <1>21 DEF vars, demuxVars
<1>22. QED
  BY <1>1, <1>2, <1>3, <1>4, <1>5, <1>6, <1>7, <1>8, <1>9, <1>10,
     <1>11, <1>12, <1>13, <1>14, <1>15, <1>16, <1>17, <1>18, <1>19,
     <1>20, <1>21
     DEF Next, CallerReturns, DemuxThread, Quiet

-----------------------------------------------------------------------------
LEMMA InitIInv == Init => IInv
<1> SUFFICES ASSUME Init PROVE IInv
  OBVIOUS
<1>1. Places
  BY DEF Init, DemuxInit, Places, DemuxPcs
<1>2. Flags
  BY DEF Init, DemuxInit, Flags
<1>3. Numbers
  BY MediaAssumption, MaxCallsAssumption
     DEF MediaAssumption, MaxCallsAssumption, Init, DemuxInit, Numbers,
         Positions, NoPacket
<1>4. Session /\ Requests /\ Asleep /\ Remembered
  BY DEF Init, DemuxInit, Session, Requests, Asleep, Remembered, NoPacket
<1>5. QED
  BY <1>1, <1>2, <1>3, <1>4, TypeParts DEF IInv

(***************************************************************************)
(* The inductive invariant of the protocol between the calling thread and  *)
(* the demux thread.                                                       *)
(***************************************************************************)
THEOREM Invariance == Spec => []IInv
<1>1. IInv /\ [Next]_vars => IInv'
  BY TypeStep, ProtocolStep DEF IInv, Protocol
<1>2. QED
  BY InitIInv, <1>1, PTL DEF Spec

(***************************************************************************)
(* Every variable keeps its type: positions stay within the media, and the *)
(* thread is always at one of its program points.                          *)
(***************************************************************************)
THEOREM TypeCorrect == Spec => []TypeOK
<1>1. IInv => TypeOK
  BY DEF IInv
<1>2. QED
  BY <1>1, Invariance, PTL

(***************************************************************************)
(* The answer to a waiting seek() is there or owed by a thread that is     *)
(* still there to give it.                                                 *)
(***************************************************************************)
THEOREM SeeksAreOwed == Spec => []SeekOwed
<1>1. IInv => SeekOwed
  BY DEF IInv, TypeOK, DemuxTypeOK, Requests, Asleep, SeekOwed
<1>2. QED
  BY <1>1, Invariance, PTL

(***************************************************************************)
(* The demux thread sleeps only at the end of the media, and leaves its    *)
(* loop without a stop() only when a seek has closed the media, with       *)
(* nothing in its hands and no request pending.                            *)
(***************************************************************************)
THEOREM RestIsSafe == Spec => []RestsForAReason
<1>1. IInv => RestsForAReason
  BY DEF IInv, Session, Requests, Asleep, RestsForAReason
<1>2. QED
  BY <1>1, Invariance, PTL

(***************************************************************************)
(* stop() never joins a thread that sleeps, unless its notification fell   *)
(* between the thread's test and its sleep.                                *)
(***************************************************************************)
THEOREM StopsAreHeard == Spec => []StopHeard
<1>1. IInv => StopHeard
  BY DEF IInv, TypeOK, DemuxTypeOK, Session, Asleep, StopHeard
<1>2. QED
  BY <1>1, Invariance, PTL

(* Of all steps taken at the head of the loop, only the gate moves the     *)
(* position in the media.                                                  *)
LEMMA OnlyTheGateRewinds ==
  ASSUME IInv, Next, RewindStep
  PROVE  DemuxGate /\ Rewind
<1> USE DEF RewindStep, flagVars
<1>1. ~(CallOpen \/ CallOpenFails \/ CallStart)
  BY DEF IInv, Session, CallOpen, CallOpenFails, CallStart, DemuxOpen,
         DemuxOpenFails, DemuxStart
<1>2. ~(CallStop \/ \E t \in Positions : CallSeek(t))
  BY DEF CallStop, CallSeek, DemuxStopSignal, DemuxSeekSignal
<1>3. ~CallerReturns
  BY DEF CallerReturns, SeekReturns, StopReturns, DemuxStopJoin, demuxVars
<1>4. ~SeekDone
  BY DEF SeekDone, DemuxSeekDone
<1>5. CASE Quiet
  BY <1>5 DEF Quiet, DemuxExit, DemuxSeesSeek, DemuxGate, Rewind, DemuxRead,
              DemuxReadRetry, DemuxParkTest, DemuxPark, DemuxEof,
              DemuxDelivered, DemuxSeekFile, DemuxReopen, DemuxReopenFails
<1>6. QED
  BY <1>1, <1>2, <1>3, <1>4, <1>5 DEF Next, DemuxThread

(***************************************************************************)
(* The target of a completed seek is overridden only in a session where a  *)
(* seek was executed while startReading_ was still set.                    *)
(***************************************************************************)
THEOREM SeekTargetLostOnlyByStaleStart == Spec => RewindOnlyAfterStaleStart
<1>1. ASSUME IInv, Next, RewindStep, sought
      PROVE  staleStart
  <2>1. dpc = "loop" /\ ~shouldStop /\ startReading /\ ~seekJustDone
    BY <1>1, OnlyTheGateRewinds DEF DemuxGate, Rewind
  <2>2. demuxState = "Playing"
    BY <1>1, <2>1 DEF IInv, Session
  <2>3. QED
    BY <1>1, <2>1, <2>2 DEF IInv, Remembered, TypeOK
<1>2. IInv /\ [Next]_vars => [RewindStep /\ sought => staleStart]_vars
  BY <1>1
<1>3. QED
  BY <1>2, Invariance, PTL DEF Spec, RewindOnlyAfterStaleStart
=============================================================================
