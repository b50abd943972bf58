----------------------- MODULE FileServices_proofs -----------------------
(***************************************************************************)
(* Proofs about the services that read and write files, for every number    *)
(* of chunks, frames and bytes: the encryption of a film, the resumption    *)
(* of one that is half transcoded, and the reader that decrypts. Each has   *)
(* an inductive invariant of its own, named <prefix>IInv, the conjunction   *)
(* of its types and of what ties its threads to its files; the last lemma   *)
(* of each service draws from it what the runs check, and the theorem       *)
(* says it of the service's specification.                                  *)
(***************************************************************************)
EXTENDS FileEncryption, ResumeManager, DecryptingAVIO, TLAPS

-----------------------------------------------------------------------------
(* FileEncryption.                                                         *)

(* What the .tmp holds while a worker has it: the chunks done so far, and  *)
(* at the renaming all of them and the header.                             *)
EncGrowing ==
  /\ encTmp.is => encLeft \/ encWorker \in {"loop", "rename"}
  /\ encTmp.is /\ encWorker = "loop" => encTmp.data = encDone
  /\ encTmp.is /\ encWorker = "rename" =>
       encTmp.data = EncChunks /\ encTmp.head

(* A signal stands for a job that was started, and so do the worker that   *)
(* has not given it yet and the call that waits for the worker before.     *)
EncCounted ==
  /\ encSignals <= encJobs
  /\ EncWorking \/ encUi = "joining" => encSignals < encJobs
  /\ EncWorking /\ encUi = "joining" => encSignals + 1 < encJobs

(* The types, in three parts.                                              *)
EncFiles   == encTmp \in EncFile /\ encFinal \in EncFile
EncNumbers == /\ encDone \in 0 .. EncChunks
              /\ encSignals \in 0 .. EncJobs /\ encJobs \in 0 .. EncJobs
EncPlaces ==
  /\ encUnix \in BOOLEAN /\ encScanned \in BOOLEAN
  /\ encWorker \in {"none", "begin", "check", "create", "loop", "rename",
       "done"}
  /\ encCancel \in BOOLEAN
  /\ encUi \in {"idle", "joining", "quitting", "down"} /\ encBusy \in BOOLEAN
  /\ encLeft \in BOOLEAN

EncWhole == encFinal.is => encFinal.data = EncChunks /\ encFinal.head
EncRest  == encUi = "down" => encWorker = "none" /\ ~encBusy

EncIInv ==
  /\ EncFiles /\ EncNumbers /\ EncPlaces
  /\ EncGrowing /\ EncWhole /\ EncCounted /\ EncRest /\ EncBusyHasEnd

(* It holds at first ...                                                   *)
LEMMA EncInitIInv == EncInit => EncIInv
<1> USE EncryptionAssumption DEF EncInit
<1>1. EncInit => EncFiles
  BY DEF EncFiles, EncFile, EncNoFile
<1>2. EncInit => EncNumbers
  BY DEF EncNumbers
<1>3. EncInit => EncPlaces
  BY DEF EncPlaces
<1>4. QED
  BY <1>1, <1>2, <1>3 DEF EncIInv, EncGrowing, EncCounted, EncWhole, EncRest,
     EncBusyHasEnd, EncNoFile, EncWorking

(* ... and every step keeps it, action by action.                          *)
LEMMA EncNextIInv == EncIInv /\ [EncNext]_EncVars => EncIInv'
<1> SUFFICES ASSUME EncIInv, [EncNext]_EncVars PROVE EncIInv'
  OBVIOUS
<1> USE EncryptionAssumption
    DEF EncIInv, EncGrowing, EncCounted, EncBusyHasEnd, EncFile,
        EncNoFile, EncWorking, EncEnv, EncDisk, EncWhole, EncRest, EncFiles,
        EncNumbers, EncPlaces
<1>1. CASE EncStart
  BY <1>1 DEF EncStart
<1>2. CASE EncCancelPressed \/ EncQuit
  <2>1. EncFiles' /\ EncPlaces' /\ EncNumbers' /\ EncCounted'
    BY <1>2 DEF EncCancelPressed, EncQuit
  <2>2. EncGrowing' /\ EncWhole' /\ EncRest' /\ EncBusyHasEnd'
    BY <1>2 DEF EncCancelPressed, EncQuit
  <2>3. QED
    BY <2>1, <2>2
<1>3. CASE EncSignalled
  <2>1. EncFiles' /\ EncPlaces'
    BY <1>3 DEF EncSignalled
  <2>2. EncNumbers' /\ EncCounted'
    BY <1>3 DEF EncSignalled
  <2>3. EncGrowing' /\ EncWhole' /\ EncRest' /\ EncBusyHasEnd'
    BY <1>3 DEF EncSignalled
  <2>4. QED
    BY <2>1, <2>2, <2>3
<1>4. CASE EncCrash \/ EncQuitted
  <2>1. EncFiles' /\ EncPlaces'
    BY <1>4 DEF EncCrash, EncDown, EncQuitted
  <2>2. EncNumbers' /\ EncCounted'
    BY <1>4 DEF EncCrash, EncDown, EncQuitted
  <2>3. EncGrowing' /\ EncWhole' /\ EncRest' /\ EncBusyHasEnd'
    BY <1>4 DEF EncCrash, EncDown, EncQuitted
  <2>4. QED
    BY <2>1, <2>2, <2>3
<1>5. CASE EncProgramStarts
  BY <1>5 DEF EncProgramStarts
<1>6. CASE EncOtherProgramStarts
  <2>1. EncFiles'
    BY <1>6 DEF EncOtherProgramStarts
  <2>2. EncPlaces'
    BY <1>6 DEF EncOtherProgramStarts
  <2>3. EncNumbers' /\ EncCounted'
    BY <1>6 DEF EncOtherProgramStarts
  <2>4. EncGrowing' /\ EncWhole' /\ EncRest' /\ EncBusyHasEnd'
    BY <1>6 DEF EncOtherProgramStarts
  <2>5. QED
    BY <2>1, <2>2, <2>3, <2>4
<1>7. CASE EncJoined
  BY <1>7 DEF EncJoined
<1>8. CASE EncBegin \/ EncCheck
  <2>1. EncFiles' /\ EncPlaces'
    BY <1>8 DEF EncBegin, EncEnd, EncWorkerKeeps, EncCheck
  <2>2. EncNumbers' /\ EncCounted'
    BY <1>8 DEF EncBegin, EncEnd, EncWorkerKeeps, EncCheck
  <2>3. EncGrowing' /\ EncWhole' /\ EncRest' /\ EncBusyHasEnd'
    BY <1>8 DEF EncBegin, EncEnd, EncWorkerKeeps, EncCheck
  <2>4. QED
    BY <2>1, <2>2, <2>3
<1>9. CASE EncCreate
  <2>1. EncFiles'
    BY <1>9 DEF EncCreate, EncEnd, EncWorkerKeeps
  <2>2. EncPlaces'
    BY <1>9 DEF EncCreate, EncEnd, EncWorkerKeeps
  <2>3. EncNumbers' /\ EncCounted'
    BY <1>9 DEF EncCreate, EncEnd, EncWorkerKeeps
  <2>4. EncGrowing' /\ EncWhole' /\ EncRest' /\ EncBusyHasEnd'
    BY <1>9 DEF EncCreate, EncEnd, EncWorkerKeeps
  <2>5. QED
    BY <2>1, <2>2, <2>3, <2>4
<1>10. CASE EncCreateFails
  BY <1>10 DEF EncCreateFails, EncEnd, EncWorkerKeeps
<1>11. CASE EncGiveUp
  <2>1. EncFiles'
    BY <1>11 DEF EncGiveUp, EncEnd, EncWorkerKeeps
  <2>2. EncPlaces'
    BY <1>11 DEF EncGiveUp, EncEnd, EncWorkerKeeps
  <2>3. EncNumbers' /\ EncCounted'
    BY <1>11 DEF EncGiveUp, EncEnd, EncWorkerKeeps
  <2>4. EncGrowing' /\ EncWhole' /\ EncRest' /\ EncBusyHasEnd'
    BY <1>11 DEF EncGiveUp, EncEnd, EncWorkerKeeps
  <2>5. QED
    BY <2>1, <2>2, <2>3, <2>4
<1>12. CASE EncChunk
  BY <1>12 DEF EncChunk, EncWorkerKeeps
<1>13. CASE EncHeader
  <2>1. EncFiles' /\ EncPlaces'
    BY <1>13 DEF EncHeader, EncWorkerKeeps
  <2>2. EncNumbers' /\ EncCounted'
    BY <1>13 DEF EncHeader, EncWorkerKeeps
  <2>3. EncGrowing' /\ EncWhole' /\ EncRest' /\ EncBusyHasEnd'
    BY <1>13 DEF EncHeader, EncWorkerKeeps
  <2>4. QED
    BY <2>1, <2>2, <2>3
<1>14. CASE EncRename
  <2>1. EncFiles'
    BY <1>14 DEF EncRename, EncEnd, EncWorkerKeeps
  <2>2. EncPlaces'
    BY <1>14 DEF EncRename, EncEnd, EncWorkerKeeps
  <2>3. EncNumbers' /\ EncCounted'
    BY <1>14 DEF EncRename, EncEnd, EncWorkerKeeps
  <2>4. EncGrowing' /\ EncWhole' /\ EncRest' /\ EncBusyHasEnd'
    BY <1>14 DEF EncRename, EncEnd, EncWorkerKeeps
  <2>5. QED
    BY <2>1, <2>2, <2>3, <2>4
<1>15. CASE UNCHANGED EncVars
  BY <1>15 DEF EncVars
<1>16. QED
  BY <1>1, <1>2, <1>3, <1>4, <1>5, <1>6, <1>7, <1>8, <1>9, <1>10, <1>11,
     <1>12, <1>13, <1>14, <1>15 DEF EncNext, EncUiStep, EncWorkerStep

(* It implies what is claimed.                                             *)
LEMMA EncSafe ==
  EncIInv => EncTypeOK /\ EncOutputWhole /\ EncBusyHasEnd
BY DEF EncIInv, EncFiles, EncNumbers, EncPlaces, EncTypeOK, EncOutputWhole,
   EncWhole, EncGrowing, EncWorking

(* An .hlv of the final name holds every chunk and its header, whenever    *)
(* the program crashes, and a dialog that shows an encryption at work has  *)
(* a worker, or a signal of its end on the way (FileEncryption).           *)
THEOREM EncryptionSafety ==
  EncSpec => [](EncTypeOK /\ EncOutputWhole /\ EncBusyHasEnd)
BY EncInitIInv, EncNextIInv, EncSafe, PTL DEF EncSpec

-----------------------------------------------------------------------------
(* ResumeManager.                                                          *)

RsmTypes ==
  /\ rsmFile \in {RsmNone, RsmTorn} \cup (0 .. RsmFrames)
  /\ rsmPart \in {RsmNone} \cup (0 .. RsmFrames)
  /\ rsmNext \in 1 .. RsmFrames + 1

RsmPlaces ==
  /\ rsmFinal \in {"none", "old", "new"}
  /\ rsmJob \in {"off", "up", "fresh", "running", "saving", "finalizing",
                 "cleaning", "unfinished"}
  /\ rsmWhole \in BOOLEAN /\ rsmStray \in {"no", "kept", "used"}

(* A checkpoint that is no stray vouches for no more than the .part holds, *)
(* if there is one and the film is not over.                               *)
RsmVouched ==
  rsmStray = "no" /\ rsmPart # RsmNone /\ rsmFile < RsmFrames =>
    rsmFile <= rsmPart

(* A job at work has its .part, with all before the frame it writes next   *)
(* unless it went on from a stray.                                         *)
RsmAtWork ==
  rsmJob \in {"running", "saving"} =>
    /\ rsmPart # RsmNone
    /\ rsmStray # "used" => rsmNext <= rsmPart + 1

(* A whole film is in the .part; when there is none, in the output.        *)
RsmSomewhere ==
  rsmWhole =>
    /\ rsmPart = RsmFrames \/ (rsmPart = RsmNone /\ rsmFinal = "new")
    /\ rsmJob = "cleaning" => rsmFinal = "new"

RsmIInv == RsmTypes /\ RsmPlaces /\ RsmVouched /\ RsmAtWork /\ RsmSomewhere

(* It holds at first ...                                                   *)
LEMMA RsmInitIInv == RsmInit => RsmIInv
<1> SUFFICES ASSUME RsmInit PROVE RsmIInv
  OBVIOUS
<1> USE ResumeAssumption DEF RsmInit, RsmNone, RsmTorn
<1>1. RsmTypes
  BY DEF RsmTypes
<1>2. RsmPlaces
  BY DEF RsmPlaces
<1>3. RsmVouched /\ RsmAtWork /\ RsmSomewhere
  BY DEF RsmVouched, RsmAtWork, RsmSomewhere
<1>4. QED
  BY <1>1, <1>2, <1>3 DEF RsmIInv

(* ... and every step keeps it, action by action.                          *)
LEMMA RsmNextIInv == RsmIInv /\ [RsmNextStep]_RsmVars => RsmIInv'
<1> SUFFICES ASSUME RsmIInv, [RsmNextStep]_RsmVars PROVE RsmIInv'
  OBVIOUS
<1> USE ResumeAssumption
    DEF RsmIInv, RsmTypes, RsmPlaces, RsmVouched, RsmAtWork, RsmSomewhere,
        RsmNone, RsmTorn
<1>1. CASE RsmCrash \/ RsmProgramStarts
  BY <1>1 DEF RsmCrash, RsmProgramStarts
<1>2. CASE RsmResume \/ RsmCannotResume
  BY <1>2 DEF RsmResume, RsmCannotResume
<1>3. CASE RsmBegin
  <2>1. RsmTypes'
    BY <1>3 DEF RsmBegin
  <2>2. RsmPlaces'
    BY <1>3 DEF RsmBegin
  <2>3. RsmVouched'
    BY <1>3 DEF RsmBegin
  <2>4. RsmAtWork' /\ RsmSomewhere'
    BY <1>3 DEF RsmBegin
  <2>5. QED
    BY <2>1, <2>2, <2>3, <2>4
<1>4. CASE RsmWrite
  <2>1. /\ rsmJob = "running" /\ rsmNext <= RsmFrames /\ rsmNext' = rsmNext + 1
        /\ rsmPart' = IF rsmNext = rsmPart + 1 THEN rsmNext ELSE rsmPart
        /\ rsmWhole' \in BOOLEAN /\ (rsmWhole' => rsmPart' = RsmFrames)
        /\ UNCHANGED <<rsmFile, rsmFinal, rsmJob, rsmStray>>
    BY <1>4 DEF RsmWrite
  <2>2. RsmTypes' /\ RsmPlaces'
    BY <2>1
  <2>3. RsmVouched' /\ RsmAtWork'
    BY <2>1
  <2>4. RsmSomewhere'
    BY <2>1
  <2>5. QED
    BY <2>2, <2>3, <2>4
<1>5. CASE RsmTruncate
  BY <1>5 DEF RsmTruncate
<1>6. CASE RsmComplete
  <2>1. /\ rsmJob = "running" /\ rsmFinal' \in {rsmFinal, "none"}
        /\ rsmJob' \in {"up", "finalizing", "unfinished"}
        /\ UNCHANGED <<rsmFile, rsmPart, rsmNext, rsmWhole, rsmStray>>
    BY <1>6 DEF RsmComplete
  <2>2. RsmTypes' /\ RsmPlaces'
    BY <2>1
  <2>3. RsmVouched' /\ RsmAtWork'
    BY <2>1
  <2>4. RsmSomewhere'
    BY <2>1
  <2>5. QED
    BY <2>2, <2>3, <2>4
<1>7. CASE (\E ok \in BOOLEAN : RsmSaved(ok))
  BY <1>7 DEF RsmSaved
<1>8. CASE (\E ok \in BOOLEAN : RsmRename(ok))
  BY <1>8 DEF RsmRename
<1>9. CASE (\E ok \in BOOLEAN : RsmClean(ok))
  BY <1>9 DEF RsmClean
<1>10. CASE (\E ok \in BOOLEAN : RsmCancel(ok))
  BY <1>10 DEF RsmCancel
<1>11. CASE UNCHANGED RsmVars
  BY <1>11 DEF RsmVars
<1>12. QED
  BY <1>1, <1>2, <1>3, <1>4, <1>5, <1>6, <1>7, <1>8, <1>9, <1>10, <1>11
     DEF RsmNextStep

(* It implies what is claimed.                                             *)
LEMMA RsmSafe == RsmIInv => RsmTypeOK /\ RsmNoGap /\ RsmFilmKept
BY DEF RsmIInv, RsmTypes, RsmPlaces, RsmAtWork, RsmSomewhere, RsmTypeOK,
   RsmNoGap, RsmFilmKept

(* A job that goes on from the checkpoint of its own .part leaves no gap   *)
(* in it; a whole film is in the .part or the output until it is cancelled *)
(* or a job starts over, and its checkpoint is removed after the renaming  *)
(* or after a failure of it (ResumeManager).                               *)
THEOREM ResumeSafety ==
  RsmSpec => [](RsmTypeOK /\ RsmNoGap /\ RsmFilmKept)
BY RsmInitIInv, RsmNextIInv, RsmSafe, PTL DEF RsmSpec

-----------------------------------------------------------------------------
(* DecryptingAVIO.                                                         *)

(* The byte of the keystream at an offset of a block.                      *)
AesByte(block, offset) == block * AesBlock + offset

(* A place in the film is the byte of its block at its remainder ...       *)
LEMMA AesDivision ==
  ASSUME NEW p \in Nat
  PROVE  /\ p \div AesBlock \in Nat /\ p % AesBlock \in 0 .. AesBlock - 1
         /\ AesByte(p \div AesBlock, p % AesBlock) = p
BY AesAssumption DEF AesByte

(* ... and no byte before it is of a later block.                          *)
LEMMA AesWithin ==
  ASSUME NEW b \in Nat, NEW p \in Nat, NEW o \in Nat, AesByte(b, o) <= p
  PROVE  b <= p \div AesBlock
<1> DEFINE q == p \div AesBlock  r == p % AesBlock
<1>1. q \in Nat /\ r \in 0 .. AesBlock - 1 /\ q * AesBlock + r = p
  BY AesDivision DEF AesByte
<1>2. AesBlock \in Nat /\ AesBlock > 0
  BY AesAssumption
<1>3. b * AesBlock <= p
  BY <1>2 DEF AesByte
<1>4. ASSUME b >= q + 1 PROVE FALSE
  <2> HIDE DEF q, r
  <2>1. b * AesBlock >= (q + 1) * AesBlock
    BY <1>1, <1>2, <1>4
  <2>2. (q + 1) * AesBlock = q * AesBlock + AesBlock
    BY <1>1, <1>2
  <2>3. QED
    BY <1>1, <1>2, <1>3, <2>1, <2>2
<1>5. QED
  <2> HIDE DEF q, r
  <2>1. b <= q
    BY <1>1, <1>4
  <2>2. QED
    BY <2>1 DEF q

(* The next byte, and the first of the next block.                         *)
LEMMA AesBytes ==
  ASSUME NEW b \in Nat, NEW o \in Nat
  PROVE  /\ AesByte(b, o) \in Nat /\ AesByte(b, o) >= b
         /\ AesByte(b, o + 1) = AesByte(b, o) + 1
         /\ AesByte(b + 1, 0) = AesByte(b, AesBlock)
<1>1. AesBlock \in Nat /\ AesBlock >= 1
  BY AesAssumption
<1>2. b * AesBlock \in Nat /\ b * AesBlock >= b
  BY <1>1
<1>3. (b + 1) * AesBlock = b * AesBlock + AesBlock
  BY <1>1
<1>4. QED
  BY <1>1, <1>2, <1>3 DEF AesByte

(* The numbers; a block is one of the film's or the one after them.        *)
AesNumbers ==
  /\ aesPos \in Nat /\ aesTodo \in Nat /\ aesPos + aesTodo <= AesSize
  /\ aesCounter \in Nat /\ aesCounter <= AesSize \div AesBlock + 1
  /\ aesKsBlock \in Nat /\ aesKsBlock <= AesSize \div AesBlock + 1
  /\ aesIv \in Nat /\ aesIv <= aesPos
  /\ aesSkip \in Nat /\ aesSkip < AesBlock
  /\ aesKs \in Nat /\ aesKs <= AesBlock

AesFlags == aesCtr \in BOOLEAN /\ aesRight \in BOOLEAN
  /\ aesAligned \in BOOLEAN

(* Where the keystream is: in ECB the block that was made and the place in *)
(* it, or the block to be made and where to begin in it ...                *)
AesEcbPlaced ==
  ~aesCtr =>
    /\ aesRight
    /\ aesKs = AesBlock => AesByte(aesCounter, aesSkip) = aesPos
    /\ aesKs < AesBlock =>
         /\ AesByte(aesKsBlock, aesKs) = aesPos
         /\ aesSkip = 0 /\ aesCounter = aesKsBlock + 1

(* ... in CTR the counter block's, within the rest that a seek left or in  *)
(* a bulk call, as long as none was cut.                                   *)
AesCtrPlaced ==
  aesCtr =>
    /\ aesKs < AesBlock
    /\ aesSkip > 0 =>
         /\ aesKs = 0 /\ aesIv = aesCounter /\ aesAligned
         /\ AesByte(aesIv, aesSkip) = aesPos
    /\ aesSkip = 0 /\ aesAligned => AesByte(aesIv, aesKs) = aesPos
    /\ aesAligned => aesRight

AesIInv == AesNumbers /\ AesFlags /\ AesEcbPlaced /\ AesCtrPlaced

(* It holds at first ...                                                   *)
LEMMA AesInitIInv == AesInit => AesIInv
<1> SUFFICES ASSUME AesInit PROVE AesIInv
  OBVIOUS
<1>1. AesByte(0, 0) = 0 /\ AesBlock \in Nat /\ AesBlock > 0
      /\ AesSize \in Nat /\ AesSize \div AesBlock \in Nat
  BY AesAssumption DEF AesByte
<1>2. AesNumbers
  BY <1>1 DEF AesInit, AesNumbers
<1>3. AesFlags
  BY DEF AesInit, AesFlags
<1>4. AesEcbPlaced /\ AesCtrPlaced
  BY <1>1 DEF AesInit, AesEcbPlaced, AesCtrPlaced
<1>5. QED
  BY <1>2, <1>3, <1>4 DEF AesIInv

(* ... and every step keeps it, action by action.                          *)
LEMMA AesNextIInv == AesIInv /\ [AesNext]_AesVars => AesIInv'
<1> SUFFICES ASSUME AesIInv, [AesNext]_AesVars PROVE AesIInv'
  OBVIOUS
<1> USE DEF AesIInv
<1> DEFINE last == AesSize \div AesBlock
<1>1. AesBlock \in Nat /\ AesBlock > 0 /\ AesSize \in Nat
  BY AesAssumption
<1>1a. last \in Nat
  BY <1>1, AesDivision
<1>2. AesNumbers /\ AesFlags /\ AesEcbPlaced /\ AesCtrPlaced
  OBVIOUS
<1>3. ASSUME NEW p \in 0 .. AesSize, AesSeek(p) PROVE AesIInv'
  <2> DEFINE b == p \div AesBlock  o == p % AesBlock
  <2>1. b \in Nat /\ o \in Nat /\ o < AesBlock /\ AesByte(b, o) = p
    BY <1>1, AesDivision
  <2>2. b <= last /\ b <= p
    <3> HIDE DEF b, o
    <3>1. AesByte(b, o) <= AesSize /\ p \in Nat
      BY <1>1, <2>1
    <3>2. b <= last
      BY <1>1, <2>1, <3>1, AesWithin
    <3>3. QED
      BY <2>1, <3>2, AesBytes
  <2>3. /\ aesPos' = p /\ aesCounter' = b /\ aesIv' = b /\ aesSkip' = o
        /\ aesKs' = IF aesCtr THEN 0 ELSE AesBlock
        /\ aesAligned' = TRUE /\ aesRight' = TRUE /\ aesTodo = 0
        /\ UNCHANGED <<aesCtr, aesKsBlock, aesTodo>>
    BY <1>3 DEF AesSeek
  <2> HIDE DEF b, o
  <2>4. AesNumbers'
    <3> HIDE DEF AesIInv
    <3>1. QED
      BY <1>1, <1>1a, <1>2, <2>1, <2>2, <2>3 DEF AesNumbers, last
  <2>5. AesFlags'
    BY <1>2, <2>3 DEF AesFlags
  <2>6. AesEcbPlaced' /\ AesCtrPlaced'
    BY <1>1, <2>1, <2>3 DEF AesEcbPlaced, AesCtrPlaced
  <2>7. QED
    BY <2>4, <2>5, <2>6
<1>4. ASSUME NEW n \in 1 .. AesSize, AesRead(n) PROVE AesIInv'
  BY <1>1, <1>2, <1>4
     DEF AesRead, AesNumbers, AesFlags, AesEcbPlaced, AesCtrPlaced
<1>5. CASE AesEcb
  <2> DEFINE new    == aesKs = AesBlock
             block  == IF new THEN aesCounter ELSE aesKsBlock
             offset == IF new THEN aesSkip ELSE aesKs
  <2>1. /\ aesTodo > 0 /\ aesPos' = aesPos + 1 /\ aesTodo' = aesTodo - 1
        /\ aesRight' = (aesRight /\ AesByte(block, offset) = aesPos)
        /\ aesKsBlock' = block /\ aesKs' = offset + 1
        /\ aesCounter' = IF new THEN aesCounter + 1 ELSE aesCounter
        /\ aesIv' = IF new THEN block ELSE aesIv
        /\ aesSkip' = IF new THEN 0 ELSE aesSkip
        /\ ~aesCtr /\ UNCHANGED <<aesCtr, aesAligned>>
    BY <1>5 DEF AesEcb, AesDecrypts, AesByte
  <2>2. block \in Nat /\ offset \in Nat /\ offset < AesBlock
        /\ AesByte(block, offset) = aesPos
    BY <1>1, <1>2, <2>1 DEF AesNumbers, AesEcbPlaced
  <2>3. aesCounter' = block + 1 /\ aesSkip' = 0
    BY <1>1, <1>2, <2>1 DEF AesNumbers, AesEcbPlaced
  <2>4. AesByte(block, offset + 1) = aesPos' /\ block <= aesPos
    BY <2>1, <2>2, AesBytes
  <2>5. block <= last
    BY <1>1, <1>2, <2>1, <2>2, AesWithin DEF AesNumbers
  <2>6. AesByte(block + 1, 0) = AesByte(block, AesBlock)
    BY <2>2, AesBytes
  <2>7. /\ aesPos \in Nat /\ aesTodo \in Nat /\ aesPos + aesTodo <= AesSize
        /\ aesIv \in Nat /\ aesIv <= aesPos
    BY <1>2 DEF AesNumbers
  <2>8. aesIv' \in Nat /\ aesIv' <= aesPos
    BY <2>1, <2>2, <2>4, <2>7
  <2> HIDE DEF block, offset
  <2>9. AesNumbers'
    <3> HIDE DEF AesIInv, last
    <3>1. aesCounter' <= last + 1 /\ aesKsBlock' <= last + 1
      BY <1>1a, <2>1, <2>2, <2>3, <2>5
    <3>2. QED
      BY <1>1, <2>1, <2>2, <2>3, <2>7, <2>8, <3>1 DEF AesNumbers, last
  <2>10. AesFlags' /\ AesEcbPlaced' /\ AesCtrPlaced'
    BY <1>1, <1>2, <2>1, <2>2, <2>3, <2>4, <2>6
       DEF AesFlags, AesEcbPlaced, AesCtrPlaced
  <2>11. QED
    BY <2>9, <2>10
<1>6. CASE AesCtrRest
  <2> DEFINE over == aesSkip + 1 = AesBlock
  <2>1. /\ aesTodo > 0 /\ aesPos' = aesPos + 1 /\ aesTodo' = aesTodo - 1
        /\ aesRight' = (aesRight /\ AesByte(aesIv, aesSkip) = aesPos)
        /\ aesSkip' = IF over THEN 0 ELSE aesSkip + 1
        /\ aesCounter' = IF over THEN aesCounter + 1 ELSE aesCounter
        /\ aesIv' = IF over THEN aesCounter + 1 ELSE aesIv
        /\ aesCtr /\ aesSkip > 0
             /\ UNCHANGED <<aesCtr, aesKs, aesKsBlock, aesAligned>>
    BY <1>6 DEF AesCtrRest, AesDecrypts, AesByte
  <2>2. /\ aesIv \in Nat /\ aesSkip \in Nat /\ aesSkip < AesBlock
        /\ aesKs = 0 /\ aesIv = aesCounter /\ aesAligned /\ aesRight
        /\ AesByte(aesIv, aesSkip) = aesPos
        /\ aesPos \in Nat /\ aesTodo \in Nat /\ aesPos + aesTodo <= AesSize
        /\ aesIv <= aesPos
    BY <1>2, <2>1 DEF AesNumbers, AesCtrPlaced
  <2>3. AesByte(aesIv, aesSkip + 1) = aesPos'
    BY <2>1, <2>2, AesBytes
  <2>4. aesIv <= last
    BY <1>1, <2>1, <2>2, AesWithin
  <2>5. AesByte(aesIv + 1, 0) = AesByte(aesIv, AesBlock)
    BY <2>2, AesBytes
  <2>6. AesNumbers'
    <3> HIDE DEF AesIInv, last
    <3>1. aesCounter' \in Nat /\ aesCounter' <= last + 1
          /\ aesIv' \in Nat /\ aesIv' <= aesPos'
      BY <1>1a, <2>1, <2>2, <2>4
    <3>2. aesSkip' \in Nat /\ aesSkip' < AesBlock
      BY <1>1, <2>1, <2>2
    <3>3. aesKsBlock \in Nat /\ aesKsBlock <= last + 1
      BY <1>2 DEF AesNumbers, last
    <3>4. QED
      BY <1>1, <2>1, <2>2, <3>1, <3>2, <3>3 DEF AesNumbers, last
  <2>7. AesFlags' /\ AesEcbPlaced' /\ AesCtrPlaced'
    BY <1>1, <1>2, <2>1, <2>2, <2>3, <2>5
       DEF AesFlags, AesEcbPlaced, AesCtrPlaced
  <2>8. QED
    BY <2>6, <2>7
<1>7. CASE AesCtrBulk
  <2> DEFINE over == aesKs + 1 = AesBlock
             cut  == aesTodo = 1 /\ ~over
  <2>1. /\ aesTodo > 0 /\ aesPos' = aesPos + 1 /\ aesTodo' = aesTodo - 1
        /\ aesRight' = (aesRight /\ AesByte(aesIv, aesKs) = aesPos)
        /\ aesKs' = IF over \/ cut THEN 0 ELSE aesKs + 1
        /\ aesIv' \in IF over THEN {aesIv + 1}
                      ELSE IF cut THEN {aesIv, aesIv + 1} ELSE {aesIv}
        /\ aesAligned' = (aesAligned /\ ~cut)
        /\ aesCtr /\ aesSkip = 0
             /\ UNCHANGED <<aesCtr, aesCounter, aesKsBlock, aesSkip>>
    BY <1>7 DEF AesCtrBulk, AesDecrypts, AesByte
  <2>2. /\ aesIv \in Nat /\ aesKs \in Nat /\ aesKs < AesBlock
        /\ aesAligned => AesByte(aesIv, aesKs) = aesPos /\ aesRight
        /\ aesPos \in Nat /\ aesTodo \in Nat /\ aesPos + aesTodo <= AesSize
        /\ aesIv <= aesPos
    BY <1>2, <2>1 DEF AesNumbers, AesCtrPlaced
  <2>3. AesByte(aesIv, aesKs + 1) = AesByte(aesIv, aesKs) + 1
    BY <2>2, AesBytes
  <2>4. AesByte(aesIv + 1, 0) = AesByte(aesIv, AesBlock)
    BY <2>2, AesBytes
  <2>5. AesNumbers'
    <3>1. aesIv' \in Nat /\ aesIv' <= aesPos' /\ aesKs' \in Nat
            /\ aesKs' <= AesBlock
      BY <1>1, <2>1, <2>2
    <3>2. QED
      BY <1>1, <1>2, <2>1, <2>2, <3>1 DEF AesNumbers
  <2>6. AesFlags' /\ AesEcbPlaced'
    BY <1>2, <2>1 DEF AesFlags, AesEcbPlaced
  <2>7. AesCtrPlaced'
    <3>1. CASE over
      <4>1. aesIv' = aesIv + 1 /\ aesKs' = 0 /\ aesAligned' = aesAligned
        BY <1>2, <2>1, <3>1 DEF AesFlags
      <4>2. aesKs + 1 = AesBlock
        BY <3>1
      <4>3. AesByte(aesIv', aesKs') = AesByte(aesIv, aesKs) + 1
        BY <2>3, <2>4, <4>1, <4>2
      <4>4. aesAligned' => AesByte(aesIv', aesKs') = aesPos' /\ aesRight'
        BY <2>1, <2>2, <4>1, <4>3
      <4>5. aesSkip' = 0 /\ 0 < AesBlock
        BY <1>1, <2>1
      <4>6. QED
        BY <4>1, <4>4, <4>5 DEF AesCtrPlaced
    <3>2. CASE cut
      <4>1. aesSkip' = 0 /\ aesKs' = 0 /\ aesAligned' = FALSE /\ 0 < AesBlock
        BY <1>1, <2>1, <3>2
      <4>2. QED
        BY <4>1 DEF AesCtrPlaced
    <3>3. CASE ~over /\ ~cut
      <4>1. aesIv' = aesIv /\ aesKs' = aesKs + 1 /\ aesAligned' = aesAligned
        BY <1>2, <2>1, <3>3 DEF AesFlags
      <4>2. aesKs + 1 < AesBlock
        BY <1>1, <2>2, <3>3
      <4>3. QED
        BY <1>1, <2>1, <2>2, <2>3, <4>1, <4>2 DEF AesCtrPlaced
    <3>4. QED
      BY <3>1, <3>2, <3>3
  <2>8. QED
    BY <2>5, <2>6, <2>7
<1>8. CASE UNCHANGED AesVars
  BY <1>2, <1>8
     DEF AesVars, AesNumbers, AesFlags, AesEcbPlaced, AesCtrPlaced
<1>9. QED
  BY <1>3, <1>4, <1>5, <1>6, <1>7, <1>8 DEF AesNext

(* It implies what is claimed.                                             *)
LEMMA AesSafe == AesIInv => AesTypeOK /\ AesOwnKeystream
<1> SUFFICES ASSUME AesIInv PROVE AesTypeOK /\ AesOwnKeystream
  OBVIOUS
<1> DEFINE last == AesSize \div AesBlock
<1>1. AesBlock \in Nat /\ AesBlock > 0 /\ AesSize \in Nat
  BY AesAssumption
<1>2. last \in Nat
  BY <1>1, AesDivision
<1>3. AesTypeOK
  BY <1>1, <1>2 DEF AesIInv, AesNumbers, AesFlags, AesTypeOK, AesBlocks
<1>4. AesOwnKeystream
  BY DEF AesIInv, AesEcbPlaced, AesCtrPlaced, AesFlags, AesOwnKeystream
<1>5. QED
  BY <1>3, <1>4

(* Every byte of a film is decrypted with its own byte of the keystream,   *)
(* whatever the reads and seeks before (DecryptingAVIO).                   *)
THEOREM DecryptionSafety ==
  AesSpec => [](AesTypeOK /\ AesOwnKeystream)
BY AesInitIInv, AesNextIInv, AesSafe, PTL DEF AesSpec

=============================================================================
