------------------------ MODULE MCServices_proofs ------------------------
(***************************************************************************)
(* The services together, as MCServices.tla composes them and TLC           *)
(* explores them: what the runs check of them, for every value of their     *)
(* constants. A step of the whole is a step of each service, or leaves it   *)
(* alone; each keeps its inductive invariant, by the lemmas of the three    *)
(* modules that this one extends.                                           *)
(***************************************************************************)
EXTENDS MCServices, FileServices_proofs, ControlServices_proofs,
        ThreadServices_proofs, TLAPS

(* Each service has its invariant.                                         *)
ServicesIInv ==
  /\ service \in Services
  /\ RecIInv /\ AacIInv /\ StrIInv /\ ExtIInv /\ AsrIInv
  /\ VsrIInv /\ VrmIInv /\ BrkIInv /\ MplIInv /\ BusIInv
  /\ FacIInv /\ EncIInv /\ RsmIInv /\ KeyIInv /\ AesIInv

(* A step is one of the explored service, and the others rest.             *)
LEMMA ServicesSteps ==
  [ServicesNext]_ServiceVars =>
    /\ service' = service
    /\ [RecNext]_RecVars /\ [AacNext]_AacVars /\ [StrNext]_StrVars
    /\ [ExtNext]_ExtVars /\ [AsrNext]_AsrVars /\ [VsrNextStep]_VsrVars
    /\ [VrmNext]_VrmVars /\ [BrkNext]_BrkVars /\ [MplNext]_MplVars
    /\ [BusNext]_BusVars /\ [FacNext]_FacVars /\ [EncNext]_EncVars
    /\ [RsmNextStep]_RsmVars /\ [KeyNext]_KeyVars /\ [AesNext]_AesVars
<1> SUFFICES ASSUME [ServicesNext]_ServiceVars
             PROVE  /\ service' = service
                    /\ [RecNext]_RecVars /\ [AacNext]_AacVars
                         /\ [StrNext]_StrVars
                    /\ [ExtNext]_ExtVars /\ [AsrNext]_AsrVars
                         /\ [VsrNextStep]_VsrVars
                    /\ [VrmNext]_VrmVars /\ [BrkNext]_BrkVars
                         /\ [MplNext]_MplVars
                    /\ [BusNext]_BusVars /\ [FacNext]_FacVars
                         /\ [EncNext]_EncVars
                    /\ [RsmNextStep]_RsmVars /\ [KeyNext]_KeyVars
                         /\ [AesNext]_AesVars
  OBVIOUS
<1>1. CASE Explored("recording") /\ RecNext
  BY <1>1 DEF Explored, Rests
<1>2. CASE Explored("audio") /\ AacNext
  BY <1>2 DEF Explored, Rests
<1>3. CASE Explored("streaming") /\ StrNext
  BY <1>3 DEF Explored, Rests
<1>4. CASE Explored("extractor") /\ ExtNext
  BY <1>4 DEF Explored, Rests
<1>5. CASE Explored("asr") /\ AsrNext
  BY <1>5 DEF Explored, Rests
<1>6. CASE Explored("vsr") /\ VsrNextStep
  BY <1>6 DEF Explored, Rests
<1>7. CASE Explored("vram") /\ VrmNext
  BY <1>7 DEF Explored, Rests
<1>8. CASE Explored("breaker") /\ BrkNext
  BY <1>8 DEF Explored, Rests
<1>9. CASE Explored("messages") /\ MplNext
  BY <1>9 DEF Explored, Rests
<1>10. CASE Explored("bus") /\ BusNext
  BY <1>10 DEF Explored, Rests
<1>11. CASE Explored("facade") /\ FacNext
  BY <1>11 DEF Explored, Rests
<1>12. CASE Explored("encryption") /\ EncNext
  BY <1>12 DEF Explored, Rests
<1>13. CASE Explored("resume") /\ RsmNextStep
  BY <1>13 DEF Explored, Rests
<1>14. CASE Explored("keys") /\ KeyNext
  BY <1>14 DEF Explored, Rests
<1>15. CASE Explored("avio") /\ AesNext
  BY <1>15 DEF Explored, Rests
<1>16. CASE UNCHANGED ServiceVars
  BY <1>16 DEF ServiceVars
<1>17. QED
  BY <1>1, <1>2, <1>3, <1>4, <1>5, <1>6, <1>7, <1>8, <1>9, <1>10, <1>11,
     <1>12, <1>13, <1>14, <1>15, <1>16 DEF ServicesNext

(* The invariants hold at first ...                                        *)
LEMMA ServicesInitIInv == ServicesInit => ServicesIInv
BY RecInitIInv, AacInitIInv, StrInitIInv, ExtInitIInv, AsrInitIInv,
   VsrInitIInv, VrmInitIInv, BrkInitIInv, MplInitIInv, BusInitIInv,
   FacInitIInv, EncInitIInv, RsmInitIInv, KeyInitIInv, AesInitIInv
   DEF ServicesInit, ServicesIInv

(* ... and every step keeps them.                                          *)
LEMMA ServicesNextIInv ==
  ServicesIInv /\ [ServicesNext]_ServiceVars => ServicesIInv'
<1> SUFFICES ASSUME ServicesIInv, [ServicesNext]_ServiceVars
             PROVE ServicesIInv'
  OBVIOUS
<1>1. RecIInv'
  BY ServicesSteps, RecNextIInv DEF ServicesIInv
<1>2. AacIInv'
  BY ServicesSteps, AacNextIInv DEF ServicesIInv
<1>3. StrIInv'
  BY ServicesSteps, StrNextIInv DEF ServicesIInv
<1>4. ExtIInv'
  BY ServicesSteps, ExtNextIInv DEF ServicesIInv
<1>5. AsrIInv'
  BY ServicesSteps, AsrNextIInv DEF ServicesIInv
<1>6. VsrIInv'
  BY ServicesSteps, VsrNextIInv DEF ServicesIInv
<1>7. VrmIInv'
  BY ServicesSteps, VrmNextIInv DEF ServicesIInv
<1>8. BrkIInv'
  BY ServicesSteps, BrkNextIInv DEF ServicesIInv
<1>9. MplIInv'
  BY ServicesSteps, MplNextIInv DEF ServicesIInv
<1>10. BusIInv'
  BY ServicesSteps, BusNextIInv DEF ServicesIInv
<1>11. FacIInv'
  BY ServicesSteps, FacNextIInv DEF ServicesIInv
<1>12. EncIInv'
  BY ServicesSteps, EncNextIInv DEF ServicesIInv
<1>13. RsmIInv'
  BY ServicesSteps, RsmNextIInv DEF ServicesIInv
<1>14. KeyIInv'
  BY ServicesSteps, KeyNextIInv DEF ServicesIInv
<1>15. AesIInv'
  BY ServicesSteps, AesNextIInv DEF ServicesIInv
<1>16. service' \in Services
  BY ServicesSteps DEF ServicesIInv
<1>17. QED
  BY <1>1, <1>2, <1>3, <1>4, <1>5, <1>6, <1>7, <1>8, <1>9, <1>10, <1>11,
     <1>12, <1>13, <1>14, <1>15, <1>16 DEF ServicesIInv

(* They imply what the runs check.                                         *)
LEMMA ServicesSafe ==
  ServicesIInv =>
    /\ ServicesTypeOK /\ ServiceThreadsOwned /\ RecordingWhole
    /\ UiIsTold /\ FilesWhole /\ RightKeys
    /\ VsrInOrder /\ VsrReleases /\ VrmAccounts /\ VrmNobodyOversleeps
         /\ BrkCoolsDown
<1> SUFFICES ASSUME ServicesIInv
             PROVE  /\ ServicesTypeOK /\ ServiceThreadsOwned /\ RecordingWhole
                    /\ UiIsTold /\ FilesWhole /\ RightKeys
                    /\ VsrInOrder /\ VsrReleases /\ VrmAccounts
                    /\ VrmNobodyOversleeps /\ BrkCoolsDown
  OBVIOUS
<1>1. /\ RecTypeOK /\ RecQuiet /\ RecFileWhole /\ RecNoGap
      /\ AacTypeOK /\ AacTimeline /\ AacDrained
      /\ StrTypeOK /\ StrOwned /\ StrShownIsOver
      /\ ExtTypeOK /\ ExtOwned /\ AsrTypeOK /\ AsrOwned
      /\ FacTypeOK /\ FacOneLoop
  BY RecSafe, AacSafe, StrSafe, ExtSafe, AsrSafe, FacSafe DEF ServicesIInv
<1>2. /\ VsrTypeOK /\ VsrOwned /\ VsrInOrder /\ VsrReleases
      /\ VrmTypeOK /\ VrmAccounts /\ VrmNobodyOversleeps
      /\ BrkTypeOK /\ BrkCoolsDown
      /\ MplTypeOK /\ MplSeekReaches /\ MplFlagHasMessage
      /\ BusTypeOK /\ BusNothingMissed
  BY VsrSafe, VrmSafe, BrkSafe, MplSafe, BusSafe DEF ServicesIInv
<1>3. /\ EncTypeOK /\ EncOutputWhole /\ EncBusyHasEnd
      /\ RsmTypeOK /\ RsmNoGap /\ RsmFilmKept
      /\ KeyTypeOK /\ KeyRecentKept /\ AesTypeOK /\ AesOwnKeystream
  BY EncSafe, RsmSafe, KeySafe, AesSafe DEF ServicesIInv
<1>4. service \in Services
  BY DEF ServicesIInv
<1>5. QED
  BY <1>1, <1>2, <1>3, <1>4
     DEF ServicesTypeOK, ServiceThreadsOwned, RecordingWhole, UiIsTold,
         FilesWhole, RightKeys

(* Every variable of every service keeps its type: no queue outgrows its   *)
(* capacity, and no counter its bound.                                     *)
THEOREM ServicesTyped == ServicesSpec => []ServicesTypeOK
BY ServicesInitIInv, ServicesNextIInv, ServicesSafe, PTL DEF ServicesSpec

(* Threads and what they own: what a thread uses is there while it does,   *)
(* and gone when the call that ends it has returned (the services of       *)
(* ThreadServices_proofs).                                                 *)
THEOREM ServicesOwnThreads == ServicesSpec => []ServiceThreadsOwned
BY ServicesInitIInv, ServicesNextIInv, ServicesSafe, PTL DEF ServicesSpec

(* A recording has its header, its packets and its trailer in this order;  *)
(* its frames are in order and without a gap the encoder did not make, and *)
(* its sound is stamped by its place (RecordingPipelineV2, AudioEncoder).  *)
THEOREM RecordingsWhole == ServicesSpec => []RecordingWhole
BY ServicesInitIInv, ServicesNextIInv, ServicesSafe, PTL DEF ServicesSpec

(* The end of a stream and of an encryption, the last seek and every event *)
(* reach whom they are for (StreamingPipeline, FileEncryptionService,      *)
(* MediaPlayer, EventBus).                                                 *)
THEOREM UiTold == ServicesSpec => []UiIsTold
BY ServicesInitIInv, ServicesNextIInv, ServicesSafe, PTL DEF ServicesSpec

(* A file of the final name is complete, and a resumed film has no gap and *)
(* is not thrown away, whenever the program crashes                        *)
(* (FileEncryptionService, ResumeManager).                                 *)
THEOREM FilesAreWhole == ServicesSpec => []FilesWhole
BY ServicesInitIInv, ServicesNextIInv, ServicesSafe, PTL DEF ServicesSpec

(* The keys used last are those kept, and a byte is decrypted with its own *)
(* byte of the keystream (SessionKeyCache, DecryptingAVIO).                *)
THEOREM KeysAreRight == ServicesSpec => []RightKeys
BY ServicesInitIInv, ServicesNextIInv, ServicesSafe, PTL DEF ServicesSpec

(* Frames are shown in order, memory is counted, the circuit cools down,   *)
(* and a circuit disabled by hand is enabled by hand (RealtimeVSRPipeline, *)
(* VRAMBudgetManager, VSRCircuitBreaker).                                  *)
THEOREM FramesAreAccounted == ServicesSpec => FramesAccounted
<1>1. ServicesIInv =>
        /\ VsrInOrder /\ VsrReleases /\ VrmAccounts
        /\ VrmNobodyOversleeps /\ BrkCoolsDown
  BY ServicesSafe
<1>2. [ServicesNext]_ServiceVars =>
        [brkState = "Disabled" /\ brkState' # "Disabled" =>
           brkState' = "Active" /\ brkVsr' = brkVsr]_BrkVars
  BY ServicesSteps, BrkNextDisabled
<1>3. QED
  BY <1>1, <1>2, ServicesInitIInv, ServicesNextIInv, PTL
     DEF ServicesSpec, FramesAccounted, BrkDisabledStays

=============================================================================
