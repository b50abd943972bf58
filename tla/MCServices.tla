----------------------------- MODULE MCServices -----------------------------
(***************************************************************************)
(* Instances, for TLC, of the services around the player.  They share no   *)
(* state, and call each other only at the places their modules name, so    *)
(* that a state of one says nothing of the others: the first state chooses *)
(* a service, and TLC explores what that one does while the others rest.   *)
(* That is the sum of their state spaces instead of the product, and each  *)
(* property below is the conjunction of what the services promise of one   *)
(* matter.                                                                 *)
(***************************************************************************)
EXTENDS RecordingPipeline, AudioEncoder, StreamingPipeline, StreamExtractor,
        ASRPipeline, RealtimeVSRPipeline, VRAMBudget, VSRCircuitBreaker,
        MediaPlayer, EventBus, PlayerFacade, FileEncryption, ResumeManager,
        SessionKeyCache, DecryptingAVIO

Services == {"recording", "audio", "streaming", "extractor", "asr", "vsr",
             "vram", "breaker", "messages", "bus", "facade", "encryption",
             "resume", "keys", "avio"}

VARIABLE service   (* the one whose behaviour is explored                    *)

ServiceVars ==
  <<service, RecVars, AacVars, StrVars, ExtVars, AsrVars, VsrVars, VrmVars,
    BrkVars, MplVars, BusVars, FacVars, EncVars, RsmVars, KeyVars, AesVars>>

(* A service that is not explored has one state, whichever it could be in. *)
ServicesInit ==
  /\ service \in Services
  /\ RecInit /\ AacInit /\ StrInit /\ ExtInit /\ AsrInit /\ VsrInit /\ VrmInit
  /\ BrkInit /\ MplInit /\ BusInit /\ FacInit /\ EncInit /\ RsmInit /\ KeyInit
  /\ AesInit
  /\ service # "encryption" => ~encUnix /\ ~encScanned
  /\ service # "resume" => rsmFinal = "none"
  /\ service # "avio" => ~aesCtr

(* A service that is not explored rests.                                   *)
Rests(s, vars) == IF service = s THEN TRUE ELSE UNCHANGED vars

Explored(s) ==
  /\ service = s /\ UNCHANGED service
  /\ Rests("recording", RecVars) /\ Rests("audio", AacVars)
  /\ Rests("streaming", StrVars) /\ Rests("extractor", ExtVars)
  /\ Rests("asr", AsrVars)       /\ Rests("vsr", VsrVars)
  /\ Rests("vram", VrmVars)      /\ Rests("breaker", BrkVars)
  /\ Rests("messages", MplVars)  /\ Rests("bus", BusVars)
  /\ Rests("facade", FacVars)    /\ Rests("encryption", EncVars)
  /\ Rests("resume", RsmVars)    /\ Rests("keys", KeyVars)
  /\ Rests("avio", AesVars)

ServicesNext ==
  \/ Explored("recording")  /\ RecNext
  \/ Explored("audio")      /\ AacNext
  \/ Explored("streaming")  /\ StrNext
  \/ Explored("extractor")  /\ ExtNext
  \/ Explored("asr")        /\ AsrNext
  \/ Explored("vsr")        /\ VsrNextStep
  \/ Explored("vram")       /\ VrmNext
  \/ Explored("breaker")    /\ BrkNext
  \/ Explored("messages")   /\ MplNext
  \/ Explored("bus")        /\ BusNext
  \/ Explored("facade")     /\ FacNext
  \/ Explored("encryption") /\ EncNext
  \/ Explored("resume")     /\ RsmNextStep
  \/ Explored("keys")       /\ KeyNext
  \/ Explored("avio")       /\ AesNext

(***************************************************************************)
(* The fairness of the services' own modules, thread by thread: a service  *)
(* has at most four, and one formula states it of the first thread of      *)
(* whatever service is explored, another of the second, and so on.  The    *)
(* variables that such a step changes are those of that service.           *)
(***************************************************************************)
ExploredVars ==
  CASE service = "recording" -> RecVars [] service = "streaming" -> StrVars
    [] service = "extractor" -> ExtVars [] service = "asr" -> AsrVars
    [] service = "vsr" -> VsrVars       [] service = "messages" -> MplVars
    [] service = "bus" -> BusVars       [] service = "encryption" -> EncVars
    [] OTHER -> <<>>

Moves(s) == service = s /\ UNCHANGED service

UiThread ==
  \/ Moves("recording")  /\ RecUiMoves
  \/ Moves("streaming")  /\ StrUiMoves
  \/ Moves("extractor")  /\ ExtUiMoves
  \/ Moves("asr")        /\ AsrUiMoves
  \/ Moves("vsr")        /\ VsrUiMoves
  \/ Moves("messages")   /\ MplUiStep
  \/ Moves("encryption") /\ EncUiStep

WorkerThread ==
  \/ Moves("recording")  /\ RecCaptureMoves
  \/ Moves("streaming")  /\ StrLoop
  \/ Moves("extractor")  /\ ExtWorkerMoves
  \/ Moves("asr")        /\ AsrWorkerMoves
  \/ Moves("vsr")        /\ VsrDecodeMoves
  \/ Moves("messages")   /\ MplLoopStep
  \/ Moves("bus")        /\ BusDispatch
  \/ Moves("encryption") /\ EncWorkerStep

SecondWorker ==
  \/ Moves("recording")  /\ RecEncodeMoves
  \/ Moves("asr")        /\ AsrPreloadMoves
  \/ Moves("vsr")        /\ VsrVsrMoves

ThirdWorker ==
  \/ Moves("recording")  /\ RecAudioMoves
  \/ Moves("vsr")        /\ VsrRenderMoves

ServicesSpec ==
  /\ ServicesInit /\ [][ServicesNext]_ServiceVars
  /\ WF_ExploredVars(UiThread) /\ WF_ExploredVars(WorkerThread)
  /\ WF_ExploredVars(SecondWorker) /\ WF_ExploredVars(ThirdWorker)

-----------------------------------------------------------------------------
(* The types of every service's state.                                     *)
ServicesTypeOK ==
  /\ service \in Services
  /\ RecTypeOK /\ AacTypeOK /\ StrTypeOK /\ ExtTypeOK /\ AsrTypeOK
  /\ VsrTypeOK /\ VrmTypeOK /\ BrkTypeOK /\ MplTypeOK /\ BusTypeOK
  /\ FacTypeOK /\ EncTypeOK /\ RsmTypeOK /\ KeyTypeOK /\ AesTypeOK

(* Threads and what they own: a recording that is over has none and its    *)
(* file is closed; a source, an engine, a child process or a pipeline's    *)
(* buffers are there while a thread uses them and gone once the call that  *)
(* ends it has returned; one demuxer loop reads the media, and a player    *)
(* that plays has one, but for what FacOneLoop names.                      *)
ServiceThreadsOwned ==
  /\ RecQuiet /\ StrOwned /\ ExtOwned /\ AsrOwned /\ VsrOwned /\ FacOneLoop

(* A recording has its header, its packets and its trailer in this order;  *)
(* its frames are in order, and queue, encoder or muxer failed on each     *)
(* that is missing before another; its sound is stamped by the samples     *)
(* converted before it, and a flush leaves none behind.                    *)
RecordingWhole == RecFileWhole /\ RecNoGap /\ AacTimeline /\ AacDrained

(* What the user is shown, and what is asked for him, gets there: the end  *)
(* of a stream or of an encryption, the last seek, every event.            *)
UiIsTold ==
  /\ StrShownIsOver /\ EncBusyHasEnd /\ MplSeekReaches /\ MplFlagHasMessage
  /\ BusNothingMissed

(* Super resolution shows its frames in order and gives back every buffer; *)
(* the VRAM counted is the VRAM used, and nobody sleeps beside free        *)
(* memory; the circuit cools down before it is probed, and is not closed   *)
(* by anybody else when the user has turned it off.                        *)
FramesAccounted ==
  /\ [](/\ VsrInOrder /\ VsrReleases /\ VrmAccounts /\ VrmNobodyOversleeps
        /\ BrkCoolsDown)
  /\ BrkDisabledStays

(* Files: an .hlv of the final name is complete; a resumed film has no     *)
(* gap, but behind a checkpoint that outlived its .part; one that is whole *)
(* stays until it is cancelled or a job starts over, and keeps its         *)
(* checkpoint till then or till it is the output, but after a failed       *)
(* finalizeOutput(), whenever the program crashes.                         *)
FilesWhole == EncOutputWhole /\ RsmNoGap /\ RsmFilmKept

(* Keys: the last ones used are those kept, and a byte is decrypted with   *)
(* its own byte of the keystream.                                          *)
RightKeys == KeyRecentKept /\ AesOwnKeystream

(* Every call of the user interface returns, and what it started ends: a   *)
(* recording that is stopped, a stream that is cancelled or at its end, an *)
(* extraction, the toggles of speech recognition, the stop of super        *)
(* resolution, the destruction of the player, an encryption.  As one       *)
(* service is explored and the others do nothing from the first state on,  *)
(* RecStopEnds, StrEverEnds, ExtEnds, AsrCallsEnd, VsrStopEnds and         *)
(* EncAnswered are, together, these two formulas.                          *)
InCall == RecInCall \/ StrInCall \/ ExtInCall \/ AsrInCall \/ VsrInCall \/ EncInCall
AtWork == StrAtWork \/ ExtAtWork \/ encBusy

CallsEnd == (InCall ~> ~InCall) /\ (AtWork ~> ~AtWork) /\ MplEnds
=============================================================================
