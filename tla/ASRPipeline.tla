---------------------------- MODULE ASRPipeline ----------------------------
(***************************************************************************)
(* ASRPipeline, the subtitles made from the sound, and QMLASRBridge, which *)
(* turns it on and off from the thread of the user interface.  A detached  *)
(* thread preloads the model at start-up, a worker thread recognises the   *)
(* sound that the player's audio thread puts into audioQueue_.             *)
(*                                                                         *)
(* engine_ is read and assigned without a lock by the UI thread, the       *)
(* worker and the preload thread: only their order keeps it theirs.  The   *)
(* sound is of the player (AudioSourceType::VideoTrack).                   *)
(***************************************************************************)
EXTENDS Integers

CONSTANTS
  AsrQueueSize,  (* maxQueueSize_                                           *)
  AsrToggles     (* bound: how often the user turns it on                   *)

ASSUME AsrAssumption == AsrQueueSize \in Nat \ {0} /\ AsrToggles \in Nat

VARIABLES
  asrState, asrRunning,
  asrEngine,      (* engine_: "none", "loaded", or "failed" to initialize   *)
  asrCached,      (* modelCached_                                           *)
  asrPreloading,  (* preloading_                                            *)
  asrPreload,     (* the preload thread                                     *)
  asrWorker,      (* the worker: "none", where it is, "ended" but joinable  *)
  asrTerminated,  (* a joinable thread was assigned to: std::terminate      *)
  asrQueue,       (* the chunks in audioQueue_                              *)
  asrFeed,        (* feedAudioFrame() has made room                         *)
  asrRegistered,  (* audioCallbackRegistered                                *)
  asrEnabled, asrUi, asrCount

asrSound  == <<asrQueue, asrFeed, asrRegistered>>
asrModel  == <<asrEngine, asrCached, asrPreloading, asrPreload>>
asrThread == <<asrWorker, asrTerminated>>
AsrVars == <<asrState, asrRunning, asrModel, asrThread, asrSound, asrEnabled,
             asrUi, asrCount>>

AsrTypeOK ==
  /\ asrState \in {"Idle", "Ready", "Running", "Error"} /\ asrRunning \in BOOLEAN
  /\ asrEngine \in {"none", "loaded", "failed"}
  /\ asrCached \in BOOLEAN /\ asrPreloading \in BOOLEAN
  /\ asrPreload \in {"none", "due", "loading", "loaded", "done"}
  /\ asrWorker \in {"none", "load", "failed", "loaded", "stale", "loop", "ended"}
  /\ asrTerminated \in BOOLEAN
  /\ asrQueue \in 0 .. AsrQueueSize /\ asrFeed \in BOOLEAN
  /\ asrRegistered \in BOOLEAN /\ asrEnabled \in BOOLEAN
  /\ asrUi \in {"idle", "wait", "init", "start", "set", "stop", "close"}
  /\ asrCount \in 0 .. AsrToggles

AsrInit ==
  /\ asrState = "Idle" /\ asrRunning = FALSE /\ asrEngine = "none"
  /\ asrCached = FALSE /\ asrPreloading = FALSE /\ asrPreload = "none"
  /\ asrWorker = "none" /\ asrTerminated = FALSE
  /\ asrQueue = 0 /\ asrFeed = FALSE /\ asrRegistered = FALSE
  /\ asrEnabled = FALSE /\ asrUi = "idle" /\ asrCount = 0

(* Main.qml calls setModelDirectory() once, at start-up: the pipeline is   *)
(* made and initialized, and preloadModel() queued before any user event.  *)
AsrSetModelDirectory ==
  /\ asrPreload = "none"
  /\ asrState' = "Ready" /\ asrPreload' = "due"
  /\ UNCHANGED <<asrRunning, asrEngine, asrCached, asrPreloading, asrThread,
                 asrSound, asrEnabled, asrUi, asrCount>>

AsrPreloadModel ==
  /\ asrPreload = "due"
  /\ asrPreloading' = TRUE /\ asrPreload' = "loading"
  /\ UNCHANGED <<asrState, asrRunning, asrEngine, asrCached, asrThread,
                 asrSound, asrEnabled, asrUi, asrCount>>

(* The preload thread, which keeps nothing of a model that does not load.  *)
AsrPreloads ==
  /\ asrPreload = "loading"
  /\ \/ asrEngine' = "loaded" /\ asrCached' = TRUE
     \/ UNCHANGED <<asrEngine, asrCached>>
  /\ asrPreload' = "loaded"
  /\ UNCHANGED <<asrState, asrRunning, asrPreloading, asrThread, asrSound,
                 asrEnabled, asrUi, asrCount>>

AsrPreloaded ==
  /\ asrPreload = "loaded"
  /\ asrPreloading' = FALSE /\ asrPreload' = "done"
  /\ UNCHANGED <<asrState, asrRunning, asrEngine, asrCached, asrThread,
                 asrSound, asrEnabled, asrUi, asrCount>>

(* setEnabled(true), startPipeline(), initialize(): wait for the preload   *)
(* thread; shut down what is not Idle (setEnabled(false) has stopped it:   *)
(* running_ is not set, and there is no worker to join here) ...           *)
AsrEnable ==
  /\ asrUi = "idle" /\ ~asrEnabled /\ asrCount < AsrToggles
  /\ asrPreload \notin {"none", "due"}
  /\ asrEnabled' = TRUE /\ asrCount' = asrCount + 1
  /\ asrUi' = IF asrState = "Running" THEN "idle" ELSE "wait"
  /\ UNCHANGED <<asrState, asrRunning, asrModel, asrThread, asrSound>>

AsrAwaitsPreload ==
  /\ asrUi = "wait" /\ ~asrPreloading
  /\ asrUi' = "init"
  /\ UNCHANGED <<asrState, asrRunning, asrModel, asrThread, asrSound, asrEnabled,
                 asrCount>>

(* ... and keeps the engine, loaded or not, as the cached one, which may   *)
(* have expired.                                                           *)
AsrInitialized ==
  /\ asrUi = "init"
  /\ LET cached == asrCached \/ (asrState # "Idle" /\ asrEngine # "none")
     IN  \/ asrCached' = cached /\ UNCHANGED asrEngine
         \/ /\ cached /\ asrEngine # "none"
            /\ asrCached' = FALSE /\ asrEngine' = "none"
  /\ asrState' = "Ready"
  /\ asrUi' = "start"
  /\ UNCHANGED <<asrRunning, asrPreloading, asrPreload, asrThread, asrSound,
                 asrEnabled, asrCount>>

(* start(): Ready becomes Running, the worker starts, and setState(Running)*)
(* comes after it, over an Error of the worker too.                        *)
AsrStart ==
  /\ asrUi = "start" /\ asrState = "Ready"
  /\ asrState' = "Running" /\ asrRunning' = TRUE
  /\ asrTerminated' = (asrTerminated \/ asrWorker # "none")
  /\ asrWorker' = "load"
  /\ asrUi' = "set"
  /\ UNCHANGED <<asrModel, asrSound, asrEnabled, asrCount>>

AsrStarted ==
  /\ asrUi = "set"
  /\ asrState' = "Running"
  /\ asrUi' = "idle"
  /\ UNCHANGED <<asrRunning, asrModel, asrThread, asrSound, asrEnabled, asrCount>>

(* setEnabled(false), stopPipeline(): the callback, stop(), reset(), and   *)
(* shutdown().                                                             *)
AsrDisable ==
  /\ asrUi = "idle" /\ asrEnabled
  /\ asrEnabled' = FALSE /\ asrRegistered' = FALSE /\ asrRunning' = FALSE
  /\ asrUi' = "stop"
  /\ UNCHANGED <<asrState, asrModel, asrThread, asrQueue, asrFeed, asrCount>>

AsrStops ==
  /\ asrUi = "stop" /\ asrWorker \in {"none", "ended"}
  /\ asrWorker' = "none" /\ asrState' = "Ready"
  /\ asrQueue' = 0
  /\ asrUi' = "close"
  /\ UNCHANGED <<asrRunning, asrModel, asrTerminated, asrFeed, asrRegistered,
                 asrEnabled, asrCount>>

AsrShutDown ==
  /\ asrUi = "close"
  /\ asrCached' = (asrCached \/ asrEngine # "none")
  /\ asrState' = "Idle"
  /\ asrUi' = "idle"
  /\ UNCHANGED <<asrRunning, asrEngine, asrPreloading, asrPreload, asrThread,
                 asrSound, asrEnabled, asrCount>>

(* ensureAudioCallbackRegistered(), when the player says Playing; and the  *)
(* audio thread in feedAudioFrame(), which drops the oldest for the newest.*)
AsrRegister ==
  /\ asrUi = "idle" /\ ~asrRegistered /\ asrPreload # "none"
  /\ asrRegistered' = TRUE
  /\ UNCHANGED <<asrState, asrRunning, asrModel, asrThread, asrQueue, asrFeed,
                 asrEnabled, asrUi, asrCount>>

AsrMakesRoom ==
  /\ asrRegistered /\ ~asrFeed
  /\ asrQueue' = IF asrQueue >= AsrQueueSize THEN AsrQueueSize - 1 ELSE asrQueue
  /\ asrFeed' = TRUE
  /\ UNCHANGED <<asrState, asrRunning, asrModel, asrThread, asrRegistered,
                 asrEnabled, asrUi, asrCount>>

AsrFeeds ==
  /\ asrFeed
  /\ asrQueue' = asrQueue + 1 /\ asrFeed' = FALSE
  /\ UNCHANGED <<asrState, asrRunning, asrModel, asrThread, asrRegistered,
                 asrEnabled, asrUi, asrCount>>

(* workerLoop(): a model that fails to load stays in engine_, and running_ *)
(* stays set.                                                              *)
AsrLoads ==
  /\ asrWorker = "load"
  /\ IF asrEngine # "none"
     THEN asrWorker' = "loaded" /\ UNCHANGED asrEngine
     ELSE \E r \in {"loaded", "failed"} : asrWorker' = r /\ asrEngine' = r
  /\ UNCHANGED <<asrState, asrRunning, asrCached, asrPreloading, asrPreload,
                 asrTerminated, asrSound, asrEnabled, asrUi, asrCount>>

AsrReports ==
  /\ asrWorker \in {"loaded", "failed"}
  /\ asrState'  = IF asrWorker = "failed" THEN "Error" ELSE "Running"
  /\ asrWorker' = IF asrWorker = "failed" THEN "ended" ELSE "stale"
  /\ UNCHANGED <<asrRunning, asrModel, asrTerminated, asrSound, asrEnabled,
                 asrUi, asrCount>>

AsrDropsStale ==
  /\ asrWorker = "stale"
  /\ asrQueue' = 0 /\ asrWorker' = "loop"
  /\ UNCHANGED <<asrState, asrRunning, asrModel, asrTerminated, asrFeed,
                 asrRegistered, asrEnabled, asrUi, asrCount>>

AsrRecognises ==
  /\ asrWorker = "loop" /\ asrRunning /\ asrQueue > 0
  /\ asrQueue' = asrQueue - 1
  /\ UNCHANGED <<asrState, asrRunning, asrModel, asrThread, asrFeed,
                 asrRegistered, asrEnabled, asrUi, asrCount>>

AsrWorkerEnds ==
  /\ asrWorker = "loop" /\ ~asrRunning
  /\ asrWorker' = "ended"
  /\ UNCHANGED <<asrState, asrRunning, asrModel, asrTerminated, asrSound,
                 asrEnabled, asrUi, asrCount>>

AsrUiMoves == \/ AsrPreloadModel \/ AsrAwaitsPreload \/ AsrInitialized
              \/ AsrStart \/ AsrStarted \/ AsrStops \/ AsrShutDown
AsrPreloadMoves == AsrPreloads \/ AsrPreloaded
AsrWorkerMoves  == \/ AsrLoads \/ AsrReports \/ AsrDropsStale \/ AsrRecognises
                   \/ AsrWorkerEnds
AsrNext == \/ AsrSetModelDirectory \/ AsrEnable \/ AsrDisable
           \/ AsrRegister \/ AsrMakesRoom \/ AsrFeeds
           \/ AsrUiMoves \/ AsrPreloadMoves \/ AsrWorkerMoves

(* The threads are scheduled, and a model loads or fails in the end.       *)
AsrFairness == WF_AsrVars(AsrUiMoves) /\ WF_AsrVars(AsrPreloadMoves) /\ WF_AsrVars(AsrWorkerMoves)
AsrSpec == AsrInit /\ [][AsrNext]_AsrVars /\ AsrFairness

-----------------------------------------------------------------------------
(* No thread is assigned over one that was not joined, not after a worker  *)
(* that ended by itself; the preload thread assigns engine_ only while no  *)
(* worker uses it; and when the user has turned it off there is no worker. *)
AsrOwned ==
  /\ ~asrTerminated
  /\ asrPreload = "loading" => asrWorker = "none"
  /\ ~asrEnabled /\ asrUi = "idle" => asrWorker = "none" /\ asrState \in {"Idle", "Ready"}

(* The UI thread comes back from waiting for the preload and the worker.   *)
AsrInCall == asrUi # "idle"
AsrCallsEnd == AsrInCall ~> ~AsrInCall
=============================================================================
