-------------------------- MODULE StreamExtractor --------------------------
(***************************************************************************)
(* StreamExtractor asks a child process (yt-dlp) for the address of a      *)
(* stream, with retries, in a thread of its own.  One other thread calls   *)
(* resolve(), cancel() and the destructor.  The child is that of the Unix  *)
(* implementation; what it prints is left out.                             *)
(***************************************************************************)
EXTENDS Integers

CONSTANT ExtRetries   (* maxRetries_                                        *)

ASSUME ExtractorAssumption == ExtRetries \in Nat

VARIABLES
  extRunning, extCancelled,
  extPid,       (* childPid_ is the process id of a child                   *)
  extChild,     (* "runs", "closed" its output, "dead" but not waited for   *)
  extAt,        (* where the worker is; "ended" until it is joined          *)
  extTry,       (* attempt                                                  *)
  extAnswers,   (* calls of the callback in this job                        *)
  extUi,        (* where the other thread is                                *)
  extLeaving    (* in the destructor                                        *)

extFlags == <<extRunning, extCancelled>>
ExtVars  == <<extFlags, extPid, extChild, extAt, extTry, extAnswers, extUi,
              extLeaving>>

ExtTypeOK ==
  /\ extRunning \in BOOLEAN /\ extCancelled \in BOOLEAN /\ extPid \in BOOLEAN
  /\ extChild \in {"none", "runs", "closed", "dead"}
  /\ extAt \in {"none", "attempt", "spawn", "store", "read", "over", "wait",
                "clear", "check", "answer", "stop", "ended"}
  /\ extTry \in 0 .. ExtRetries + 1 /\ extAnswers \in 0 .. 1
  /\ extUi \in {"idle", "flag", "kill", "join", "gone", "terminated"}
  /\ extLeaving \in BOOLEAN

ExtInit ==
  /\ extRunning = FALSE /\ extCancelled = FALSE /\ extPid = FALSE
  /\ extChild = "none" /\ extAt = "none" /\ extTry = 0 /\ extAnswers = 0
  /\ extUi = "idle" /\ extLeaving = FALSE

(* resolve() of an extractor that was not used before ...                  *)
ExtResolve ==
  /\ extUi = "idle" /\ ~extRunning /\ extAt = "none"
  /\ extCancelled' = FALSE /\ extRunning' = TRUE
  /\ extAt' = "attempt" /\ extTry' = 0 /\ extAnswers' = 0
  /\ UNCHANGED <<extPid, extChild, extUi, extLeaving>>

(* ... and again: workerThread_ is still joinable, and std::thread's       *)
(* assignment ends the program.                                            *)
ExtResolveAgain ==
  /\ extUi = "idle" /\ ~extRunning /\ extAt # "none"
  /\ extCancelled' = FALSE /\ extRunning' = TRUE
  /\ extUi' = "terminated"
  /\ UNCHANGED <<extPid, extChild, extAt, extTry, extAnswers, extLeaving>>

(* cancel(), also from the destructor: the test of running_ ...            *)
ExtCancel(leaving) ==
  /\ extUi = "idle"
  /\ extLeaving' = leaving
  /\ \/ extRunning /\ extUi' = "flag"
     \/ ~extRunning /\ leaving /\ extUi' = "join"
  /\ UNCHANGED <<extFlags, extPid, extChild, extAt, extTry, extAnswers>>

(* ... the flag, and under processMutex_ the kill.                         *)
ExtFlag ==
  /\ extUi = "flag"
  /\ extCancelled' = TRUE
  /\ extUi' = "kill"
  /\ UNCHANGED <<extRunning, extPid, extChild, extAt, extTry, extAnswers,
                 extLeaving>>

ExtKilled == IF extChild \in {"runs", "closed"} THEN "dead" ELSE extChild

ExtKill ==
  /\ extUi = "kill"
  /\ extChild' = IF extPid THEN ExtKilled ELSE extChild
  /\ extUi' = IF extLeaving THEN "join" ELSE "idle"
  /\ UNCHANGED <<extFlags, extPid, extAt, extTry, extAnswers, extLeaving>>

ExtJoin ==
  /\ extUi = "join" /\ extAt \in {"none", "ended"}
  /\ extAt' = "none" /\ extUi' = "gone"
  /\ UNCHANGED <<extFlags, extPid, extChild, extTry, extAnswers, extLeaving>>

(* The worker at its place p, as long as there is a program, going to q.   *)
ExtGo(p, q) == extUi # "terminated" /\ extAt = p /\ extAt' = q

ExtWorker == <<extChild, extPid, extTry, extAnswers>>
ExtOthers == UNCHANGED <<extCancelled, extUi, extLeaving>>

(* runExtraction(): a cancel before an attempt or in its backoff, or no    *)
(* attempt left.                                                           *)
ExtGivesUp ==
  /\ ExtGo("attempt", "answer")
  /\ extCancelled \/ extTry > ExtRetries
  /\ ExtOthers /\ UNCHANGED <<extRunning, ExtWorker>>

ExtAttempts_Mutant ==
  /\ ExtGo("attempt", "spawn")
  /\ ~extCancelled /\ extTry <= ExtRetries + 1
  /\ ExtOthers /\ UNCHANGED <<extRunning, ExtWorker>>

ExtAttempts ==
  /\ ExtGo("attempt", "spawn")
  /\ ~extCancelled /\ extTry <= ExtRetries
  /\ ExtOthers /\ UNCHANGED <<extRunning, ExtWorker>>

(* runYtdlpUnix(): pipe() or fork() fails, or there is a child.            *)
ExtSpawnFails ==
  /\ ExtGo("spawn", "check")
  /\ ExtOthers /\ UNCHANGED <<extRunning, ExtWorker>>

ExtSpawns ==
  /\ ExtGo("spawn", "store")
  /\ extChild' = "runs"
  /\ ExtOthers /\ UNCHANGED <<extRunning, extPid, extTry, extAnswers>>

ExtStores ==
  /\ ExtGo("store", "read")
  /\ extPid' = TRUE
  /\ ExtOthers /\ UNCHANGED <<extRunning, extChild, extTry, extAnswers>>

(* The loop ends on a cancel and at the end of the output; after the time  *)
(* it kills the child ...                                                  *)
ExtReadEnds ==
  /\ ExtGo("read", "over")
  /\ extCancelled \/ extChild # "runs"
  /\ ExtOthers /\ UNCHANGED <<extRunning, ExtWorker>>

ExtTimesOut ==
  /\ ExtGo("read", "wait")
  /\ ~extCancelled
  /\ extChild' = ExtKilled
  /\ ExtOthers /\ UNCHANGED <<extRunning, extPid, extTry, extAnswers>>

(* ... and so it does when it sees a cancel behind the loop.               *)
ExtOver_Mutant ==
  /\ ExtGo("over", "wait")
  /\ ExtOthers /\ UNCHANGED <<extRunning, ExtWorker>>

ExtOver ==
  /\ ExtGo("over", "wait")
  /\ extChild' = IF extCancelled THEN ExtKilled ELSE extChild
  /\ ExtOthers /\ UNCHANGED <<extRunning, extPid, extTry, extAnswers>>

(* waitpid() has no timeout.                                               *)
ExtWaits ==
  /\ ExtGo("wait", "clear")
  /\ extChild = "dead" /\ extChild' = "none"
  /\ ExtOthers /\ UNCHANGED <<extRunning, extPid, extTry, extAnswers>>

ExtClears ==
  /\ ExtGo("clear", "check")
  /\ extPid' = FALSE
  /\ ExtOthers /\ UNCHANGED <<extRunning, extChild, extTry, extAnswers>>

(* An answer after a cancel or a success; a new attempt after a failure.   *)
ExtChecks ==
  /\ \/ ExtGo("check", "answer") /\ UNCHANGED extTry
     \/ ~extCancelled /\ ExtGo("check", "attempt") /\ extTry' = extTry + 1
  /\ ExtOthers /\ UNCHANGED <<extRunning, extChild, extPid, extAnswers>>

ExtAnswers ==
  /\ ExtGo("answer", "stop")
  /\ extAnswers' = extAnswers + 1
  /\ ExtOthers /\ UNCHANGED <<extRunning, extChild, extPid, extTry>>

ExtStops ==
  /\ ExtGo("stop", "ended")
  /\ extRunning' = FALSE
  /\ ExtOthers /\ UNCHANGED ExtWorker

(* The child closes its output, and ends.                                  *)
ExtChildMoves ==
  /\ \/ extChild = "runs" /\ extChild' \in {"closed", "dead"}
     \/ extChild = "closed" /\ extChild' = "dead"
  /\ UNCHANGED <<extFlags, extPid, extAt, extTry, extAnswers, extUi, extLeaving>>

ExtWorkerMoves ==
  \/ ExtGivesUp \/ ExtAttempts \/ ExtSpawnFails \/ ExtSpawns \/ ExtStores
  \/ ExtReadEnds \/ ExtTimesOut \/ ExtOver \/ ExtWaits \/ ExtClears
  \/ ExtChecks \/ ExtAnswers \/ ExtStops
ExtUiMoves == ExtFlag \/ ExtKill \/ ExtJoin

ExtNext ==
  \/ ExtResolve \/ ExtResolveAgain \/ \E leaving \in BOOLEAN : ExtCancel(leaving)
  \/ ExtUiMoves \/ ExtWorkerMoves \/ ExtChildMoves

(* Both threads are scheduled; the child need not end.                     *)
ExtFairness == WF_ExtVars(ExtWorkerMoves) /\ WF_ExtVars(ExtUiMoves)
ExtSpec == ExtInit /\ [][ExtNext]_ExtVars /\ ExtFairness

-----------------------------------------------------------------------------
(* A job that is over has answered once, and has left no child, nor the id *)
(* of one for a later cancel() to kill; the extractor is used up by it,    *)
(* but no second resolve() meets a worker that is still at work.           *)
ExtOwned ==
  extAt = "ended" \/ extUi \in {"terminated", "gone"} =>
    /\ extAt \in {"none", "ended"} /\ extChild = "none" /\ ~extPid
    /\ extAt = "ended" => extAnswers = 1

(* A job ends, unless its child closes its output and lives on; after a    *)
(* cancel it ends in any case, at whatever point the cancel met it, and so *)
(* the destructor returns.                                                 *)
ExtInCall == extLeaving /\ extUi # "gone"
ExtAtWork == extAt \notin {"none", "ended"} /\ (extChild = "closed" => extCancelled)
ExtEnds ==
  /\ ExtInCall ~> ~ExtInCall
  /\ ExtAtWork ~> ~ExtAtWork
=============================================================================
