--------------------------- MODULE ResumeManager ---------------------------
(***************************************************************************)
(* ResumeManager over CheckpointManager: one source, its checkpoint file,  *)
(* its output and the .part file a job writes its frames to, over crashes  *)
(* of the program.  The calls hold a mutex each; the program can crash     *)
(* between the steps of one, and a checkpoint is written in place, so that *)
(* it can be torn.  No code of the program calls this component: the job   *)
(* (RsmBegin, RsmWrite and when it calls what) is the one that the         *)
(* header's comments describe.                                             *)
(***************************************************************************)
EXTENDS Integers

CONSTANT RsmFrames   (* totalFrames                                         *)

ASSUME ResumeAssumption == RsmFrames \in Nat \ {0}

RsmNone == -1   (* there is no such file                                    *)
RsmTorn == -2   (* the checkpoint cannot be parsed                          *)

VARIABLES
  rsmFile,    (* the checkpoint: its lastProcessedFrame                     *)
  rsmPart,    (* the .part file: its frames before its first gap            *)
  rsmFinal,   (* the output                                                 *)
  rsmJob,     (* what the program is doing                                  *)
  rsmNext,    (* the frame the job writes next                              *)
  rsmWhole,   (* the .part had all frames, and was not given up since       *)
  rsmStray    (* a checkpoint of an earlier .part beside this one: "no",    *)
              (* "kept", or "used" by a job that went on from it            *)

RsmVars == <<rsmFile, rsmPart, rsmFinal, rsmJob, rsmNext, rsmWhole, rsmStray>>

RsmTypeOK ==
  /\ rsmFile \in {RsmNone, RsmTorn} \cup (0 .. RsmFrames)
  /\ rsmPart \in {RsmNone} \cup (0 .. RsmFrames)
  /\ rsmFinal \in {"none", "old", "new"}
  /\ rsmJob \in {"off", "up", "fresh", "running", "saving", "finalizing",
                 "cleaning", "unfinished"}
  /\ rsmNext \in 1 .. RsmFrames + 1 /\ rsmWhole \in BOOLEAN
  /\ rsmStray \in {"no", "kept", "used"}

RsmInit ==
  /\ rsmFile = RsmNone /\ rsmPart = RsmNone /\ rsmFinal \in {"none", "old"}
  /\ rsmJob = "up" /\ rsmNext = 1 /\ rsmWhole = FALSE /\ rsmStray = "no"

RsmCrash ==
  /\ rsmJob # "off"
  /\ rsmJob' = "off"
  /\ UNCHANGED <<rsmFile, rsmPart, rsmFinal, rsmNext, rsmWhole, rsmStray>>

RsmProgramStarts ==
  /\ rsmJob = "off"
  /\ rsmJob' = "up"
  /\ UNCHANGED <<rsmFile, rsmPart, rsmFinal, rsmNext, rsmWhole, rsmStray>>

(* resumeFromCheckpoint(): the frame to go on from.  Without the .part the *)
(* checkpoint goes, if it can be removed, which nobody looks at; that of a *)
(* whole film is refused and stays; ...                                    *)
RsmResume ==
  /\ rsmJob = "up" /\ rsmFile >= 0
  /\ \/ /\ rsmPart # RsmNone /\ rsmFile < RsmFrames
        /\ rsmNext' = rsmFile + 1 /\ rsmJob' = "running"
        /\ rsmStray' = IF rsmStray = "kept" THEN "used" ELSE rsmStray
        /\ UNCHANGED rsmFile
     \/ /\ rsmPart = RsmNone \/ rsmFile >= RsmFrames
        /\ UNCHANGED rsmFile \/ (rsmPart = RsmNone /\ rsmFile' = RsmNone)
        /\ rsmJob' = "fresh" /\ UNCHANGED <<rsmNext, rsmStray>>
  /\ UNCHANGED <<rsmPart, rsmFinal, rsmWhole>>

(* ... and one that is not there, torn or cannot be opened is an error.    *)
RsmCannotResume ==
  /\ rsmJob = "up"
  /\ rsmJob' = "fresh"
  /\ UNCHANGED <<rsmFile, rsmPart, rsmFinal, rsmNext, rsmWhole, rsmStray>>

(* The job starts over, with an empty .part.                               *)
RsmBegin ==
  /\ rsmJob = "fresh"
  /\ rsmPart' = 0 /\ rsmNext' = 1 /\ rsmWhole' = FALSE /\ rsmJob' = "running"
  /\ rsmStray' = IF rsmFile >= 0 THEN "kept" ELSE "no"
  /\ UNCHANGED <<rsmFile, rsmFinal>>

RsmWrite ==
  /\ rsmJob = "running" /\ rsmNext <= RsmFrames
  /\ rsmPart' = IF rsmNext = rsmPart + 1 THEN rsmNext ELSE rsmPart
  /\ rsmNext' = rsmNext + 1
  /\ rsmWhole' = (rsmPart' = RsmFrames)
  /\ UNCHANGED <<rsmFile, rsmFinal, rsmJob, rsmStray>>

(* saveProgress(): the file is truncated, and written.  One that cannot be *)
(* opened stays as it is, and the job goes on.                             *)
RsmTruncate ==
  /\ rsmJob = "running" /\ rsmNext > 1
  /\ rsmFile' = RsmTorn /\ rsmJob' = "saving"
  /\ rsmStray' = IF rsmStray = "kept" THEN "no" ELSE rsmStray
  /\ UNCHANGED <<rsmPart, rsmFinal, rsmNext, rsmWhole>>

RsmSaved(ok) ==
  /\ rsmJob = "saving"
  /\ rsmFile' = IF ok THEN rsmNext - 1 ELSE RsmTorn
  /\ rsmJob' = "running"
  /\ UNCHANGED <<rsmPart, rsmFinal, rsmNext, rsmWhole, rsmStray>>

(* completeProcessing(): nothing without a checkpoint it can read;         *)
(* finalizeOutput() removes the old output, then renames, and gives up if  *)
(* it cannot; and whether that went well or not, the checkpoint goes.      *)
RsmComplete ==
  /\ rsmJob = "running" /\ rsmNext > RsmFrames
  /\ \/ rsmJob' = "up" /\ UNCHANGED rsmFinal
     \/ rsmFile >= 0 /\ rsmJob' = "finalizing" /\ rsmFinal' = "none"
     \/ /\ rsmFile >= 0 /\ rsmFinal # "none"
        /\ rsmJob' = "unfinished" /\ UNCHANGED rsmFinal
  /\ UNCHANGED <<rsmFile, rsmPart, rsmNext, rsmWhole, rsmStray>>

RsmRename(ok) ==
  /\ rsmJob = "finalizing"
  /\ rsmFinal' = IF ok THEN "new" ELSE rsmFinal
  /\ rsmPart' = IF ok THEN RsmNone ELSE rsmPart
  /\ rsmJob' = IF ok THEN "cleaning" ELSE "unfinished"
  /\ UNCHANGED <<rsmFile, rsmNext, rsmWhole, rsmStray>>

RsmClean(ok) ==
  /\ rsmJob \in {"cleaning", "unfinished"}
  /\ rsmFile' = IF ok THEN RsmNone ELSE rsmFile
  /\ rsmJob' = "up"
  /\ UNCHANGED <<rsmPart, rsmFinal, rsmNext, rsmWhole, rsmStray>>

(* cancelProcessing(): without a checkpoint it can read, the .part stays.  *)
RsmCancel(ok) ==
  /\ rsmJob = "running"
  /\ rsmPart' = IF ok /\ rsmFile >= 0 THEN RsmNone ELSE rsmPart
  /\ rsmWhole' = FALSE
  /\ rsmJob' = "cleaning"
  /\ UNCHANGED <<rsmFile, rsmFinal, rsmNext, rsmStray>>

RsmNextStep ==
  \/ RsmCrash \/ RsmProgramStarts \/ RsmResume \/ RsmCannotResume \/ RsmBegin
  \/ RsmWrite \/ RsmTruncate \/ RsmComplete
  \/ \E ok \in BOOLEAN :
       RsmSaved(ok) \/ RsmRename(ok) \/ RsmClean(ok) \/ RsmCancel(ok)

RsmSpec == RsmInit /\ [][RsmNextStep]_RsmVars

-----------------------------------------------------------------------------
(* A job that goes on from a checkpoint leaves no gap, wherever the last   *)
(* run of the program crashed: the .part holds all that precedes the next  *)
(* frame.  There is one way to a gap: a checkpoint that could not be       *)
(* removed, or not be read, is there when a job starts over, and vouches   *)
(* for the new .part if the program crashes before that job has saved.     *)
RsmNoGap ==
  rsmJob \in {"running", "saving"} /\ rsmStray # "used" => rsmNext <= rsmPart + 1

(* A film whose frames are all there is in the .part or the output, though *)
(* completeProcessing() removes the old output before it renames, till it  *)
(* is cancelled or a job starts over; and its checkpoint is not removed    *)
(* before it is in the output, unless finalizeOutput() failed: after that, *)
(* as after a refusal, the next job starts over and empties the .part.     *)
RsmFilmKept ==
  rsmWhole =>
    /\ rsmFinal = "new" \/ rsmPart = RsmFrames
    /\ rsmJob = "cleaning" => rsmFinal = "new"
=============================================================================
