--------------------------- MODULE FileEncryption ---------------------------
(***************************************************************************)
(* Encrypting a film into an .hlv file: the user interface                 *)
(* (QMLEncryptionExporter), the worker thread of EncryptionExporter, the   *)
(* file work of FileEncryptor and, over crashes and restarts of the        *)
(* program, the TmpCleaner that its start runs.  The output grows in a     *)
(* file of its own, .hlv.tmp, and takes its name at the end.  The worker's *)
(* signals reach the user interface through Qt's queue.                    *)
(***************************************************************************)
EXTENDS Integers, Sequences

CONSTANTS
  EncChunks,   (* chunks of the input                                       *)
  EncJobs      (* bound: calls of startEncryption()                         *)

ASSUME EncryptionAssumption == EncChunks \in Nat \ {0} /\ EncJobs \in Nat

VARIABLES
  encUnix,     (* the file system's rules: POSIX, or those of Windows       *)
  encScanned,  (* the output's directory is one TmpCleaner scans            *)
  encTmp, encFinal,   (* the two files                                      *)
  encWorker, encDone, (* where runEncryption() is, and its chunks so far    *)
  encCancel,   (* shouldCancel_ of the FileEncryptor in use                 *)
  encUi,       (* where the user interface's thread is                      *)
  encBusy,     (* isProcessing                                              *)
  encSignals,  (* encryptionFinished, encryptionFailed in Qt's queue        *)
  encJobs,
  encLeft      (* a crash, or a failed placeholder, may have left a .tmp    *)

EncVars == <<encUnix, encScanned, encTmp, encFinal, encWorker, encDone,
             encCancel, encUi, encBusy, encSignals, encJobs, encLeft>>

EncFile == [is : BOOLEAN, data : 0 .. EncChunks, head : BOOLEAN]
EncNoFile == [is |-> FALSE, data |-> 0, head |-> FALSE]

EncTypeOK ==
  /\ encUnix \in BOOLEAN /\ encScanned \in BOOLEAN
  /\ encTmp \in EncFile /\ encFinal \in EncFile
  /\ encWorker \in {"none", "begin", "check", "create", "loop", "rename", "done"}
  /\ encDone \in 0 .. EncChunks /\ encCancel \in BOOLEAN
  /\ encUi \in {"idle", "joining", "quitting", "down"} /\ encBusy \in BOOLEAN
  /\ encSignals \in 0 .. EncJobs /\ encJobs \in 0 .. EncJobs
  /\ encLeft \in BOOLEAN

EncInit ==
  /\ encUnix \in BOOLEAN /\ encScanned \in BOOLEAN
  /\ encTmp = EncNoFile /\ encFinal = EncNoFile
  /\ encWorker = "none" /\ encDone = 0 /\ encCancel = FALSE
  /\ encUi = "idle" /\ encBusy = FALSE /\ encSignals = 0 /\ encJobs = 0
  /\ encLeft = FALSE

EncEnv  == <<encUnix, encScanned>>
EncDisk == <<encTmp, encFinal>>

(* startEncryption(): refused while one is processing; the exporter joins  *)
(* the thread of the previous one, whether it is over or not.              *)
EncStart ==
  /\ encUi = "idle" /\ ~encBusy /\ encJobs < EncJobs
  /\ encBusy' = TRUE /\ encJobs' = encJobs + 1 /\ encUi' = "joining"
  /\ UNCHANGED <<EncEnv, EncDisk, encWorker, encDone, encCancel, encSignals,
                 encLeft>>

EncJoined ==
  /\ encUi = "joining" /\ encWorker \in {"none", "done"}
  /\ encUi' = "idle" /\ encWorker' = "begin"
  /\ UNCHANGED <<EncEnv, EncDisk, encDone, encCancel, encBusy, encSignals,
                 encJobs, encLeft>>

(* cancel(): the flag goes to the FileEncryptor there is, and the user     *)
(* interface says at once that nothing is processing.                      *)
EncCancelPressed ==
  /\ encUi = "idle" /\ encBusy
  /\ encCancel' = TRUE /\ encBusy' = FALSE
  /\ UNCHANGED <<EncEnv, EncDisk, encWorker, encDone, encUi, encSignals,
                 encJobs, encLeft>>

(* handleEncryptionFinished(), handleEncryptionFailed().                   *)
EncSignalled ==
  /\ encUi = "idle" /\ encSignals > 0
  /\ encSignals' = encSignals - 1 /\ encBusy' = FALSE
  /\ UNCHANGED <<EncEnv, EncDisk, encWorker, encDone, encCancel, encUi,
                 encJobs, encLeft>>

(* The destructors: the flag, the join, and the end of the program.        *)
EncQuit ==
  /\ encUi = "idle"
  /\ encUi' = "quitting" /\ encCancel' = TRUE
  /\ UNCHANGED <<EncEnv, EncDisk, encWorker, encDone, encBusy, encSignals,
                 encJobs, encLeft>>

EncDown ==
  /\ encUi' = "down" /\ encWorker' = "none" /\ encDone' = 0
  /\ encCancel' = FALSE /\ encBusy' = FALSE /\ encSignals' = 0

EncQuitted ==
  /\ encUi = "quitting" /\ encWorker \in {"none", "done"}
  /\ EncDown
  /\ UNCHANGED <<EncEnv, EncDisk, encJobs, encLeft>>

EncCrash ==
  /\ encUi # "down"
  /\ EncDown
  /\ encLeft' = (encLeft \/ encTmp.is)
  /\ UNCHANGED <<EncEnv, EncDisk, encJobs>>

(* main() runs TmpCleaner before anything else.                            *)
EncProgramStarts ==
  /\ encUi = "down"
  /\ encUi' = "idle"
  /\ encTmp' = IF encScanned THEN EncNoFile ELSE encTmp
  /\ encLeft' = (encLeft /\ ~encScanned)
  /\ UNCHANGED <<EncEnv, encFinal, encWorker, encDone, encCancel, encBusy,
                 encSignals, encJobs>>

(* ... and so does a second instance of the program: POSIX lets it unlink  *)
(* the file the worker writes, Windows refuses while the worker holds it.  *)
EncOtherProgramStarts ==
  /\ encScanned /\ encTmp.is
  /\ encUnix \/ encWorker \notin {"loop", "rename"}
  /\ encTmp' = EncNoFile /\ encLeft' = FALSE
  /\ UNCHANGED <<EncEnv, encFinal, encWorker, encDone, encCancel, encUi,
                 encBusy, encSignals, encJobs>>

-----------------------------------------------------------------------------
(* The worker's last step: the signal.                                     *)
EncEnd ==
  /\ encWorker' = "done" /\ encSignals' = encSignals + 1

EncWorkerKeeps == UNCHANGED <<EncEnv, encUi, encBusy, encJobs>>

(* runEncryption() refuses an .hlv input, or makes a new FileEncryptor.    *)
EncBegin ==
  /\ encWorker = "begin"
  /\ \/ EncEnd /\ UNCHANGED encCancel
     \/ /\ encWorker' = "check" /\ encCancel' = FALSE
        /\ UNCHANGED encSignals
  /\ UNCHANGED <<EncDisk, encDone, encLeft>> /\ EncWorkerKeeps

(* encrypt() clears the flag, and fails without its input, with an output  *)
(* of that name, or without the space.                                     *)
EncCheck ==
  /\ encWorker = "check"
  /\ encCancel' = FALSE
  /\ \/ EncEnd
     \/ ~encFinal.is /\ encWorker' = "create" /\ UNCHANGED encSignals
  /\ UNCHANGED <<EncDisk, encDone, encLeft>> /\ EncWorkerKeeps

(* POSIX creates the .tmp only if there is none; Windows replaces it.      *)
EncCreate ==
  /\ encWorker = "create"
  /\ ~(encUnix /\ encTmp.is)
  /\ encTmp' = [is |-> TRUE, data |-> 0, head |-> FALSE]
  /\ encDone' = 0
  /\ \/ encWorker' = "loop" /\ encLeft' = FALSE /\ UNCHANGED encSignals
     \/ EncEnd /\ encLeft' = TRUE      (* the placeholder, or the cipher    *)
  /\ UNCHANGED <<encFinal, encCancel>> /\ EncWorkerKeeps

EncCreateFails ==
  /\ encWorker = "create"
  /\ EncEnd
  /\ UNCHANGED <<EncDisk, encDone, encCancel, encLeft>> /\ EncWorkerKeeps

(* A chunk is read, encrypted and written, unless the cancel came.         *)
EncChunk ==
  /\ encWorker = "loop" /\ encDone < EncChunks /\ ~encCancel
  /\ encDone' = encDone + 1
  /\ encTmp' = IF encTmp.is THEN [encTmp EXCEPT !.data = encDone + 1] ELSE encTmp
  /\ UNCHANGED <<encFinal, encWorker, encCancel, encSignals, encLeft>>
  /\ EncWorkerKeeps

EncGiveUp_Mutant ==
  /\ encWorker \in {"loop", "rename"}
  /\ EncEnd
  /\ UNCHANGED <<EncDisk, encDone, encCancel, encLeft>> /\ EncWorkerKeeps

(* Cancelled, or an error of the disk, up to the renaming: the .tmp goes.  *)
EncGiveUp ==
  /\ encWorker \in {"loop", "rename"}
  /\ EncEnd
  /\ encTmp' = EncNoFile
  /\ encLeft' = FALSE
  /\ UNCHANGED <<encFinal, encDone, encCancel>> /\ EncWorkerKeeps

(* The header, now with its HMAC, over the placeholder; the file is closed.*)
EncHeader ==
  /\ encWorker = "loop" /\ encDone = EncChunks
  /\ encTmp' = IF encTmp.is THEN [encTmp EXCEPT !.head = TRUE] ELSE encTmp
  /\ encWorker' = "rename"
  /\ UNCHANGED <<encFinal, encDone, encCancel, encSignals, encLeft>>
  /\ EncWorkerKeeps

EncRename ==
  /\ encWorker = "rename" /\ encTmp.is
  /\ encFinal' = encTmp /\ encTmp' = EncNoFile
  /\ encLeft' = FALSE
  /\ EncEnd
  /\ UNCHANGED <<encDone, encCancel>> /\ EncWorkerKeeps

EncWorkerStep ==
  \/ EncBegin \/ EncCheck \/ EncCreate \/ EncCreateFails \/ EncChunk
  \/ EncGiveUp \/ EncHeader \/ EncRename

EncUiStep == EncJoined \/ EncSignalled \/ EncQuitted

EncNext ==
  \/ EncStart \/ EncCancelPressed \/ EncQuit \/ EncCrash \/ EncProgramStarts
  \/ EncOtherProgramStarts \/ EncUiStep \/ EncWorkerStep

EncFairness == WF_EncVars(EncWorkerStep) /\ WF_EncVars(EncUiStep)

EncSpec == EncInit /\ [][EncNext]_EncVars /\ EncFairness

-----------------------------------------------------------------------------
EncWorking == encWorker \notin {"none", "done"}

(* Wherever the program crashes, is cancelled, fails or is started a       *)
(* second time, an .hlv of the final name has all its chunks and its       *)
(* header; and a .tmp without a worker is there only after a crash or a    *)
(* failed placeholder, every other ending having removed it.               *)
EncOutputWhole ==
  /\ encFinal.is => encFinal.data = EncChunks /\ encFinal.head
  /\ encTmp.is => EncWorking \/ encLeft

(* The user interface says it is processing only while a thread is about   *)
(* to run, runs, or has left a signal: it is never left waiting for one    *)
(* that will not come, though a cancelled job's late signal may come       *)
(* during the next job.                                                    *)
EncBusyHasEnd ==
  encBusy /\ encUi = "idle" => EncWorking \/ encSignals > 0

(* Every call of startEncryption() is answered, or ended with the program, *)
(* and the thread that joins or quits comes free.                          *)
EncInCall == encUi \in {"joining", "quitting"}
EncAnswered ==
  /\ encBusy ~> ~encBusy
  /\ EncInCall ~> ~EncInCall
=============================================================================
