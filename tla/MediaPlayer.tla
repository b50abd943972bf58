---------------------------- MODULE MediaPlayer ----------------------------
(***************************************************************************)
(* MediaPlayer: the object of the user interface that hands every command  *)
(* to a message loop of its own, which calls the player.  A seek is        *)
(* coalesced: its position is an atomic that the loop reads when it gets   *)
(* to the message, and seekQueued_ says that there is a message already.   *)
(* Positions are numbered in the order in which seek() is called.          *)
(*                                                                         *)
(* The player may call back from open(): an encrypted film wants a         *)
(* password.  QMLPlayer::handlePasswordRequired then makes the user        *)
(* interface run promptForPassword and waits until it has; the prompt      *)
(* handles the events of the user interface until it has an answer.        *)
(***************************************************************************)
EXTENDS Integers, Sequences

CONSTANT MplCalls   (* bound: calls of the user interface                   *)

ASSUME MediaPlayerAssumption == MplCalls \in Nat

VARIABLES
  mplQueue,    (* msgQueue_                                                 *)
  mplPending,  (* pendingSeekPos_                                           *)
  mplQueued,   (* seekQueued_                                               *)
  mplLoop,     (* where msgLoop() is                                        *)
  mplLatest,   (* the position the handler of MsgDoSeek read                *)
  mplUi,       (* where the calls of the user interface are                 *)
  mplCalls,
  mplSought,   (* the position of the last call of FFPlayer::seek()         *)
  mplMissed    (* a position came between the handler's load and its store  *)

MplVars == <<mplQueue, mplPending, mplQueued, mplLoop, mplLatest, mplUi,
             mplCalls, mplSought, mplMissed>>

MplTypeOK ==
  /\ mplQueue \in Seq({"open", "command", "seek", "shutdown"})
  /\ mplPending \in 0 .. MplCalls /\ mplLatest \in 0 .. MplCalls
  /\ mplSought \in 0 .. MplCalls /\ mplCalls \in 0 .. MplCalls
  /\ mplQueued \in BOOLEAN /\ mplMissed \in BOOLEAN
  /\ mplLoop \in {"wait", "seek", "loaded", "call", "asking", "prompt", "over"}
  /\ mplUi \in {"idle", "stored", "posting", "joining", "gone"}

MplInit ==
  /\ mplQueue = << >> /\ mplPending = 0 /\ mplQueued = FALSE
  /\ mplLoop = "wait" /\ mplLatest = 0 /\ mplUi = "idle" /\ mplCalls = 0
  /\ mplSought = 0 /\ mplMissed = FALSE

(* open(); play(), pause(), stop() and setVolume() are "command".          *)
MplCommand(message) ==
  /\ mplUi = "idle" /\ mplCalls < MplCalls
  /\ mplCalls' = mplCalls + 1
  /\ mplQueue' = Append(mplQueue, message)
  /\ UNCHANGED <<mplPending, mplQueued, mplLoop, mplLatest, mplUi, mplSought,
                 mplMissed>>

(* seek(): the position is stored, the flag is swapped, the message posted.*)
MplSeek ==
  /\ mplUi = "idle" /\ mplCalls < MplCalls
  /\ mplCalls' = mplCalls + 1
  /\ mplPending' = mplCalls + 1
  /\ mplMissed' = FALSE
  /\ mplUi' = "stored"
  /\ UNCHANGED <<mplQueue, mplQueued, mplLoop, mplLatest, mplSought>>

MplSwap ==
  /\ mplUi = "stored"
  /\ mplUi' = IF mplQueued THEN "idle" ELSE "posting"
  /\ mplQueued' = TRUE
  /\ mplMissed' = (mplLoop = "loaded" /\ mplLatest # mplPending)
  /\ UNCHANGED <<mplQueue, mplPending, mplLoop, mplLatest, mplCalls, mplSought>>

MplPost ==
  /\ mplUi = "posting"
  /\ mplQueue' = Append(mplQueue, "seek")
  /\ mplUi' = "idle"
  /\ UNCHANGED <<mplPending, mplQueued, mplLoop, mplLatest, mplCalls, mplSought,
                 mplMissed>>

(* ~MediaPlayer(): the last message, and the join.  The user interface is  *)
(* not destroyed in the middle of its prompt, only before it gets to it.   *)
MplDestroy ==
  /\ mplUi = "idle" /\ mplLoop # "prompt"
  /\ mplQueue' = Append(mplQueue, "shutdown")
  /\ mplUi' = "joining"
  /\ UNCHANGED <<mplPending, mplQueued, mplLoop, mplLatest, mplCalls, mplSought,
                 mplMissed>>

MplJoined ==
  /\ mplUi = "joining" /\ mplLoop = "over"
  /\ mplUi' = "gone"
  /\ UNCHANGED <<mplQueue, mplPending, mplQueued, mplLoop, mplLatest, mplCalls,
                 mplSought, mplMissed>>

(* msgLoop() takes a message; all but a seek is one call of the player,    *)
(* and only an open() may ask for a password.                              *)
MplHandlers(message) ==
  CASE message = "open"     -> {"wait", "asking"}
    [] message = "command"  -> {"wait"}
    [] message = "seek"     -> {"seek"}
    [] message = "shutdown" -> {"over"}

MplTake ==
  /\ mplLoop = "wait" /\ mplQueue # << >>
  /\ mplQueue' = Tail(mplQueue)
  /\ mplLoop' \in MplHandlers(Head(mplQueue))
  /\ UNCHANGED <<mplPending, mplQueued, mplLatest, mplUi, mplCalls, mplSought,
                 mplMissed>>

(* The handler goes to the position stored last.                           *)
MplLoad ==
  /\ mplLoop = "seek"
  /\ mplLatest' = mplPending
  /\ mplLoop' = "loaded"
  /\ UNCHANGED <<mplQueue, mplPending, mplQueued, mplUi, mplCalls, mplSought,
                 mplMissed>>

MplClear_Mutant ==
  /\ mplLoop = "loaded"
  /\ mplLoop' = "call"
  /\ UNCHANGED <<mplQueue, mplPending, mplQueued, mplLatest, mplUi, mplCalls,
                 mplSought, mplMissed>>

MplClear ==
  /\ mplLoop = "loaded"
  /\ mplQueued' = FALSE
  /\ mplLoop' = "call"
  /\ UNCHANGED <<mplQueue, mplPending, mplLatest, mplUi, mplCalls, mplSought,
                 mplMissed>>

MplPlayerSeek ==
  /\ mplLoop = "call"
  /\ mplSought' = mplLatest
  /\ mplLoop' = "wait"
  /\ UNCHANGED <<mplQueue, mplPending, mplQueued, mplLatest, mplUi, mplCalls,
                 mplMissed>>

(* The user interface gets to the queued call of promptForPassword ...     *)
MplPrompts ==
  /\ mplUi = "idle" /\ mplLoop = "asking"
  /\ mplLoop' = "prompt"
  /\ UNCHANGED <<mplQueue, mplPending, mplQueued, mplLatest, mplUi, mplCalls,
                 mplSought, mplMissed>>

(* ... and the user answers.  The timer of the prompt ends nothing.        *)
MplAnswers ==
  /\ mplUi = "idle" /\ mplLoop = "prompt"
  /\ mplLoop' = "wait"
  /\ UNCHANGED <<mplQueue, mplPending, mplQueued, mplLatest, mplUi, mplCalls,
                 mplSought, mplMissed>>

MplUiStep   == MplSwap \/ MplPost \/ MplJoined \/ MplPrompts
MplLoopStep == MplTake \/ MplLoad \/ MplClear \/ MplPlayerSeek

MplNext ==
  \/ \E message \in {"open", "command"} : MplCommand(message)
  \/ MplSeek \/ MplDestroy \/ MplAnswers \/ MplUiStep \/ MplLoopStep

MplFairness == WF_MplVars(MplUiStep) /\ WF_MplVars(MplLoopStep)

MplSpec == MplInit /\ [][MplNext]_MplVars /\ MplFairness

-----------------------------------------------------------------------------
(* A seek is on its way: its message is queued or in the handler's hands.  *)
MplUnderWay ==
  mplUi \in {"stored", "posting"} \/ mplLoop \in {"seek", "loaded", "call"}
  \/ \E i \in DOMAIN mplQueue : mplQueue[i] = "seek"

(* However the calls of the user interface and the steps of the loop       *)
(* interleave, the coalescing loses no seek but one whose position came    *)
(* between the handler's load and its store: when none is under way the    *)
(* player was last sent to the position asked for last.                    *)
MplSeekReaches == ~MplUnderWay /\ ~mplMissed => mplSought = mplPending

(* seekQueued_ says that a message which will still read the position is   *)
(* queued, about to be, or being handled: coalescing never leaves a flag   *)
(* without its message, after which no seek would ever be posted again.    *)
MplFlagHasMessage ==
  mplQueued <=> \/ mplUi = "posting" \/ mplLoop \in {"seek", "loaded"}
                \/ \E i \in DOMAIN mplQueue : mplQueue[i] = "seek"

(* The destructor's join ends, and the loop has taken every command sent   *)
(* before it; but for a loop that waits for a prompt of the thread which   *)
(* joins it: the two wait for each other.  Anything else posted is taken,  *)
(* unless a prompt is open, which waits for the user without an end.       *)
MplEnds ==
  /\ mplUi = "joining" ~> (mplUi = "gone" /\ mplQueue = << >>) \/ mplLoop = "asking"
  /\ mplQueue # << >> ~> mplQueue = << >> \/ mplLoop \in {"asking", "prompt"}
=============================================================================
