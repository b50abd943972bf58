---------------------------- MODULE AudioEncoder ----------------------------
(***************************************************************************)
(* AudioEncoder: the audio thread of a recording feeds it what the         *)
(* microphone delivers, in pieces of any size.  The resampler (swrCtx_)    *)
(* changes the format only; what does not fit into swrFrame_, whose size   *)
(* is that of the codec's frames, it keeps for the next call.  The codec   *)
(* (AAC) is always sent the whole frame, however much of it was filled.    *)
(* A piece of sound is its number of samples.                              *)
(***************************************************************************)
EXTENDS Integers, Sequences

CONSTANTS
  AacFrame,    (* swrFrame_->nb_samples                                     *)
  AacPiece,    (* the most samples of one piece                             *)
  AacSamples   (* bound: samples fed                                        *)

ASSUME AudioEncoderAssumption ==
  AacFrame \in Nat \ {0} /\ AacPiece \in Nat \ {0} /\ AacSamples \in Nat

VARIABLES
  aacOpen,     (* "new", "open", "flushed", "closed"                        *)
  aacHeld,     (* the samples the resampler keeps                           *)
  aacIndex,    (* frameIndex_                                               *)
  aacSent,     (* the frames sent to the codec: their pts and real samples  *)
  aacFed, aacLost,   (* samples fed; those of frames the codec refused      *)
  aacMissed    (* the samples the resampler failed on                       *)

AacVars == <<aacOpen, aacHeld, aacIndex, aacSent, aacFed, aacLost, aacMissed>>

AacTypeOK ==
  /\ aacOpen \in {"new", "open", "flushed", "closed"}
  /\ aacHeld \in 0 .. AacSamples /\ aacIndex \in 0 .. AacSamples
  /\ aacFed \in 0 .. AacSamples /\ aacLost \in 0 .. AacSamples
  /\ aacMissed \in 0 .. AacSamples
  /\ aacSent \in Seq([pts : 0 .. AacSamples, samples : 1 .. AacFrame])

AacInit ==
  /\ aacOpen = "new" /\ aacHeld = 0 /\ aacIndex = 0 /\ aacSent = <<>>
  /\ aacFed = 0 /\ aacLost = 0 /\ aacMissed = 0

(* init() by a recording that starts; it may also refuse.                  *)
AacInitialize ==
  /\ aacOpen = "new"
  /\ aacOpen' = "open"
  /\ UNCHANGED <<aacHeld, aacIndex, aacSent, aacFed, aacLost, aacMissed>>

(* A frame with n samples in it is stamped, counted and sent; the codec    *)
(* may refuse it, and its samples are gone.                                *)
AacSend(n) ==
  /\ aacIndex' = aacIndex + n
  /\ \/ /\ aacSent' = Append(aacSent, [pts |-> aacIndex, samples |-> n])
        /\ UNCHANGED aacLost
     \/ UNCHANGED aacSent /\ aacLost' = aacLost + n

(* swr_convert(): as much as there is, up to a frame.                      *)
AacConverted(samples) == IF samples < AacFrame THEN samples ELSE AacFrame

(* encode(): one frame, of whatever size the piece was.  swr_convert() may *)
(* fail, and what it then keeps of the samples is its affair: those it     *)
(* does not are in no frame, and no stamp counts them.                     *)
AacEncode(n) ==
  /\ aacOpen = "open" /\ aacFed + n <= AacSamples
  /\ aacFed' = aacFed + n
  /\ \/ LET out == AacConverted(aacHeld + n)
        IN  /\ AacSend(out) /\ aacHeld' = aacHeld + n - out
            /\ UNCHANGED aacMissed
     \/ /\ aacHeld' \in 0 .. aacHeld + n
        /\ aacMissed' = aacMissed + (aacHeld + n - aacHeld')
        /\ UNCHANGED <<aacIndex, aacSent, aacLost>>
  /\ UNCHANGED aacOpen

(* flush(), when the audio thread ends: frames until the resampler is      *)
(* empty or fails or the codec refuses one, then the codec's own rest.     *)
AacFlush_Mutant ==
  /\ aacOpen = "open"
  /\ aacOpen' = "flushed"
  /\ IF aacHeld = 0
     THEN UNCHANGED <<aacHeld, aacIndex, aacSent, aacLost>>
     ELSE AacSend(AacConverted(aacHeld)) /\ aacHeld' = aacHeld - AacConverted(aacHeld)
  /\ UNCHANGED <<aacFed, aacMissed>>

AacFlush ==
  /\ aacOpen = "open"
  /\ \/ LET out == AacConverted(aacHeld)
        IN  /\ aacHeld > 0
            /\ AacSend(out) /\ aacHeld' = aacHeld - out /\ UNCHANGED aacMissed
            /\ aacOpen' = IF aacLost' # aacLost THEN "flushed" ELSE "open"
     \/ /\ aacOpen' = "flushed"   \* nothing left, or a failure
        /\ aacHeld' = 0 /\ aacMissed' = aacMissed + aacHeld
        /\ UNCHANGED <<aacIndex, aacSent, aacLost>>
  /\ UNCHANGED aacFed

AacClose ==
  /\ aacOpen \in {"open", "flushed"}
  /\ aacOpen' = "closed" /\ aacHeld' = 0 /\ aacIndex' = 0
  /\ UNCHANGED <<aacSent, aacFed, aacLost, aacMissed>>

AacNext ==
  \/ AacInitialize \/ \E n \in 1 .. AacPiece : AacEncode(n)
  \/ AacFlush \/ AacClose

AacSpec == AacInit /\ [][AacNext]_AacVars

-----------------------------------------------------------------------------
AacSamplesOf(frames) ==
  LET sum[i \in 0 .. Len(frames)] ==
        IF i = 0 THEN 0 ELSE sum[i - 1] + frames[i].samples
  IN  sum[Len(frames)]

(* The stamps go up by what was really in a frame, though the resampler    *)
(* falls behind: a stamp counts the samples converted before it, sent or   *)
(* refused, each once.  Sound that follows a failed conversion is early by *)
(* what was missed, and by no more.                                        *)
AacTimeline ==
  /\ aacOpen # "closed" =>
       /\ AacSamplesOf(aacSent) + aacLost = aacIndex
       /\ aacIndex + aacHeld + aacMissed = aacFed
  /\ \A i \in 1 .. Len(aacSent) - 1 :
       aacSent[i].pts + aacSent[i].samples <= aacSent[i + 1].pts

(* When the encoder was flushed, all that was fed was sent, refused or     *)
(* missed.                                                                 *)
AacDrained == aacOpen = "flushed" /\ aacLost = 0 => aacHeld = 0
=============================================================================
