----------------------------- MODULE TranscodeJob -----------------------------
(***************************************************************************)
(* What a transcode job promises its client, whatever happens to it: the   *)
(* film in the file is at any time the beginning of the film in the input, *)
(* without a gap, and so is the sound until a packet of it could not be    *)
(* written.  A cancel(), a failed stage or a time-out only ends the file   *)
(* early; without any of these success is answered, and the film is whole. *)
(***************************************************************************)
EXTENDS Integers, Sequences

CONSTANT Media     (* the input: the stream of each packet                 *)

VARIABLES
  film, sound,     (* the positions of the packets written to the file     *)
  trouble,         (* the job was cancelled, failed or was cut short       *)
  lossy,           (* a write failed                                       *)
  answer           (* of waitUntilComplete: "none", "success" or "error"   *)

vars == <<film, sound, trouble, lossy, answer>>

Positions == 1 .. Len(Media)

Init ==
  /\ film = <<>> /\ sound = <<>>
  /\ trouble = FALSE /\ lossy = FALSE /\ answer = "none"

Written(file) == {file[i] : i \in 1 .. Len(file)}

(* Packet p comes after what is written of its stream; and it is the first *)
(* that does.                                                              *)
Later(file, p)   == \A q \in Written(file) : q < p
Follows(file, p) ==
  \A q \in Positions : Media[q] = Media[p] =>
    (q < p <=> q \in Written(file))

AddFrame(p) ==
  /\ Media[p] = "video" /\ Follows(film, p)
  /\ film' = Append(film, p)
  /\ UNCHANGED <<sound, trouble, lossy, answer>>

AddSound(p) ==
  /\ Media[p] = "audio"
  /\ IF lossy THEN Later(sound, p) ELSE Follows(sound, p)
  /\ sound' = Append(sound, p)
  /\ UNCHANGED <<film, trouble, lossy, answer>>

Suffer ==
  /\ trouble => trouble'
  /\ lossy => lossy'
  /\ {trouble', lossy'} \subseteq BOOLEAN
  /\ UNCHANGED <<film, sound, answer>>

Whole == \A p \in Positions : Media[p] = "video" => p \in Written(film)

Answer(result) ==
  /\ answer = "none"
  /\ IF result = "success" THEN Whole \/ trouble ELSE trouble
  /\ answer' = result
  /\ UNCHANGED <<film, sound, trouble, lossy>>

Next ==
  \/ \E p \in Positions : AddFrame(p) \/ AddSound(p)
  \/ Suffer
  \/ \E result \in {"success", "error"} : Answer(result)

Spec == Init /\ [][Next]_vars
=============================================================================
