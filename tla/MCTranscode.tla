----------------------------- MODULE MCTranscode -----------------------------
(***************************************************************************)
(* Instances of TranscodePipeline for TLC.                                 *)
(***************************************************************************)
EXTENDS TranscodePipeline

OneVideo   == <<"video">>
TwoVideos  == <<"video", "video">>
AudioVideo == <<"audio", "video">>

LagOne == [s \in Workers |-> IF s = "vsr" THEN 0 ELSE 1]
=============================================================================
