------------------------------ MODULE MCPlayer ------------------------------
(***************************************************************************)
(* Instances of FFPlayer for TLC: a media of one to three packets and      *)
(* queues of length one, so that every queue fills.                        *)
(***************************************************************************)
EXTENDS FFPlayer

VideoOnly  == [p \in Positions |-> "video"]
VideoAudio == [p \in Positions |-> IF p % 2 = 0 THEN "video" ELSE "audio"]

Calls(open, play, pause, stop, seek) ==
  [op \in Ops |-> CASE op = "open" -> open [] op = "play" -> play
                    [] op = "pause" -> pause [] op = "stop" -> stop
                    [] op = "seek" -> seek]

TwoSeeks == Calls(1, 1, 1, 0, 2)
OneSeek  == Calls(1, 1, 0, 0, 1)
NoSeek   == Calls(1, 2, 1, 1, 0)
=============================================================================
