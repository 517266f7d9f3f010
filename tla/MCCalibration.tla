---------------------------- MODULE MCCalibration ----------------------------
(***************************************************************************)
(* Calibration for TLC: two roles that are judged differently, one named   *)
(* class, confidences around the threshold and past both ends of what the  *)
(* adjustment can move, and projects with no history, with one short of    *)
(* the cap, and with one wound up past it in either direction.             *)
(***************************************************************************)
EXTENDS Calibration

Starts    == {<<"approved", 0>>, <<"approved", 9>>, <<"approved", 17>>, <<"rejected", 5>>}
=============================================================================
