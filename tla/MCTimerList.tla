----------------------------- MODULE MCTimerList -----------------------------
(* Instances of TimerList for TLC. *)
EXTENDS TimerList

MCTimes == 0 .. 3
=============================================================================
