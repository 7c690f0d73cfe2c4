---------------------------- MODULE MCTimerClock ----------------------------
(* Instances of TimerClock for TLC. *)
EXTENDS TimerClock, TLC

CONSTANTS d, l

TwoAsks == d :> 3 @@ l :> 3
OneAsk == d :> 3
=============================================================================
