---------------------------- MODULE MCTimerQueue ----------------------------
(***************************************************************************)
(* Instances of TimerQueue for TLC.                                        *)
(***************************************************************************)
EXTENDS TimerQueue

CONSTANT Periodic   \* the timers that repeat every tick

MCInterval == [t \in Timers |-> IF t \in Periodic THEN 1 ELSE 0]
=============================================================================
