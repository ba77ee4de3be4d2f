----------------------------- MODULE MCTimerQueue -----------------------------
(* A second of two microseconds; runAt for a time long past, whose timer is *)
(* called once, and for one a second after the start, whose timer repeats;  *)
(* three timers, two of which live at a time, so that addresses are used    *)
(* again.                                                                   *)
EXTENDS TimerQueue
MCAddr == 1..3
=============================================================================
