------------------------------- MODULE MCTimers -------------------------------
(* Instances of Timers: two threads and two timers. *)
EXTENDS Timers

CONSTANTS a, u1, u2

MCThread == {Idle, a}
MCTimer == {u1, u2}
=============================================================================
