----------------------------- MODULE MCSemaphore -----------------------------
(* Instances of Semaphore: one semaphore, an urgent and two ordinary threads. *)
EXTENDS Semaphore

CONSTANTS hi, a, b, s1

MCThread == {Idle, hi, a, b}
MCObj == {s1}
MCInitPrio == [t \in Thread |-> IF t = hi THEN 0 ELSE IF t = Idle THEN 2 ELSE 1]
MCPrio == [s \in Obj |-> "PRIO"]
MCFifo == [s \in Obj |-> "FIFO"]
MCTimes == {-1, 2}
MCSecond == [o \in Obj |-> o]
MCForever == {-1}
MCTimed == {1, 2}
=============================================================================
