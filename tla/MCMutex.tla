------------------------------- MODULE MCMutex -------------------------------
(* Instances of Mutex: threads of three priorities, one or two mutexes. *)
EXTENDS Mutex

CONSTANTS hi, mid, lo, m1, m2

MCThread == {Idle, hi, mid, lo}
MCOne == {m1}
MCTwo == {m1, m2}
MCInitPrio == [t \in Thread |-> CASE t = hi -> 0 [] t = mid -> 1 [] t = lo -> 2 [] t = Idle -> 3]
MCPrio == [m \in Obj |-> "PRIO"]
MCFifo == [m \in Obj |-> "FIFO"]
MCSecond == [o \in Obj |-> o]
MCForever == {-1}
MCTimes == {-1, 2}
=============================================================================
