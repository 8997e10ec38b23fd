------------------------------ MODULE MCThreads ------------------------------
(* Instances of Threads: an urgent, two ordinary and the idle thread. *)
EXTENDS Threads

CONSTANTS hi, a, b

MCThread == {Idle, hi, a, b}
MCInitPrio == [t \in Thread |-> IF t = hi THEN 0 ELSE IF t = Idle THEN 2 ELSE 1]
MCTwoUrgent == [t \in Thread |-> IF t = Idle THEN 2 ELSE IF t = a THEN 1 ELSE 0]
=============================================================================
