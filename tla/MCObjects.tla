------------------------------ MODULE MCObjects ------------------------------
(* Instances of Objects: an urgent thread, a worker and two ordinary threads. *)
EXTENDS Objects

CONSTANTS hi, a, b

MCThread == {Idle, Worker, hi, a, b}
MCObj == {Ev, Mp, Cp, WqSem}
MCInitPrio ==
    [t \in Thread |-> IF t = hi THEN 0 ELSE IF t = Worker THEN 1 ELSE IF t = Idle THEN 3 ELSE 2]
MCFlag == [o \in Obj |-> IF o = Ev THEN "PRIO" ELSE "FIFO"]
MCSecond == [o \in Obj |-> o]
MCTimes == {2}
MCPatient == {hi, a}
MCSymmetry == Permutations(Block) \cup Permutations(Work \ Delayed)
MCRequest ==
    {[set |-> {1, 2}, all |-> TRUE, clear |-> TRUE],
     [set |-> {1, 2}, all |-> FALSE, clear |-> TRUE],
     [set |-> {2}, all |-> TRUE, clear |-> FALSE]}
MCSystem(has, live, producer, consumer) ==
    [has |-> has, live |-> live \cup {Idle}, producer |-> producer, consumer |-> consumer]
MCEvent == MCSystem({"event"}, {hi, a, b}, {a}, {b, hi})
MCPool == MCSystem({"pool"}, {hi, a, b}, {}, {hi, a, b})
MCCompletion == MCSystem({"completion", "sleep"}, {hi, a, b}, {hi, a}, {b})
MCControl == MCSystem({"completion", "control"}, {a, b}, {a}, {b})
MCWorkQueue == MCSystem({"workqueue", "sleep"}, {hi, a, Worker}, {hi, a}, {})
MCHeap == MCSystem({"heap"}, {a, b}, {}, {a, b})
MCSystems == {MCEvent, MCPool, MCCompletion, MCControl, MCWorkQueue, MCHeap}
MCPoolOnly == {MCPool}
MCWorkQueueOnly == {MCWorkQueue}
=============================================================================
