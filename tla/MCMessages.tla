----------------------------- MODULE MCMessages -----------------------------
(* Instances of Messages: an urgent and two ordinary threads, two messages. *)
EXTENDS Messages

CONSTANTS hi, a, b

MCThread == {Idle, hi, a, b}
MCObj == {MbRx, MbTx, MqRx, DqPop, DqPush}
MCInitPrio == [t \in Thread |-> IF t = hi THEN 0 ELSE IF t = Idle THEN 2 ELSE 1]
MCFlag == [o \in Obj |-> IF o \in {MbRx, MbTx} THEN "PRIO" ELSE "FIFO"]
MCSecond == [o \in Obj |-> IF o = MbRx THEN MbTx ELSE o]
MCTimes == {2}
MCPatient == {hi}
MCMailbox == [has |-> {"mailbox"}, live |-> Thread, producer |-> {a, hi}, consumer |-> {b}]
MCQueue == [has |-> {"queue"}, live |-> Thread, producer |-> {a}, consumer |-> {b, hi}]
MCDataQueue == [has |-> {"dataqueue"}, live |-> Thread, producer |-> {a, hi}, consumer |-> {b}]
MCRing == [has |-> {"ring"}, live |-> {Idle}, producer |-> {}, consumer |-> {}]
MCRx == [has |-> {"rx"}, live |-> {Idle, b}, producer |-> {}, consumer |-> {b}]
MCTx == [has |-> {"tx"}, live |-> {Idle, a, b}, producer |-> {a}, consumer |-> {}]
MCSystems == {MCMailbox, MCQueue, MCDataQueue, MCRing, MCRx, MCTx}
MCDqOnly == {MCDataQueue}
MCSymmetry == Permutations(Mail)
=============================================================================
