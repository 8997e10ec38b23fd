------------------------------ MODULE Messages ------------------------------
(***************************************************************************)
(* Systems whose threads and interrupt handlers exchange data through a    *)
(* mailbox, a message queue, a data queue, a ring buffer or a serial       *)
(* device.                                                                 *)
(***************************************************************************)
EXTENDS Mailbox, MessageQueue, Serial, RingBuffer

CONSTANTS
    Systems     \* the objects a system has, the threads that run in it, that
                \* send and that receive

\* The threads that send and receive are threads of the application, and the list of
\* the senders is not one of the others.
ASSUME MessagesAssumption ==
    /\ \A s \in Systems : s.producer \cup s.consumer \subseteq User
    /\ MbTx \notin {MbRx, MqRx, DqPop, DqPush} /\ DqPush \notin {MbRx, MqRx, DqPop}

VARIABLES
    sys         \* the system: one of these

vars == <<kernel, waiting, mailbox, queue, dataqueue, serial, ring, sys>>

Init ==
    /\ sys \in Systems
    /\ SystemInit(sys.live) /\ WaitingInit
    /\ MbInit /\ MqInit /\ DqInit /\ SerInit /\ RbInit
    /\ "rx" \notin sys.has => rx.mode = "int"

Deletable ==
    UNION {IF "mailbox" \in sys.has THEN MbDeletable ELSE {},
           IF "queue" \in sys.has THEN MqDeletable ELSE {}}

\* What was delivered is remembered up to the next step of the kernel.
Forget ==
    /\ mb' = [mb EXCEPT !.last = Null]
    /\ mq' = [mq EXCEPT !.last = Null]
    /\ dq' = [dq EXCEPT !.last = Null]
    /\ rbout' = << >>

Next ==
    /\ \/ IpcStep(Deletable) /\ Elapse /\ Forget
          /\ UNCHANGED <<mail, mine, text, item, rb, serial>>
       \/ "mailbox" \in sys.has /\ MbStep(sys.producer, sys.consumer) /\ UNCHANGED <<queue, dataqueue, serial, ring>>
       \/ "queue" \in sys.has /\ MqStep(sys.producer, sys.consumer) /\ UNCHANGED <<mailbox, dataqueue, serial, ring>>
       \/ "dataqueue" \in sys.has /\ DqStep(sys.producer, sys.consumer) /\ UNCHANGED <<mailbox, queue, serial, ring>>
       \/ "ring" \in sys.has /\ isr = "none" /\ RbStep
          /\ UNCHANGED <<kernel, waiting, mailbox, queue, dataqueue, serial>>
       \/ "rx" \in sys.has /\ RxStep(sys.consumer)
          /\ UNCHANGED <<kernel, waiting, mailbox, queue, dataqueue, tx, ring>>
       \/ "tx" \in sys.has /\ TxStep(sys.producer) /\ UNCHANGED <<mailbox, queue, rx, rxin, ring>>
    /\ UNCHANGED sys

Spec == Init /\ [][Next]_vars

-----------------------------------------------------------------------------

\* Offsets, counts, list ends and indexes of the mailbox, the message queue, the
\* data queue, the ring buffer and the serial FIFO stay in range.
MessagesTypeOK ==
    /\ WaitingTypeOK
    /\ mb \in [in : 0 .. MbSize - 1, out : 0 .. MbSize - 1, entry : 0 .. MbSize,
               last : Mail \cup {Null, "reset"}, pool : [0 .. MbSize - 1 -> Mail \cup {Null}]]
    /\ mq \in [head : Slot \cup {Null}, tail : Slot \cup {Null}, free : Slot \cup {Null},
               entry : 0 .. Cardinality(Slot), next : [Slot -> Slot \cup {Null}],
               body : [Slot -> Message \cup {Null}], last : Message \cup {Null, "reset"}]
    /\ dq \in [put : 0 .. IdxMod - 1, get : 0 .. IdxMod - 1, count : Nat,
               last : Item \cup {Null}, cell : [0 .. DqSize - 1 -> Item \cup {Null}]]
    /\ rb \in [rm : 0 .. 1, ri : Cells, wm : 0 .. 1, wi : Cells,
               cell : [Cells -> RbByte \cup {RbNone}]]
    /\ rx \in [mode : {"int", "dma"}, put : RxCells, get : RxCells, full : BOOLEAN,
               cell : [RxCells -> RxByte \cup {Null}], pos : RxCells, new : 0 .. Bufsz]
    /\ tx \in [active : BOOLEAN, wire : Item \cup {Null}, data : [Thread -> Item \cup {Null}]]

\* A time limit of rt_mb_send_wait, rt_mb_recv or rt_mq_recv stays where it was
\* when the call began, however often the thread is resumed in vain and across a
\* wrap of rt_tick.
MessageDeadlineKept == DeadlineKept({MbRx, MbTx, MqRx})

\* In a system that transmits through the data queue the DMA controller does not
\* stall with buffers left in the queue.
SerialServed == "tx" \in sys.has => TxServed
\* The objects keep to their types, the suspend lists hold exactly the threads that
\* wait in the calls, and every message slot is queued, free or in the hands of one
\* thread.
MessagesConsistent == MessagesTypeOK /\ WaitersListed /\ SlotsAccounted

\* Nobody waits in vain: not a receiver for a message that is there, not a sender
\* for room that is there, not a buffer for an idle controller, not a thread on an
\* object that was deleted.
MessagesServed ==
    MailboxServed /\ QueueServed /\ DataQueueServed /\ SerialServed /\ DeleteWakesAll
=============================================================================
