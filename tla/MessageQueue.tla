---------------------------- MODULE MessageQueue ----------------------------
(***************************************************************************)
(* The message queue of ipc.c.  The message slots are linked into a queue  *)
(* and a free list through the same next pointer.  A sender owns the slot  *)
(* it has taken off the free list, and a receiver the slot it has taken    *)
(* off the queue, while the message is copied with interrupts enabled; the *)
(* copy is part of the step that ends the call.  A send finding no free    *)
(* slot, and a receive with time 0 from an empty queue, change nothing.    *)
(***************************************************************************)
EXTENDS Waiting

CONSTANTS
    Message,    \* the messages
    Slot,       \* the message slots of msg_pool, numbered from 1
    MqRx        \* mq->parent.suspend_thread; it also stands for the queue

ASSUME MessageQueueAssumption ==
    /\ Null \notin Message \cup Slot
    /\ IsFiniteSet(Slot) /\ Slot # {} /\ Slot = 1 .. Cardinality(Slot)

VARIABLES
    mq,     \* msg_queue_head, _tail, _free, entry; next and body of each slot;
            \* and history: last is the message the last step delivered,
            \* "reset" after a reset
    mine,   \* the slot (local variable msg) that a thread is copying
    text    \* the message (argument buffer) that a thread is sending

queue == <<mq, mine, text>>

\* rt_mq_init pushes the slots onto the free list one by one.
MqInit ==
    /\ mq = [head |-> Null, tail |-> Null, free |-> Cardinality(Slot), entry |-> 0,
             next |-> [s \in Slot |-> IF s = 1 THEN Null ELSE s - 1],
             body |-> [s \in Slot |-> Null], last |-> Null]
    /\ mine = [t \in Thread |-> Null]
    /\ text = [t \in Thread |-> Null]

-----------------------------------------------------------------------------
(* What the functions do to the lists with interrupts disabled. *)

TakeSlot(q) == [q EXCEPT !.free = q.next[q.free]]

\* Mutant: the next pointer of the new tail is not cleared.
LinkTail_Dangling(q, s, m) ==
    LET r == [q EXCEPT !.body[s] = m, !.entry = @ + 1, !.tail = s, !.last = Null,
                       !.head = IF @ = Null THEN s ELSE @]
    IN  IF q.tail = Null THEN r ELSE [r EXCEPT !.next[q.tail] = s]

\* rt_mq_send: the message is copied into slot s, which becomes the new tail.
LinkTail(q, s, m) ==
    LET r == [q EXCEPT !.body[s] = m, !.next[s] = Null, !.entry = @ + 1, !.tail = s,
                       !.head = IF @ = Null THEN s ELSE @, !.last = Null]
    IN  IF q.tail = Null THEN r ELSE [r EXCEPT !.next[q.tail] = s]

\* rt_mq_urgent: slot s becomes the new head.
LinkHead(q, s, m) ==
    [q EXCEPT !.body[s] = m, !.next[s] = q.head, !.head = s, !.entry = @ + 1,
              !.tail = IF @ = Null THEN s ELSE @, !.last = Null]

\* rt_mq_recv takes the head out ...
TakeHead(q) ==
    [q EXCEPT !.head = q.next[q.head], !.tail = IF @ = q.head THEN Null ELSE @,
              !.entry = @ - 1, !.last = q.body[q.head]]

\* ... and gives the slot back.  What is left in a free slot is never read.
GiveSlot(q, s) == [q EXCEPT !.next[s] = q.free, !.free = s, !.body[s] = Null]

\* The slots in s and the one that the last of them (or else pointer p) leads to
Follow(q, p, s) ==
    LET n == IF s = << >> THEN p ELSE q.next[Last(s)]
    IN  IF n = Null THEN s ELSE Append(s, n)

\* The slots from pointer p on; not longer than there are slots, so that a
\* cycle shows up as a repetition.
Path(q, p) ==
    LET upto[n \in 0 .. Cardinality(Slot)] ==
            IF n = 0 THEN << >> ELSE Follow(q, p, upto[n - 1])
    IN  upto[Cardinality(Slot)]

\* Mutant: a reset forgets the messages without freeing their slots.
Emptied_Leaks(q) == [q EXCEPT !.head = Null, !.tail = Null, !.entry = 0, !.last = "reset"]

\* rt_mq_control(RT_IPC_CMD_RESET) moves the slots of the queue to the free list.
Emptied(q) ==
    [FoldLeft(GiveSlot, q, Path(q, q.head)) EXCEPT
        !.head = Null, !.tail = Null, !.entry = 0, !.last = "reset"]

-----------------------------------------------------------------------------
(* rt_mq_send and rt_mq_urgent *)

\* A slot is taken; at says how the message is going to be linked.
MqSend(t, m, at) ==
    /\ CallsOn(t, at, MqRx) /\ mq.free # Null
    /\ mine' = [mine EXCEPT ![t] = mq.free]
    /\ text' = [text EXCEPT ![t] = m]
    /\ mq' = TakeSlot(mq)
    /\ Goto(t, at, MqRx)
    /\ UNCHANGED <<k, isr, dead, fault, waiting>>

MqLink(t) ==
    /\ Is(t, "mq_send") \/ Is(t, "mq_urgent")
    /\ mq' = IF pc[t].at = "mq_send" THEN LinkTail(mq, mine[t], text[t])
                                     ELSE LinkHead(mq, mine[t], text[t])
    /\ mine' = [mine EXCEPT ![t] = Null] /\ text' = [text EXCEPT ![t] = Null]
    /\ ResumeFirst(t, MqRx)
    /\ UNCHANGED <<isr, dead, fault, waiting>>

\* rt_mq_send in an interrupt handler
MqIsrSend(m) ==
    /\ IsrCalls("mq_isr_send", MqRx) /\ mq.free # Null
    /\ mq' = LinkTail(TakeSlot(mq), mq.free, m)
    /\ IsrResumeFirst(MqRx)
    /\ UNCHANGED <<isr, dead, fault, waiting, mine, text>>

-----------------------------------------------------------------------------
(* rt_mq_recv *)

MqUnlink(t) ==
    /\ mine' = [mine EXCEPT ![t] = mq.head]
    /\ mq' = TakeHead(mq)
    /\ Goto(t, "mq_copy", MqRx)
    /\ UNCHANGED <<k, isr, dead, fault, text>>

MqRecv(t) ==
    /\ CallsOn(t, "mq_recv", MqRx) /\ mq.entry # 0
    /\ MqUnlink(t)
    /\ UNCHANGED waiting

MqRecvBlocks(t, time) ==
    /\ CallsOn(t, "mq_recv", MqRx) /\ mq.entry = 0 /\ time # 0
    /\ WaitFirst(t, MqRx, SuspendSelfOn(k, MqRx, Flag[MqRx], time), time)
    /\ UNCHANGED <<isr, dead, fault, queue>>

MqRecvResumed(t) == Resumed(t, MqRx) /\ mq.entry # 0 /\ MqUnlink(t) /\ EndWait(t)

MqRecvAgain(t) ==
    /\ Resumed(t, MqRx) /\ mq.entry = 0 /\ Remaining(t) # 0
    /\ WaitAgain(t, MqRx, SuspendSelfOn(k, MqRx, Flag[MqRx], Remaining(t)), Remaining(t))
    /\ UNCHANGED <<isr, dead, fault, queue>>

MqRecvGivesUp(t) ==
    /\ WaitFails(t, MqRx) \/ (mq.entry = 0 /\ TimeIsUp(t, MqRx))
    /\ UNCHANGED queue

MqCopied(t) ==
    /\ Is(t, "mq_copy")
    /\ mq' = GiveSlot(mq, mine[t])
    /\ mine' = [mine EXCEPT ![t] = Null]
    /\ Goto(t, "run", t)
    /\ UNCHANGED <<k, isr, dead, fault, waiting, text>>

-----------------------------------------------------------------------------

MqReset(t) ==
    /\ CallsOn(t, "mq_reset", MqRx)
    /\ k' = ResumeAll(k, MqRx)
    /\ mq' = Emptied(mq)
    /\ Goto(t, "sched", t)
    /\ UNCHANGED <<isr, dead, fault, waiting, mine, text>>

\* The steps of the threads that send, of those that receive and of handlers.
MqStep(producer, consumer) ==
    \/ \E m \in Message : MqIsrSend(m)
    \/ \E t \in producer :
        \/ \E m \in Message, at \in {"mq_send", "mq_urgent"} : MqSend(t, m, at)
        \/ MqLink(t)
    \/ \E t \in consumer :
        \/ MqRecv(t) \/ \E time \in TimesOf(t) : MqRecvBlocks(t, time)
        \/ MqRecvResumed(t) \/ MqRecvAgain(t) \/ MqRecvGivesUp(t) \/ MqCopied(t)
    \/ \E t \in User : MqReset(t)

\* No thread is in a call that touches the queue again.
MqDeletable ==
    {o \in {MqRx} : NoneWoken(o) /\ \A t \in User : pc[t].at \notin {"mq_send", "mq_urgent", "mq_copy"}}

-----------------------------------------------------------------------------

\* Every slot is in the queue, in the free list or in the hands of one thread,
\* in one place only; tail and entry agree with the queue.  A slot in two places
\* would be overwritten while it is read, a slot in none is lost for ever.
SlotsAccounted ==
    LET used == Path(mq, mq.head)
        free == Path(mq, mq.free)
        out  == {t \in Thread : mine[t] # Null}
    IN  /\ IsInjective(used \o free)
        /\ {mine[t] : t \in out} = Slot \ ToSet(used \o free)
        /\ Cardinality({mine[t] : t \in out}) = Cardinality(out)
        /\ mq.entry = Len(used)
        /\ mq.tail = IF used = << >> THEN Null ELSE Last(used)

MqChannel == INSTANCE Channel
    WITH Msg <- Message, Cap <- Cardinality(Slot), Silence <- Null, Cleared <- "reset", Urgent <- TRUE,
         chan <- LET used == Path(mq, mq.head) IN [i \in 1 .. Len(used) |-> mq.body[used[i]]],
         out <- mq.last

\* The message queue implements the channel: an ordinary message goes behind, an
\* urgent one before all messages that were linked earlier.
QueueIsChannel == MqChannel!Spec

\* While receivers wait, each message in the queue has a resumed receiver on its
\* way to it.
QueueServed == k.q[MqRx] # << >> => Cardinality(Woken(MqRx)) >= mq.entry
=============================================================================
