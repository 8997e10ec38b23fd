------------------------------ MODULE DataQueue ------------------------------
(***************************************************************************)
(* The data queue of components/drivers/src/dataqueue.c: a ring of items   *)
(* with free-running 16-bit indexes.  Waiting pushers are resumed only     *)
(* when a pop leaves no more than the low water mark.  A wait that is      *)
(* resumed in vain begins again with the whole time.  The callbacks        *)
(* evt_notify and rt_data_queue_peak change nothing here.                  *)
(***************************************************************************)
EXTENDS Waiting

CONSTANTS
    Item,           \* the items
    DqSize,         \* queue->size
    DqLwm,          \* queue->lwm
    IdxMod,         \* 2^16, the range of put_index and get_index
    DqPop, DqPush   \* suspended_pop_list, suspended_push_list

ASSUME DataQueueAssumption ==
    /\ Null \notin Item
    /\ DqSize \in Nat \ {0} /\ DqLwm \in Nat /\ IdxMod \in Nat /\ IdxMod > DqSize

VARIABLES
    dq,     \* put_index, get_index, the cells (what is left in a free one is
            \* never read: Null); and history: count is the number of items
            \* pushed and not popped, last the item delivered last
    item    \* the item that a thread is pushing

dataqueue == <<dq, item>>

DqInit ==
    /\ dq = [put |-> 0, get |-> 0, count |-> 0, last |-> Null,
             cell |-> [i \in 0 .. DqSize - 1 |-> Null]]
    /\ item = [t \in Thread |-> Null]

\* The indexes are promoted to int before they are subtracted.
DqFull == dq.put - dq.get = DqSize
DqEmpty == dq.put = dq.get

\* How often a queue is pushed to: not until the indexes wrap, unless the
\* instance asks for it.
DqMayPush == dq.put + 1 < IdxMod \/ "dq_wrap" \in Ops

\* No thread is waking the waiters in rt_data_queue_reset, or the instance asks
\* for the race with a handler.
NotInReset == "reset_race" \in Ops \/ \A t \in User : pc[t].at \notin {"dq_check", "dq_wake"}

-----------------------------------------------------------------------------
(* rt_data_queue_push *)

\* Mutant: the item goes where the next pop looks.
DqPut_AtGet(m) ==
    dq' = [dq EXCEPT !.cell[dq.get % DqSize] = m, !.put = (@ + 1) % IdxMod,
                     !.count = @ + 1, !.last = Null]

DqPut(m) ==
    dq' = [dq EXCEPT !.cell[dq.put % DqSize] = m, !.put = (@ + 1) % IdxMod,
                     !.count = @ + 1, !.last = Null]

Push(t, m) ==
    /\ CallsOn(t, "dq_push", DqPop) /\ DqMayPush /\ ~DqFull
    /\ DqPut(m)
    /\ ResumeFirst(t, DqPop)
    /\ UNCHANGED <<isr, dead, fault, waiting, item>>

PushBlocks(t, m, time) ==
    /\ CallsOn(t, "dq_push", DqPop) /\ DqMayPush /\ DqFull /\ time # 0
    /\ WaitFirst(t, DqPush, SuspendSelfOn(k, DqPush, "FIFO", time), time)
    /\ item' = [item EXCEPT ![t] = m]
    /\ UNCHANGED <<isr, dead, fault, dq>>

PushResumed(t) ==
    /\ Resumed(t, DqPush) /\ DqMayPush /\ ~DqFull
    /\ DqPut(item[t])
    /\ ResumeFirst(t, DqPop)
    /\ EndWait(t) /\ item' = [item EXCEPT ![t] = Null]
    /\ UNCHANGED <<isr, dead, fault>>

PushAgain(t) ==
    /\ Resumed(t, DqPush) /\ DqFull
    /\ WaitAgain(t, DqPush, SuspendSelfOn(k, DqPush, "FIFO", left[t]), left[t])
    /\ UNCHANGED <<isr, dead, fault, dataqueue>>

PushFails(t) ==
    /\ WaitFails(t, DqPush)
    /\ item' = [item EXCEPT ![t] = Null]
    /\ UNCHANGED dq

\* A push from an interrupt handler, which does not come during a reset.
IsrPush(m) ==
    /\ IsrCalls("dq_isr_push", DqPop) /\ DqMayPush /\ ~DqFull /\ NotInReset
    /\ DqPut(m)
    /\ IsrResumeFirst(DqPop)
    /\ UNCHANGED <<isr, dead, fault, waiting, item>>

-----------------------------------------------------------------------------
(* rt_data_queue_pop *)

DqTake ==
    dq' = [dq EXCEPT !.get = (@ + 1) % IdxMod, !.last = dq.cell[dq.get % DqSize],
                     !.count = @ - 1, !.cell[dq.get % DqSize] = Null]

\* After the pop no more than the low water mark is left.
DqLow == dq.put - ((dq.get + 1) % IdxMod) <= DqLwm

Pop(t) ==
    /\ CallsOn(t, "dq_pop", DqPop) /\ ~DqEmpty
    /\ DqTake
    /\ IF DqLow THEN ResumeFirst(t, DqPush) ELSE UNCHANGED <<k, pc>>
    /\ UNCHANGED <<isr, dead, fault, waiting, item>>

PopBlocks(t, time) ==
    /\ CallsOn(t, "dq_pop", DqPop) /\ DqEmpty /\ time # 0
    /\ WaitFirst(t, DqPop, SuspendSelfOn(k, DqPop, "FIFO", time), time)
    /\ UNCHANGED <<isr, dead, fault, dataqueue>>

PopResumed(t) ==
    /\ Resumed(t, DqPop) /\ ~DqEmpty
    /\ DqTake
    /\ IF DqLow THEN ResumeFirst(t, DqPush) ELSE UNCHANGED k /\ Goto(t, "run", t)
    /\ EndWait(t)
    /\ UNCHANGED <<isr, dead, fault, item>>

PopAgain(t) ==
    /\ Resumed(t, DqPop) /\ DqEmpty
    /\ WaitAgain(t, DqPop, SuspendSelfOn(k, DqPop, "FIFO", left[t]), left[t])
    /\ UNCHANGED <<isr, dead, fault, dataqueue>>

PopFails(t) == WaitFails(t, DqPop) /\ UNCHANGED dataqueue

\* A pop from an interrupt handler, which does not come during a reset.
IsrPop ==
    /\ IsrCalls("dq_isr_pop", DqPop) /\ ~DqEmpty /\ NotInReset
    /\ DqTake
    /\ IF DqLow THEN IsrResumeFirst(DqPush) ELSE UNCHANGED <<k, pc>>
    /\ UNCHANGED <<isr, dead, fault, waiting, item>>

-----------------------------------------------------------------------------
(* rt_data_queue_reset: wakes all waiters of both lists with the scheduler *)
(* locked and interrupts enabled between them, and keeps the items.        *)

DqReset(t) ==
    /\ CallsOn(t, "dq_reset", DqPop)
    /\ "reset_race" \in Ops
       \/ \A u \in Thread, o \in {DqPop, DqPush} : Linked(k, u, o) => ~Armed(k, u)
    /\ k' = [k EXCEPT !.lock = @ + 1]
    /\ Goto(t, "dq_check", DqPop)
    /\ UNCHANGED <<isr, dead, fault, waiting, dataqueue>>

DqResetCheck(t) ==
    LET o == pc[t].arg IN
    /\ Is(t, "dq_check")
    /\ \/ k.q[o] # << >> /\ Goto(t, "dq_wake", o) /\ UNCHANGED k
       \/ k.q[o] = << >> /\ o = DqPop /\ Goto(t, "dq_check", DqPush) /\ UNCHANGED k
       \/ k.q[o] = << >> /\ o = DqPush /\ Goto(t, "dq_unlocked", o)
          /\ k' = [k EXCEPT !.lock = @ - 1]
    /\ UNCHANGED <<isr, dead, fault, waiting, dataqueue>>

DqResetWake(t) ==
    LET o == pc[t].arg IN
    /\ Is(t, "dq_wake")
    /\ IF k.q[o] # << >> THEN k' = ResumeOneWithError(k, o) /\ UNCHANGED fault
       ELSE fault' = TRUE /\ UNCHANGED k
    /\ Goto(t, "dq_check", o)
    /\ UNCHANGED <<isr, dead, waiting, dataqueue>>

\* rt_exit_critical calls rt_schedule, and rt_data_queue_reset does once more.
DqResetSchedule(t) ==
    /\ Is(t, "dq_unlocked")
    /\ k' = rt_schedule(k)
    /\ Goto(t, "sched", t)
    /\ UNCHANGED <<isr, dead, fault, waiting, dataqueue>>

\* The steps of the threads that send, of those that receive and of handlers.
DqStep(producer, consumer) ==
    \/ IsrPop \/ \E m \in Item : IsrPush(m)
    \/ \E t \in producer, m \in Item :
        Push(t, m) \/ \E time \in TimesOf(t) : PushBlocks(t, m, time)
    \/ \E t \in producer : PushResumed(t) \/ PushAgain(t) \/ PushFails(t)
    \/ \E t \in consumer :
        \/ Pop(t) \/ \E time \in TimesOf(t) : PopBlocks(t, time)
        \/ PopResumed(t) \/ PopAgain(t) \/ PopFails(t)
    \/ \E t \in User :
        DqReset(t) \/ DqResetCheck(t) \/ DqResetWake(t) \/ DqResetSchedule(t)

-----------------------------------------------------------------------------

DqChannel == INSTANCE Channel
    WITH Msg <- Item, Cap <- DqSize, Silence <- Null, Cleared <- "reset", Urgent <- FALSE,
         chan <- [i \in 1 .. dq.put - dq.get |-> dq.cell[(dq.get + i - 1) % DqSize]],
         out <- dq.last

\* As long as the indexes do not wrap, the data queue implements the channel.
DataQueueIsChannel == DqChannel!Spec

\* While poppers wait, each item has a resumed popper on its way to it; and while
\* pushers wait, there are resumed pushers on their way or enough items for a
\* later pop to pass the low water mark.
DataQueueServed ==
    /\ k.q[DqPop] # << >> => Cardinality(Woken(DqPop)) >= dq.count
    /\ k.q[DqPush] # << >> =>
            \/ Cardinality(Woken(DqPush)) + dq.count > DqLwm
            \/ Cardinality(Woken(DqPush)) + dq.count >= DqSize

\* A push waits when the queue is full: it never holds more than size items.
DataQueueWithinSize == dq.count <= DqSize
=============================================================================
