------------------------------ MODULE WorkQueue ------------------------------
(***************************************************************************)
(* The work queue of components/drivers/src/workqueue.c: a thread that     *)
(* executes the works of a list and suspends itself when there are none.   *)
(* The timer of a delayed work submits it in the tick handler: the board   *)
(* is built without RT_USING_TIMER_SOFT; when that happens is left open.   *)
(* A work function makes no kernel call.                                   *)
(*                                                                         *)
(* The worker's loop begins at "wq_check".  It goes from "wq_suspend" and  *)
(* "take_sched" to "take_ret", where it takes a work, "wq_do", where it    *)
(* executes it, and "wq_ack".                                              *)
(***************************************************************************)
EXTENDS Waiting

CONSTANTS
    Work,       \* the works
    Delayed,    \* those of type RT_WORK_TYPE_DELAYED
    Worker,     \* queue->work_thread
    WqSem       \* the suspend list of queue->sem, whose value is 0

ASSUME WorkQueueAssumption == Delayed \subseteq Work /\ Null \notin Work

VARIABLES
    wq      \* work_list, work_current, the works with RT_WORK_STATE_PENDING and
            \* RT_WORK_STATE_SUBMITTING (whose timer runs) and those with a
            \* workqueue; and history: stray, the worker took the list head for
            \* a work; cancelled, the works whose last call was a cancel

WqInit ==
    wq = [list |-> << >>, cur |-> Null, pending |-> {}, armed |-> {}, attached |-> {},
          stray |-> FALSE, cancelled |-> {}]

\* What the queue needs and does not enforce, unless the instance asks for the
\* race: no submit comes while the worker has found the list empty and has not
\* yet suspended itself, or while another submitter is about to resume it.
Quiet ==
    "wq_race" \in Ops \/ (pc[Worker].at # "wq_suspend" /\ \A t \in User : pc[t].at # "wq_resume")

\* And the last work is not cancelled while the worker is on its way to it.
MayCancel(w) ==
    \/ "wq_race" \in Ops
    \/ Quiet /\ (pc[Worker].at \in {"wq_check", "wq_do", "wq_ack"} \/ ToSet(wq.list) # {w})

-----------------------------------------------------------------------------
(* _workqueue_thread_entry *)

WorkerCheck ==
    /\ Is(Worker, "wq_check")
    /\ IF wq.list = << >> THEN Goto(Worker, "wq_suspend", Worker)
       ELSE Goto(Worker, "take_ret", Worker)
    /\ UNCHANGED <<k, isr, dead, fault, waiting, wq>>

WorkerSuspend ==
    /\ Is(Worker, "wq_suspend")
    /\ k' = rt_thread_suspend(k, Worker)
    /\ Goto(Worker, "take_sched", Worker)
    /\ UNCHANGED <<isr, dead, fault, waiting, wq>>

\* Taken from an empty list, the work is the list head.
WorkerTake ==
    /\ Is(Worker, "take_ret")
    /\ wq' = IF wq.list = << >> THEN [wq EXCEPT !.stray = TRUE]
             ELSE [wq EXCEPT !.list = Tail(@), !.cur = Head(wq.list),
                             !.pending = @ \ {Head(wq.list)}]
    /\ Goto(Worker, "wq_do", Worker)
    /\ UNCHANGED <<k, isr, dead, fault, waiting>>

WorkerDone ==
    /\ Is(Worker, "wq_do")
    /\ wq' = [wq EXCEPT !.cur = Null]
    /\ Goto(Worker, "wq_ack", Worker)
    /\ UNCHANGED <<k, isr, dead, fault, waiting>>

\* _workqueue_work_completion: with the scheduler locked, the semaphore is
\* released until it can be taken, that is, until nobody waits for it.
WorkerAck ==
    /\ Is(Worker, "wq_ack")
    /\ k' = rt_schedule(FoldLeft(LAMBDA s, t : rt_ipc_list_resume(s, WqSem), k, k.q[WqSem]))
    /\ Goto(Worker, "wq_check", Worker)
    /\ UNCHANGED <<isr, dead, fault, waiting, wq>>

-----------------------------------------------------------------------------
(* _workqueue_submit_work and rt_workqueue_critical_work *)

\* Otherwise the call returns -RT_EBUSY.
Submittable(w) == w \notin wq.pending /\ wq.cur # w

Queued(w) ==
    [wq EXCEPT !.list = Append(RemoveFirst(@, w), w), !.pending = @ \cup {w},
               !.cancelled = @ \ {w}]

\* With no work being executed the worker is resumed, after a window.
Submit(t, w) ==
    /\ Quiet /\ Submittable(w)
    /\ wq' = Queued(w)
    /\ Goto(t, IF wq.cur = Null THEN "wq_resume" ELSE "run", t)
    /\ UNCHANGED <<k, isr, dead, fault, waiting>>

SubmitWork(t, w) == Calls(t, "wq_submit") /\ Submit(t, w)

ResumeWorker(t) ==
    /\ Is(t, "wq_resume")
    /\ k' = rt_thread_resume(k, Worker)
    /\ Goto(t, "sched", t)
    /\ UNCHANGED <<isr, dead, fault, waiting, wq>>

\* rt_workqueue_critical_work does not look at RT_WORK_STATE_PENDING.
CriticalWork(t, w) ==
    /\ Calls(t, "wq_critical") /\ Quiet /\ wq.cur # w
    /\ wq' = [wq EXCEPT !.list = Append(RemoveFirst(@, w), w), !.cancelled = @ \ {w}]
    /\ Goto(t, IF wq.cur = Null THEN "wq_resume" ELSE "run", t)
    /\ UNCHANGED <<k, isr, dead, fault, waiting>>

-----------------------------------------------------------------------------
(* Cancelling *)

Removed(w) ==
    [wq EXCEPT !.list = RemoveFirst(@, w), !.pending = @ \ {w}, !.cancelled = @ \cup {w}]

\* rt_workqueue_cancel_work; -RT_EBUSY for a work that is being executed
CancelWork(t, w) ==
    /\ Calls(t, "wq_cancel") /\ wq.cur # w /\ MayCancel(w)
    /\ wq' = Removed(w)
    /\ UNCHANGED <<kernel, waiting>>

\* rt_workqueue_cancel_work_sync of the work that is being executed: rt_sem_take
\* and what follows run with interrupts disabled, so that the context switch is
\* taken only when the flag has been cleared and the function ends.
CancelSyncBlocks(t, w) ==
    /\ Calls(t, "wq_sync") /\ wq.cur = w /\ t # Worker
    /\ k' = rt_schedule(SuspendSelfOn(k, WqSem, "FIFO", -1))
    /\ wq' = [wq EXCEPT !.pending = @ \ {w}]
    /\ Goto(t, "take_ret", WqSem)
    /\ UNCHANGED <<isr, dead, fault, waiting>>

CancelSyncReturns(t) ==
    /\ Is(t, "take_ret") /\ pc[t].arg = WqSem
    /\ Goto(t, "run", t)
    /\ UNCHANGED <<k, isr, dead, fault, waiting, wq>>

\* And of another one.
CancelSync(t, w) ==
    /\ Calls(t, "wq_sync") /\ wq.cur # w /\ MayCancel(w)
    /\ wq' = Removed(w)
    /\ UNCHANGED <<kernel, waiting>>

-----------------------------------------------------------------------------
(* Delayed works.  No two calls are about the same delayed work at a time,  *)
(* and its timer does not expire between the tests and the stop of a       *)
(* cancel, unless the instance asks for the race.                          *)

Unshared(w) ==
    "wq_race" \in Ops \/ \A u \in User : pc[u] # [at |-> "dw_stop", arg |-> w]

\* _workqueue_submit_delayed_work of a work without a queue: submitted at once
\* if the delay is 0 (an -RT_EBUSY is dropped), otherwise its timer is started.
DelayedNow(t, w) ==
    /\ Calls(t, "dw_submit") /\ w \notin wq.attached /\ Unshared(w) /\ Quiet
    /\ wq' = [IF Submittable(w) THEN Queued(w) ELSE wq EXCEPT !.attached = @ \cup {w}]
    /\ Goto(t, IF Submittable(w) /\ wq.cur = Null THEN "wq_resume" ELSE "run", t)
    /\ UNCHANGED <<k, isr, dead, fault, waiting>>

DelayedStart(t, w) ==
    /\ Calls(t, "dw_submit") /\ w \notin wq.attached /\ Unshared(w)
    /\ wq' = [wq EXCEPT !.attached = @ \cup {w}, !.armed = @ \cup {w},
                        !.cancelled = @ \ {w}]
    /\ UNCHANGED <<kernel, waiting>>

\* _delayed_work_timeout_handler.  What it submits while the work is pending or
\* executed is dropped.
DelayedTimeout(w) ==
    /\ isr = "none" /\ w \in wq.armed /\ Unshared(w) /\ Quiet
    /\ wq' = [IF Submittable(w) THEN Queued(w) ELSE wq EXCEPT !.armed = @ \ {w}]
    /\ k' = IF Submittable(w) /\ wq.cur = Null
            THEN rt_schedule(rt_thread_resume(k, Worker)) ELSE k
    /\ UNCHANGED <<isr, pc, dead, fault, waiting>>

\* _workqueue_cancel_delayed_work, also called when a work is submitted again.
\* For a pending work it calls rt_workqueue_cancel_work, which calls it: such a
\* cancel never ends, and threads do not make it.
DelayedCancel(t, w) ==
    /\ Calls(t, "dw_cancel") /\ w \in wq.attached \ wq.pending /\ Unshared(w)
    /\ Goto(t, "dw_stop", w)
    /\ UNCHANGED <<k, isr, dead, fault, waiting, wq>>

\* Mutant: the timer is not stopped.
DelayedStop_KeepTimer(t) ==
    LET w == pc[t].arg IN
    /\ Is(t, "dw_stop")
    /\ wq' = [wq EXCEPT !.attached = @ \ {w}, !.pending = @ \ {w}, !.cancelled = @ \cup {w}]
    /\ Goto(t, "run", t)
    /\ UNCHANGED <<k, isr, dead, fault, waiting>>

\* The timer is stopped and the work detached from the queue.
DelayedStop(t) ==
    LET w == pc[t].arg IN
    /\ Is(t, "dw_stop")
    /\ wq' = [wq EXCEPT !.armed = @ \ {w}, !.attached = @ \ {w}, !.pending = @ \ {w},
                        !.cancelled = @ \cup {w}]
    /\ Goto(t, "run", t)
    /\ UNCHANGED <<k, isr, dead, fault, waiting>>

WqStep(producer) ==
    \/ WorkerCheck \/ WorkerSuspend \/ WorkerTake \/ WorkerDone \/ WorkerAck
    \/ \E w \in Delayed : DelayedTimeout(w)
    \/ \E t \in producer, w \in Work \ Delayed :
        \/ SubmitWork(t, w) \/ CriticalWork(t, w) \/ CancelWork(t, w)
        \/ CancelSyncBlocks(t, w) \/ CancelSync(t, w)
    \/ \E t \in producer, w \in Delayed :
        DelayedNow(t, w) \/ DelayedStart(t, w) \/ DelayedCancel(t, w)
    \/ \E t \in producer : ResumeWorker(t) \/ CancelSyncReturns(t) \/ DelayedStop(t)

-----------------------------------------------------------------------------

\* The worker, awake, has a work to do: what it takes from the list is a work.
WorkerFindsWork == ~wq.stray

\* No lost wake-up: while the worker is suspended there is no work, or a submitter
\* is on its way to resume it.
WorkerAwake ==
    k.stat[Worker] = "SUSPEND" =>
        wq.list = << >> \/ \E t \in User : pc[t].at = "wq_resume"

\* A work is in the list once and not while it is executed, a pending work is in
\* the list, and a work that was cancelled is neither queued nor going to be.
WorkListExact ==
    /\ IsInjective(wq.list)
    /\ wq.cur \notin ToSet(wq.list) /\ wq.pending \subseteq ToSet(wq.list)
    /\ wq.cancelled \cap (ToSet(wq.list) \cup wq.armed) = {}

\* What the worker executes is what was submitted and not cancelled: it finds a
\* work whenever it looks for one, and the list is exact.
WorkQueueExact == WorkerFindsWork /\ WorkListExact

\* A thread that waits in rt_workqueue_cancel_work_sync waits for a work that is
\* executed or whose end is about to be announced.
SyncServed == k.q[WqSem] # << >> => wq.cur # Null \/ pc[Worker].at = "wq_ack"
=============================================================================
