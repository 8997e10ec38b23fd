------------------------------- MODULE Kernel -------------------------------
(***************************************************************************)
(* The state the RT-Thread kernel keeps about threads, and the kernel      *)
(* functions that change it with interrupts disabled: the ready table of   *)
(* scheduler.c, the thread state changes of thread.c, the thread timers of *)
(* timer.c and the suspend lists of ipc.c, for the single-core build       *)
(* (no RT_USING_SMP, no RT_USING_SIGNALS, RT_THREAD_PRIORITY_MAX <= 32,    *)
(* one-level timer list) that rtconfig.h of the board selects.             *)
(*                                                                         *)
(* The module has no variables.  A kernel state is a record k, every C     *)
(* function is an operator from a kernel state to the next one, and the    *)
(* state machines that EXTEND this module compose them in the order in     *)
(* which the C code calls them.                                            *)
(*                                                                         *)
(*   k.cur      rt_current_thread                                          *)
(*   k.stat     thread->stat & RT_THREAD_STAT_MASK                         *)
(*   k.prio     thread->current_priority (0 is the most urgent)            *)
(*   k.q        the list heads a thread's tlist node can be linked into:   *)
(*              rt_thread_priority_table[p], the suspend list of an object *)
(*              and rt_thread_defunct                                      *)
(*   k.group    rt_thread_ready_priority_group, as the set of its bits     *)
(*   k.lock     rt_scheduler_lock_nest                                     *)
(*   k.err      thread->error                                              *)
(*   k.tick     rt_tick, modulo TickMod                                    *)
(*   k.slice    thread->remaining_tick                                     *)
(*   k.tlist    rt_timer_list, the sorted list of armed thread timers      *)
(*   k.timeout  thread_timer.timeout_tick; 0 while the timer is not linked *)
(***************************************************************************)
EXTENDS Integers, Sequences, FiniteSets, SequencesExt

CONSTANTS
    Thread,     \* the threads
    Idle,       \* the idle thread of idle.c
    PrioMax,    \* RT_THREAD_PRIORITY_MAX
    Obj,        \* the lists threads suspend on: one per IPC object or direction
    Defunct,    \* the list head rt_thread_defunct
    TickMod,    \* 2^w for a w-bit rt_tick_t
    Slice       \* init_tick of every thread

Prio == 0 .. PrioMax - 1
Lists == Prio \cup Obj \cup {Defunct}
Tick == 0 .. TickMod - 1

\* RT_TICK_MAX / 2
HalfTick == (TickMod - 1) \div 2

ASSUME KernelAssumption ==
    /\ IsFiniteSet(Thread) /\ Idle \in Thread
    /\ PrioMax \in Nat \ {0}
    /\ Obj \cap Prio = {}
    /\ Defunct \notin Prio \cup Obj
    /\ TickMod \in Nat /\ TickMod >= 4
    /\ Slice \in Nat \ {0}

Stat == {"INIT", "READY", "SUSPEND", "RUNNING", "CLOSE"}
Error == {"EOK", "ETIMEOUT", "ERROR"}

Kstate ==
    [cur : Thread, stat : [Thread -> Stat], prio : [Thread -> Prio],
     q : [Lists -> Seq(Thread)], group : SUBSET Prio, lock : Nat,
     err : [Thread -> Error], tick : Tick, slice : [Thread -> 1 .. Slice],
     tlist : Seq(Thread), timeout : [Thread -> Tick]]

-----------------------------------------------------------------------------
(* rt_list_remove: takes thread t's node out of whichever list holds it.   *)
Unlink(k, t) == [k EXCEPT !.q = [l \in Lists |-> RemoveFirst(k.q[l], t)]]

(* scheduler.c *)

\* __rt_ffs(rt_thread_ready_priority_group) - 1
HighestReady(k) == CHOOSE p \in k.group : \A r \in k.group : p <= r

rt_schedule_insert_thread(k, t) ==
    IF t = k.cur
    THEN [k EXCEPT !.stat[t] = "RUNNING"]
    ELSE [k EXCEPT !.stat[t] = "READY",
                   !.q[k.prio[t]] = Append(@, t),
                   !.group = @ \cup {k.prio[t]}]

rt_schedule_remove_thread(k, t) ==
    LET u == Unlink(k, t)
    IN  [u EXCEPT !.group = IF u.q[u.prio[t]] = << >> THEN @ \ {u.prio[t]} ELSE @]

\* rt_schedule does something: the scheduler is not locked, a thread is ready.
MaySwitch(k) == k.lock = 0 /\ k.group # {}

\* Mutant: a thread keeps the processor against its equals.
Stays_OnTie(k) == k.stat[k.cur] = "RUNNING" /\ k.prio[k.cur] <= HighestReady(k)

\* The current thread goes on: it can, and is more urgent than the ready ones.
Stays(k) == k.stat[k.cur] = "RUNNING" /\ k.prio[k.cur] < HighestReady(k)

\* The current thread makes way for thread `to`: still RUNNING, it goes to the
\* tail of its ready list.
Leave(k, to) ==
    LET moved == [k EXCEPT !.cur = to]
    IN  IF k.stat[k.cur] = "RUNNING"
        THEN rt_schedule_insert_thread(moved, k.cur) ELSE moved

\* Thread `to` is taken out of the ready table to run.
Enter(k, to) == [rt_schedule_remove_thread(k, to) EXCEPT !.stat[to] = "RUNNING"]

rt_schedule(k) ==
    LET to == Head(k.q[HighestReady(k)])
    IN  IF ~MaySwitch(k) THEN k
        ELSE IF Stays(k) THEN Enter(k, k.cur)
        ELSE Enter(Leave(k, to), to)

-----------------------------------------------------------------------------
(* timer.c, for the one-shot timer embedded in each thread.  Its ACTIVATED *)
(* flag is set exactly while the timer is linked, because every use of a   *)
(* thread timer runs with interrupts disabled.                             *)

\* Unsigned subtraction of ticks.
TickDiff(a, b) == (a - b) % TickMod

\* Mutant: expiry ticks are compared without regard to the wrap of rt_tick.
TimerPosition_NoWrap(k, at) ==
    LET later == {i \in 1 .. Len(k.tlist) : k.timeout[k.tlist[i]] > at}
    IN  IF later = {} THEN Len(k.tlist) + 1
        ELSE CHOOSE i \in later : \A j \in later : i <= j

\* The position of a timer that expires at tick `at`: before the first timer
\* that expires later, behind the ones that expire at the same tick.
TimerPosition(k, at) ==
    LET later == {i \in 1 .. Len(k.tlist) :
                    /\ TickDiff(k.timeout[k.tlist[i]], at) # 0
                    /\ TickDiff(k.timeout[k.tlist[i]], at) < HalfTick}
    IN  IF later = {} THEN Len(k.tlist) + 1
        ELSE CHOOSE i \in later : \A j \in later : i <= j

\* _rt_timer_remove, and rt_timer_stop of a thread timer.
TimerStop(k, t) ==
    [k EXCEPT !.tlist = RemoveFirst(@, t), !.timeout[t] = 0]

\* rt_timer_control(SET_TIME) and rt_timer_start
TimerStart(k, t, ticks) ==
    LET s  == TimerStop(k, t)
        at == (k.tick + ticks) % TickMod
    IN  [s EXCEPT !.timeout[t] = at,
                  !.tlist = InsertAt(s.tlist, TimerPosition(s, at), t)]

\* Mutant: an expired timer is recognised without regard to the wrap.
HeadExpired_NoWrap(k) == k.tlist # << >> /\ k.tick >= k.timeout[Head(k.tlist)]

\* The test rt_timer_check makes of the first timer of the list.
HeadExpired(k) ==
    /\ k.tlist # << >>
    /\ TickDiff(k.tick, k.timeout[Head(k.tlist)]) < HalfTick

-----------------------------------------------------------------------------
(* thread.c *)

rt_thread_suspend(k, t) ==
    IF k.stat[t] \in {"READY", "RUNNING"}
    THEN TimerStop([rt_schedule_remove_thread(k, t) EXCEPT !.stat[t] = "SUSPEND"], t)
    ELSE k

\* The first half of rt_thread_resume, up to its rt_hw_interrupt_enable.
ResumeUnlink(k, t) == TimerStop(Unlink(k, t), t)

\* Mutant: the timer of a resumed thread keeps running.
rt_thread_resume_KeepTimer(k, t) ==
    IF k.stat[t] = "SUSPEND" THEN rt_schedule_insert_thread(Unlink(k, t), t) ELSE k

rt_thread_resume(k, t) ==
    IF k.stat[t] = "SUSPEND"
    THEN rt_schedule_insert_thread(ResumeUnlink(k, t), t)
    ELSE k

\* Mutants: a thread that times out stays on the suspend list; is not made ready.
rt_thread_timeout_KeepNode(k, t) ==
    rt_schedule([k EXCEPT !.err[t] = "ETIMEOUT", !.stat[t] = "READY",
                          !.q[k.prio[t]] = Append(@, t), !.group = @ \cup {k.prio[t]}])
rt_thread_timeout_NoInsert(k, t) == Unlink([k EXCEPT !.err[t] = "ETIMEOUT"], t)

rt_thread_timeout(k, t) ==
    rt_schedule(
        rt_schedule_insert_thread(Unlink([k EXCEPT !.err[t] = "ETIMEOUT"], t), t))

\* Mutant: a ready thread stays in the list of its old priority.
ChangePriority_InPlace(k, t, p) == [k EXCEPT !.prio[t] = p]

\* rt_thread_control(RT_THREAD_CTRL_CHANGE_PRIORITY)
ChangePriority(k, t, p) ==
    IF k.stat[t] = "READY"
    THEN rt_schedule_insert_thread(
            [rt_schedule_remove_thread(k, t) EXCEPT !.prio[t] = p], t)
    ELSE [k EXCEPT !.prio[t] = p]

-----------------------------------------------------------------------------
(* ipc.c: the suspend lists *)

\* Mutant: every list is treated as FIFO.
WaitPosition_Tail(k, o, t, flag) == Len(k.q[o]) + 1

\* Where rt_ipc_list_suspend puts thread t: at the tail of a FIFO list, before
\* the first less urgent thread of a PRIO list.
WaitPosition(k, o, t, flag) ==
    LET after == {i \in 1 .. Len(k.q[o]) : k.prio[t] < k.prio[k.q[o][i]]}
    IN  IF flag = "FIFO" \/ after = {} THEN Len(k.q[o]) + 1
        ELSE CHOOSE i \in after : \A j \in after : i <= j

rt_ipc_list_suspend(k, o, t, flag) ==
    LET s == rt_thread_suspend(k, t)
    IN  [s EXCEPT !.q[o] = InsertAt(@, WaitPosition(s, o, t, flag), t)]

rt_ipc_list_resume(k, o) == rt_thread_resume(k, Head(k.q[o]))

\* How every blocking call of ipc.c puts the current thread to sleep: error
\* reset, suspended on the list, and the thread timer armed unless the wait is
\* forever (a negative time).
SuspendSelfOn(k, o, flag, time) ==
    LET s == rt_ipc_list_suspend([k EXCEPT !.err[k.cur] = "EOK"], o, k.cur, flag)
    IN  IF time > 0 THEN TimerStart(s, k.cur, time) ELSE s

\* One turn of the loop in rt_ipc_list_resume_all
ResumeOneWithError(k, o) ==
    rt_ipc_list_resume([k EXCEPT !.err[Head(k.q[o])] = "ERROR"], o)

-----------------------------------------------------------------------------
\* Mutant: the tick count saturates.
rt_tick_increase_Saturates(k) ==
    [k EXCEPT !.tick = IF @ = TickMod - 1 THEN @ ELSE @ + 1]
(* clock.c: rt_tick_increase up to its call of rt_timer_check *)
rt_tick_increase(k) ==
    LET t == [k EXCEPT !.tick = (@ + 1) % TickMod]
    IN  IF t.slice[t.cur] = 1
        THEN rt_schedule([t EXCEPT !.slice[t.cur] = Slice])
        ELSE [t EXCEPT !.slice[t.cur] = @ - 1]

-----------------------------------------------------------------------------
(* The start of the scheduler; prio gives each thread its init_priority.   *)

\* Before the scheduler starts, rt_thread_startup has put the live threads into
\* the ready table; rt_current_thread is still RT_NULL.
ReadyTableOf(live, prio) ==
    [cur |-> Idle,
     stat |-> [t \in Thread |-> IF t \in live THEN "READY" ELSE "CLOSE"],
     prio |-> prio,
     q |-> [l \in Lists |-> SetToSeq({t \in live : prio[t] = l})],
     group |-> {prio[t] : t \in live},
     lock |-> 0,
     err |-> [t \in Thread |-> "EOK"],
     tick |-> 0,
     slice |-> [t \in Thread |-> Slice],
     tlist |-> << >>,
     timeout |-> [t \in Thread |-> 0]]

\* rt_system_scheduler_start: the first thread is switched to.
Booted(live, prio) ==
    LET r  == ReadyTableOf(live, prio)
        to == Head(r.q[HighestReady(r)])
    IN  Enter([r EXCEPT !.cur = to], to)

-----------------------------------------------------------------------------
(* Consistency of a kernel state.                                          *)

Linked(k, t, l) == t \in ToSet(k.q[l])
Armed(k, t) == t \in ToSet(k.tlist)

\* A thread's list node is in one place of one list.
OneList(k) ==
    /\ \A l \in Lists : IsInjective(k.q[l])
    /\ \A t \in Thread, l \in Lists :
            Linked(k, t, l) => \A m \in Lists : Linked(k, t, m) => l = m

\* The ready table holds the READY threads, except those in X, each at its
\* current priority, and the priority group has the bits of the lists that are
\* not empty.
ReadyTable(k, X) ==
    /\ \A t \in Thread \ X : k.stat[t] = "READY" => Linked(k, t, k.prio[t])
    /\ \A p \in Prio : \A t \in Thread :
            Linked(k, t, p) => k.stat[t] = "READY" /\ k.prio[t] = p
    /\ k.group = {p \in Prio : k.q[p] # << >>}

\* Only the current thread is RUNNING, and it is not in the ready table.
OneRunning(k) ==
    /\ \A t \in Thread : k.stat[t] = "RUNNING" => t = k.cur
    /\ k.stat[k.cur] # "READY"

\* Only a suspended thread waits on a list or has an armed timer.
WaitersSuspended(k) ==
    /\ \A o \in Obj : \A t \in Thread : Linked(k, t, o) => k.stat[t] = "SUSPEND"
    /\ \A t \in Thread : Armed(k, t) => k.stat[t] = "SUSPEND"
    /\ IsInjective(k.tlist)

\* The list the idle thread reaps holds closed threads only.
DefunctClosed(k) == \A t \in Thread : Linked(k, t, Defunct) => k.stat[t] = "CLOSE"

\* There is always a thread to run: the idle thread is running or ready.
IdleAlive(k) == k.stat[Idle] \in {"READY", "RUNNING"}

\* The lists, the states and the bitmap agree; X holds the threads on their way
\* out, which rt_thread_delete has unlinked and not yet closed.
KernelOK(k, X) ==
    /\ OneList(k)
    /\ ReadyTable(k, X)
    /\ OneRunning(k)
    /\ WaitersSuspended(k)
    /\ DefunctClosed(k)
    /\ IdleAlive(k)
=============================================================================
