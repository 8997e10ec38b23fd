------------------------------- MODULE System -------------------------------
(***************************************************************************)
(* The processor: it executes either the current thread or an interrupt    *)
(* handler.  A step is what the code does between two points at which      *)
(* interrupts are enabled, so that an interrupt can come between any two   *)
(* steps of a thread; handlers do not nest.  A context switch takes effect *)
(* at once: rt_schedule sets rt_current_thread, and the PendSV exception   *)
(* that swaps the stacks is taken as soon as interrupts are enabled again. *)
(*                                                                         *)
(* pc[t].at says where thread t goes on when it is the current thread:     *)
(* "run" is its own code, the other values are points inside a kernel call *)
(* about the thread or object pc[t].arg.                                   *)
(***************************************************************************)
EXTENDS Kernel

CONSTANTS
    InitPrio,   \* init_priority of each thread
    Delays,     \* the arguments of rt_thread_sleep
    Ops         \* the calls the threads and interrupt handlers make

ASSUME SystemAssumption ==
    /\ InitPrio \in [Thread -> Prio]
    /\ Delays \subseteq 0 .. HalfTick - 1

VARIABLES
    k,      \* the kernel state of module Kernel
    isr,    \* "timer_check" while the tick handler runs rt_timer_check, "masked"
            \* in a loop that a thread executes with interrupts disabled
    pc      \* where each thread is in the kernel call it is making

User == Thread \ {Idle}

\* The thread that is more urgent than all others, if there is one.
MostUrgent == {t \in User : \A u \in Thread \ {t} : InitPrio[t] < InitPrio[u]}

Isr == {"none", "timer_check", "masked"}

Goto(t, at, arg) == pc' = [pc EXCEPT ![t] = [at |-> at, arg |-> arg]]

\* Thread t is executing at point `at`, with interrupts enabled.
Is(t, at) == isr = "none" /\ k.cur = t /\ pc[t].at = at

\* Thread t is free to make a kernel call, and makes calls of this kind.
Calls(t, op) == op \in Ops /\ Is(t, "run")

SystemInit(live) ==
    /\ k = Booted(live, InitPrio)
    /\ isr = "none"
    /\ pc = [t \in Thread |-> [at |-> "run", arg |-> t]]

-----------------------------------------------------------------------------
(* The tick interrupt *)

\* SysTick_Handler: rt_tick_increase up to the call of rt_timer_check
TickIncrease ==
    /\ isr = "none"
    /\ k' = rt_tick_increase(k)
    /\ isr' = "timer_check"

\* One turn of the loop of rt_timer_check.  The timer is unlinked before the
\* timeout function runs; a thread's timer is one-shot.
TimerExpires ==
    /\ isr = "timer_check"
    /\ HeadExpired(k)
    /\ LET t == Head(k.tlist) IN k' = rt_thread_timeout(TimerStop(k, t), t)
    /\ UNCHANGED isr

\* rt_timer_check finds no expired timer: the handler returns.
TickReturn ==
    /\ isr = "timer_check"
    /\ ~HeadExpired(k)
    /\ isr' = "none"
    /\ UNCHANGED k

TickInterrupt == (TickIncrease \/ TimerExpires \/ TickReturn) /\ UNCHANGED pc

\* The steps in which the tick handler is entered and left, told by isr alone.
TickEnters == isr = "none" /\ isr' = "timer_check"
TickLeaves == isr = "timer_check" /\ isr' = "none"

\* The hardware timer keeps interrupting, and its handler, which finds finitely
\* many expired timers, returns.
TickFairness == WF_isr(TickEnters) /\ WF_isr(TickLeaves)

-----------------------------------------------------------------------------
(* What threads do in every model *)

\* The points at which a call is about to run rt_schedule, and where it goes
\* on when its thread is the current one again.
After == [sched |-> "run", sleep_sched |-> "slept",
          take_sched |-> "take_ret", exit_sched |-> "exited"]

CallSchedule(t) ==
    /\ isr = "none" /\ k.cur = t /\ pc[t].at \in DOMAIN After
    /\ k' = rt_schedule(k)
    /\ Goto(t, After[pc[t].at], pc[t].arg)
    /\ UNCHANGED isr

\* rt_thread_sleep up to its call of rt_schedule.  Blocking calls are not made
\* with the scheduler locked.
Sleep(t, ticks) ==
    /\ Calls(t, "sleep") /\ k.lock = 0
    /\ k' = TimerStart(rt_thread_suspend(k, t), t, ticks)
    /\ Goto(t, "sleep_sched", t)
    /\ UNCHANGED isr

\* rt_thread_sleep clears the timeout error and returns.
Slept(t) ==
    /\ Is(t, "slept")
    /\ k' = [k EXCEPT !.err[t] = IF @ = "ETIMEOUT" THEN "EOK" ELSE @]
    /\ Goto(t, "run", t)
    /\ UNCHANGED isr

SystemStep ==
    \/ TickInterrupt
    \/ \E t \in User : CallSchedule(t) \/ Slept(t) \/ \E d \in Delays : Sleep(t, d)

-----------------------------------------------------------------------------
(* Facts about the processor that hold whatever objects there are. *)

\* Outside the tick handler no armed timer is overdue: its distance to its
\* timeout tick, in the wrap-around arithmetic of rt_tick_t, is a legal delay.
NoTimerOverdue ==
    isr = "none" =>
        \A t \in Thread : Armed(k, t) => TickDiff(k.timeout[t], k.tick) < HalfTick

\* The timer list is sorted by distance to the timeout tick, across a wrap of
\* rt_tick, so that rt_timer_check may stop at the first timer not expired.
TimersSorted ==
    isr = "none" =>
        \A i, j \in 1 .. Len(k.tlist) : i < j =>
            TickDiff(k.timeout[k.tlist[i]], k.tick) <= TickDiff(k.timeout[k.tlist[j]], k.tick)

\* A timer expires when it is due: none is overlooked behind one that is not.
TimersReady == NoTimerOverdue /\ TimersSorted

\* Full preemption: with the scheduler unlocked, a thread that is not about to
\* call rt_schedule is at least as urgent as every ready thread.
Preemptive ==
    isr = "none" /\ k.lock = 0 /\ pc[k.cur].at \notin DOMAIN After =>
        \A t \in Thread : k.stat[t] = "READY" => k.prio[k.cur] <= k.prio[t]
=============================================================================
