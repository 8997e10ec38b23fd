------------------------------- MODULE Threads -------------------------------
(***************************************************************************)
(* The life of a thread: thread.c, the scheduler lock of scheduler.c and   *)
(* the idle thread of idle.c that reaps deleted threads, interleaved with  *)
(* the tick interrupt and with an interrupt handler that resumes threads.  *)
(* Threads are dynamic objects (rt_thread_create / rt_thread_delete).      *)
(***************************************************************************)
EXTENDS System

CONSTANTS
    Live,       \* the threads that have been started when the model begins
    MaxNest     \* bound on the nesting of rt_enter_critical

ASSUME ThreadsAssumption ==
    /\ Live \subseteq Thread /\ Idle \in Live
    /\ MaxNest \in Nat

VARIABLE free   \* threads whose object and stack are not allocated

vars == <<k, isr, pc, free>>

\* Threads that another thread's unfinished call is about.  The callers keep
\* their calls on one thread apart; interrupt handlers do not know of them.
Targets(ats) == {pc[t].arg : t \in {u \in Thread : pc[u].at \in ats}}
Deleting == Targets({"del_timer", "del_close"})
MidCall == {"resume_check", "resume", "insert", "suspend", "del_timer", "del_close"}
Busy == Targets(MidCall)

Init ==
    /\ SystemInit(Live)
    /\ free = Thread \ Live

-----------------------------------------------------------------------------
(* thread.c *)

\* rt_thread_create: the object is allocated and initialised.
Create(t, u) ==
    /\ Calls(t, "create") /\ u \in free
    /\ free' = free \ {u}
    /\ k' = [k EXCEPT !.stat[u] = "INIT", !.prio[u] = InitPrio[u],
                      !.err[u] = "EOK", !.slice[u] = Slice]
    /\ pc' = [pc EXCEPT ![u] = [at |-> "run", arg |-> u]]
    /\ UNCHANGED isr

\* Mutant: the state of the thread is not checked.
Startup_Unchecked(t, u) ==
    /\ Calls(t, "startup") /\ u \notin Busy /\ k.stat[u] # "RUNNING"
    /\ k' = [k EXCEPT !.prio[u] = InitPrio[u], !.stat[u] = "SUSPEND"]
    /\ Goto(t, "resume_check", u)
    /\ UNCHANGED <<isr, free>>

\* rt_thread_startup up to its call of rt_thread_resume
Startup(t, u) ==
    /\ Calls(t, "startup") /\ u \notin Busy /\ k.stat[u] = "INIT"
    /\ k' = [k EXCEPT !.prio[u] = InitPrio[u], !.stat[u] = "SUSPEND"]
    /\ Goto(t, "resume_check", u)
    /\ UNCHANGED <<isr, free>>

\* A direct call of rt_thread_resume
Resume(t, u) ==
    /\ Calls(t, "resume") /\ u \in User \ Busy
    /\ Goto(t, "resume_check", u)
    /\ UNCHANGED <<k, isr, free>>

\* rt_thread_resume tests the state with interrupts enabled ...
ResumeCheck(t) ==
    /\ Is(t, "resume_check")
    /\ IF k.stat[pc[t].arg] = "SUSPEND" THEN Goto(t, "resume", pc[t].arg) ELSE Goto(t, "sched", t)
    /\ UNCHANGED <<k, isr, free>>

\* ... takes the thread off its list with interrupts disabled, enables them ...
ResumeWindow(t) ==
    /\ Is(t, "resume")
    /\ k' = ResumeUnlink(k, pc[t].arg)
    /\ Goto(t, "insert", pc[t].arg)
    /\ UNCHANGED <<isr, free>>

\* ... and makes it ready.  The caller then calls rt_schedule.
ResumeInsert(t) ==
    /\ Is(t, "insert")
    /\ k' = rt_schedule_insert_thread(k, pc[t].arg)
    /\ Goto(t, "sched", t)
    /\ UNCHANGED <<isr, free>>

\* rt_thread_suspend of the thread itself, after which rt_schedule is called.
SuspendSelf(t) ==
    /\ Calls(t, "suspend_self") /\ k.lock = 0
    /\ k' = rt_thread_suspend(k, t)
    /\ Goto(t, "sched", t)
    /\ UNCHANGED <<isr, free>>

\* rt_thread_suspend of another thread reads its state first ...
SuspendOther(t, u) ==
    /\ Calls(t, "suspend_other") /\ u \in User \ ({t} \cup Busy)
    /\ k.stat[u] \in {"READY", "RUNNING"}
    /\ Goto(t, "suspend", u)
    /\ UNCHANGED <<k, isr, free>>

\* ... and takes it out of the ready table once interrupts are disabled.
SuspendWindow(t) ==
    LET u == pc[t].arg IN
    /\ Is(t, "suspend")
    /\ k' = TimerStop([rt_schedule_remove_thread(k, u) EXCEPT !.stat[u] = "SUSPEND"], u)
    /\ Goto(t, "run", t)
    /\ UNCHANGED <<isr, free>>

Yield(t) ==
    /\ Calls(t, "yield")
    /\ k' = rt_schedule(k)
    /\ UNCHANGED <<isr, pc, free>>

\* rt_thread_control(RT_THREAD_CTRL_CHANGE_PRIORITY), which does not reschedule
Control(t, u, p) ==
    /\ Calls(t, "control") /\ u \in User \ Busy /\ k.stat[u] # "CLOSE"
    /\ k' = ChangePriority(k, u, p)
    /\ UNCHANGED <<isr, pc, free>>

\* rt_thread_exit, where the entry function of the thread returns to.
Exit(t) ==
    /\ Calls(t, "exit") /\ k.lock = 0
    /\ LET r == TimerStop([rt_schedule_remove_thread(k, t) EXCEPT !.stat[t] = "CLOSE"], t)
       IN  k' = [r EXCEPT !.q[Defunct] = <<t>> \o @]
    /\ Goto(t, "exit_sched", t)
    /\ UNCHANGED <<isr, free>>

\* Mutant: only a suspended thread is unlinked.
Delete_ReadyLinked(t, u) ==
    /\ Calls(t, "delete") /\ u \in User \ ({t} \cup Busy) /\ k.stat[u] # "CLOSE"
    /\ pc[u].at \notin MidCall /\ ~Armed(k, u)
    /\ k' = IF k.stat[u] = "SUSPEND" THEN rt_schedule_remove_thread(k, u) ELSE k
    /\ Goto(t, "del_timer", u)
    /\ UNCHANGED <<isr, free>>

\* rt_thread_delete is three windows: out of the ready table or suspend list,
\* timer detached, closed and put on the defunct list.  The victim is not in
\* the middle of such a call itself, and has an armed timer only in instances
\* that ask for it.
Delete(t, u) ==
    /\ Calls(t, "delete") /\ u \in User \ ({t} \cup Busy) /\ k.stat[u] # "CLOSE"
    /\ pc[u].at \notin MidCall
    /\ "delete_timed" \in Ops \/ ~Armed(k, u)
    /\ k' = IF k.stat[u] # "INIT" THEN rt_schedule_remove_thread(k, u) ELSE k
    /\ Goto(t, "del_timer", u)
    /\ UNCHANGED <<isr, free>>

DeleteTimer(t) ==
    /\ Is(t, "del_timer")
    /\ k' = TimerStop(k, pc[t].arg)
    /\ Goto(t, "del_close", pc[t].arg)
    /\ UNCHANGED <<isr, free>>

DeleteClose(t) ==
    /\ Is(t, "del_close")
    /\ k' = [k EXCEPT !.stat[pc[t].arg] = "CLOSE", !.q[Defunct] = <<pc[t].arg>> \o @]
    /\ Goto(t, "run", t)
    /\ UNCHANGED <<isr, free>>

-----------------------------------------------------------------------------
(* scheduler.c: the scheduler lock *)

EnterCritical(t) ==
    /\ Calls(t, "critical") /\ k.lock < MaxNest
    /\ k' = [k EXCEPT !.lock = @ + 1]
    /\ UNCHANGED <<isr, pc, free>>

\* Mutant: leaving the outermost critical section does not reschedule.
ExitCritical_NoSchedule(t) ==
    /\ Calls(t, "critical") /\ k.lock > 0
    /\ k' = [k EXCEPT !.lock = @ - 1]
    /\ UNCHANGED <<isr, pc, free>>

ExitCritical(t) ==
    /\ Calls(t, "critical")
    /\ k' = [k EXCEPT !.lock = IF @ > 1 THEN @ - 1 ELSE 0]
    /\ Goto(t, IF k.lock > 1 THEN "run" ELSE "sched", t)
    /\ UNCHANGED <<isr, free>>

-----------------------------------------------------------------------------
(* idle.c: rt_thread_idle_excute.  Its rt_exit_critical runs rt_schedule    *)
(* with interrupts disabled; the memory is freed once they are enabled.     *)

\* Mutant: the reaped thread stays on the defunct list.
IdleReap_KeepLinked ==
    /\ Is(Idle, "run") /\ k.q[Defunct] # << >>
    /\ k' = rt_schedule(k) /\ Goto(Idle, "free", Head(k.q[Defunct]))
    /\ UNCHANGED <<isr, free>>

IdleReap ==
    /\ Is(Idle, "run") /\ k.q[Defunct] # << >>
    /\ LET u == Head(k.q[Defunct])
       IN  k' = rt_schedule(Unlink(k, u)) /\ Goto(Idle, "free", u)
    /\ UNCHANGED <<isr, free>>

IdleFree ==
    /\ Is(Idle, "free")
    /\ free' = free \cup {pc[Idle].arg}
    /\ Goto(Idle, "run", Idle)
    /\ UNCHANGED <<k, isr>>

\* An interrupt handler resumes a thread and reschedules.
IsrResume(u) ==
    /\ isr = "none" /\ "isr_resume" \in Ops
    /\ k.stat[u] = "SUSPEND"
    /\ "resume_race" \in Ops \/ u \notin Busy
    /\ k' = rt_schedule(rt_thread_resume(k, u))
    /\ UNCHANGED <<isr, pc, free>>

Next ==
    \/ SystemStep /\ UNCHANGED free
    \/ \E u \in Thread : IsrResume(u)
    \/ IdleReap \/ IdleFree
    \/ \E t \in User :
        \/ \E u \in Thread :
            \/ Create(t, u) \/ Startup(t, u) \/ Resume(t, u)
            \/ SuspendOther(t, u) \/ Delete(t, u)
            \/ \E p \in Prio : Control(t, u, p)
        \/ ResumeCheck(t) \/ ResumeWindow(t) \/ ResumeInsert(t) \/ SuspendSelf(t) \/ SuspendWindow(t)
        \/ Yield(t) \/ Exit(t) \/ DeleteTimer(t) \/ DeleteClose(t)
        \/ EnterCritical(t) \/ ExitCritical(t)

Spec == Init /\ [][Next]_vars

\* The tick interrupt keeps coming, a thread that is given the processor again and
\* again finishes its kernel call, and critical sections end.
FairSpec ==
    /\ Spec
    /\ TickFairness
    /\ \A t \in User : []<>(k.cur = t /\ pc[t].at # "run") => []<>(pc[t].at = "run")
    /\ []<>(k.lock = 0)

-----------------------------------------------------------------------------

\* Kernel state and call points have their types; rt_tick stays within its width
\* and the scheduler lock is never negative.
ThreadsTypeOK ==
    /\ k \in Kstate /\ k.lock <= MaxNest
    /\ isr \in Isr
    /\ pc \in [Thread -> [at : {"run", "slept", "exited", "free"} \cup MidCall
                               \cup DOMAIN After,
                          arg : Thread]]
    /\ free \subseteq Thread

\* The lists, the states and the bitmap of scheduler.c agree at every point at
\* which an interrupt can be taken.
KernelConsistent == KernelOK(k, Deleting)

\* The state of the scheduler and of the threads is well typed, and consistent in
\* the middle of rt_thread_delete, rt_thread_suspend and rt_thread_resume too.
ThreadsConsistent == ThreadsTypeOK /\ KernelConsistent

\* A thread's list node is in one place of one list: linking it again before it
\* was taken out would cut other threads off.
NodesLinkedOnce == OneList(k)

\* Once the idle thread has freed a thread's object and stack, nothing in the
\* kernel leads to it: it is not current, not on a list, and its timer is gone.
FreedUnreachable ==
    \A u \in free :
        /\ k.cur # u /\ ~Armed(k, u)
        /\ \A l \in Lists : ~Linked(k, u, l)

\* A closed thread does not come back to life before its memory is reused.
ClosedStaysClosed ==
    [][\A u \in Thread : k.stat[u] = "CLOSE" /\ k'.stat[u] # "CLOSE" => u \in free]_vars

\* A sleeping thread is woken: its timer does not stay armed for ever.
SleepEnds == \A t \in User : Armed(k, t) ~> ~Armed(k, t)

\* Round robin: a ready thread of the highest priority gets the processor,
\* whatever the other threads of that priority do.
TurnComes ==
    \A t \in User :
        (k.stat[t] = "READY" /\ \A u \in Thread : InitPrio[t] <= InitPrio[u])
            ~> (k.cur = t \/ k.stat[t] # "READY")
=============================================================================
