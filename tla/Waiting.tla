------------------------------- MODULE Waiting -------------------------------
(***************************************************************************)
(* The loop by which rt_mb_send_wait, rt_mb_recv, rt_mq_recv, rt_mp_alloc  *)
(* and the data queue wait: suspend, call rt_schedule, and look again,     *)
(* because the mail or slot that ended the wait may be gone by the time    *)
(* the thread runs.  What is left of the time limit is computed anew in    *)
(* each turn.                                                              *)
(***************************************************************************)
EXTENDS Ipc

CONSTANTS
    Null,       \* RT_NULL
    Patient     \* the threads of the instance that always wait for ever

\* The waiting times that thread t uses
TimesOf(t) == IF t \in Patient THEN {-1} ELSE Times

VARIABLES
    left,   \* the local variable timeout (time) of the call a thread is in
    spent,  \* rt_tick_get() - tick_delta, the ticks since its current turn
            \* began; more than left makes no difference
    limit   \* history: the ticks until the time limit of the call is reached

waiting == <<left, spent, limit>>
kernel == <<k, isr, pc, dead, fault>>

WaitingInit ==
    /\ dead = {} /\ fault = FALSE
    /\ left = [t \in Thread |-> 0]
    /\ spent = [t \in Thread |-> 0]
    /\ limit = [t \in Thread |-> 0]

\* What goes on in the background of every step that is not a waiting call.
Elapse ==
    IF k'.tick = k.tick THEN UNCHANGED waiting ELSE
    /\ spent' = [t \in Thread |-> spent[t] + (IF spent[t] < left[t] THEN 1 ELSE 0)]
    /\ limit' = [t \in Thread |-> limit[t] - (IF limit[t] > 0 THEN 1 ELSE 0)]
    /\ UNCHANGED left

\* One turn of the loop; s is the kernel state with the thread suspended.
Wait(t, o, s, time) ==
    /\ k' = s
    /\ left' = [left EXCEPT ![t] = time]
    /\ spent' = [spent EXCEPT ![t] = 0]
    /\ Goto(t, "take_sched", o)

\* The first turn.
WaitFirst(t, o, s, time) ==
    /\ Wait(t, o, s, time)
    /\ limit' = [limit EXCEPT ![t] = IF time > 0 THEN time ELSE 0]

\* A later turn, the time already spent taken off.
WaitAgain(t, o, s, time) == Wait(t, o, s, time) /\ UNCHANGED limit

\* The call is over.
EndWait(t) ==
    /\ left' = [left EXCEPT ![t] = 0]
    /\ spent' = [spent EXCEPT ![t] = 0]
    /\ limit' = [limit EXCEPT ![t] = 0]

\* Mutant: every turn starts with the whole time.
Remaining_Whole(t) == left[t]

\* timeout -= rt_tick_get() - tick_delta, and not below 0
Remaining(t) == IF left[t] <= 0 THEN left[t] ELSE left[t] - spent[t]

\* Thread t is back from rt_schedule in a wait on list o: resumed, or with an
\* error that the call returns.  thread->error is not looked at afterwards, and
\* the next wait resets it: the model drops it here.
Resumed(t, o) == Is(t, "take_ret") /\ pc[t].arg = o /\ k.err[t] = "EOK"
WaitFails(t, o) ==
    /\ Is(t, "take_ret") /\ pc[t].arg = o /\ k.err[t] # "EOK"
    /\ k' = [k EXCEPT !.err[t] = "EOK"]
    /\ EndWait(t) /\ Goto(t, "run", t)
    /\ UNCHANGED <<isr, dead, fault>>

\* The time is up although the thread was resumed.
TimeIsUp(t, o) ==
    /\ Resumed(t, o) /\ Remaining(t) = 0
    /\ EndWait(t) /\ Goto(t, "run", t)
    /\ UNCHANGED <<k, isr, dead, fault>>

\* The first waiter of list o is resumed by thread t, which then calls
\* rt_schedule; or by an interrupt handler.
ResumeFirst(t, o) ==
    IF k.q[o] # << >> THEN k' = rt_ipc_list_resume(k, o) /\ Goto(t, "sched", t)
    ELSE UNCHANGED k /\ Goto(t, "run", t)
IsrResumeFirst(o) ==
    /\ k' = IF k.q[o] # << >> THEN rt_schedule(rt_ipc_list_resume(k, o)) ELSE k
    /\ UNCHANGED pc

\* rt_ipc_list_resume_all with interrupts disabled throughout
ResumeAll(s, o) == FoldLeft(LAMBDA r, t : ResumeOneWithError(r, o), s, s.q[o])

IsrCalls(op, o) == op \in Ops /\ isr = "none" /\ o \notin dead

\* The threads that were resumed and have not yet looked again.
Woken(o) == {t \in Thread : Taking(t, o) /\ k.stat[t] # "SUSPEND" /\ k.err[t] = "EOK"}

\* No thread is between being resumed and looking again: it would look at a
\* deleted object.
NoneWoken(o) == Woken(o) \cup Woken(Second[o]) = {}

-----------------------------------------------------------------------------

WaitingTypeOK ==
    /\ k \in Kstate /\ isr \in Isr /\ dead \subseteq Obj /\ fault \in BOOLEAN
    /\ left \in [Thread -> Int] /\ spent \in [Thread -> Nat] /\ limit \in [Thread -> Nat]

\* However often a thread is resumed in vain, the timer it waits with ends at the
\* time limit with which the call began.
DeadlineKept(lists) ==
    \A t \in Thread : Armed(k, t) /\ pc[t].arg \in lists =>
        TickDiff(k.timeout[t], k.tick) = limit[t]
=============================================================================
