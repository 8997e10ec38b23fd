--------------------------------- MODULE Ipc ---------------------------------
(***************************************************************************)
(* What the objects of ipc.c have in common: a list of suspended threads,  *)
(* and the detach / delete functions that wake all of them through         *)
(* rt_ipc_list_resume_all.                                                 *)
(***************************************************************************)
EXTENDS System

CONSTANTS
    Flag,       \* RT_IPC_FLAG_FIFO or RT_IPC_FLAG_PRIO of each list
    Second,     \* the list that detach / delete empties after this one: the
                \* senders' list of a mailbox, the list itself if there is one
    Times       \* the waiting times: negative is for ever, 0 is not at all

ASSUME IpcAssumption ==
    /\ Flag \in [Obj -> {"FIFO", "PRIO"}]
    /\ Second \in [Obj -> Obj]
    /\ Times \subseteq Int /\ \A n \in Times : n < HalfTick

VARIABLES
    dead,   \* the objects that detach / delete was called on
    fault   \* history: a list head was used as if it were a thread

\* No thread starts a new call on an object once it is being deleted.
CallsOn(t, op, o) == Calls(t, op) /\ o \notin dead

\* No waiter of the object can time out, or the instance asks for that race.
MayWakeAll(o) ==
    \/ "delete_timed" \in Ops
    \/ \A t \in Thread, l \in {o, Second[o]} : Linked(k, t, l) => ~Armed(k, t)

\* detach / delete: the loop of rt_ipc_list_resume_all tests for an empty list
\* with interrupts enabled and disables them in each turn.  There is no
\* rt_schedule at the end.
Delete(t, o) ==
    /\ CallsOn(t, "delete", o) /\ MayWakeAll(o)
    /\ dead' = dead \cup {o, Second[o]}
    /\ Goto(t, "wake_check", o)
    /\ UNCHANGED <<k, isr, fault>>

WakeCheck(t) ==
    LET o == pc[t].arg IN
    /\ Is(t, "wake_check")
    /\ \/ k.q[o] # << >> /\ Goto(t, "wake_one", o)
       \/ k.q[o] = << >> /\ Second[o] # o /\ Goto(t, "wake_check", Second[o])
       \/ k.q[o] = << >> /\ Second[o] = o /\ Goto(t, "run", t)
    /\ UNCHANGED <<k, isr, dead, fault>>

\* Mutant: one thread is woken instead of all.
WakeOne_Only(t) ==
    /\ Is(t, "wake_one") /\ k.q[pc[t].arg] # << >>
    /\ k' = ResumeOneWithError(k, pc[t].arg)
    /\ Goto(t, "run", t)
    /\ UNCHANGED <<isr, dead, fault>>

WakeOne(t) ==
    LET o == pc[t].arg IN
    /\ Is(t, "wake_one")
    /\ IF k.q[o] # << >>
       THEN k' = ResumeOneWithError(k, o) /\ UNCHANGED fault
       ELSE fault' = TRUE /\ UNCHANGED k
    /\ Goto(t, "wake_check", o)
    /\ UNCHANGED <<isr, dead>>

\* rt_thread_control(RT_THREAD_CTRL_CHANGE_PRIORITY) by the application
Control(t, u, p) ==
    /\ Calls(t, "control") /\ k.stat[u] # "CLOSE"
    /\ k' = ChangePriority(k, u, p)
    /\ UNCHANGED <<isr, pc, dead, fault>>

\* The steps that do not depend on the kind of object; D holds the objects that
\* may be deleted now.
IpcStep(D) ==
    \/ SystemStep /\ UNCHANGED <<dead, fault>>
    \/ \E t \in User :
        \/ \E o \in D : Delete(t, o)
        \/ WakeCheck(t) \/ WakeOne(t)
        \/ \E u \in User, p \in Prio : Control(t, u, p)

-----------------------------------------------------------------------------
(* Properties that every object of ipc.c should have. *)

IpcTypeOK ==
    /\ k \in Kstate /\ isr \in Isr
    /\ pc \in [Thread -> [at : {"run", "sched", "sleep_sched", "slept", "take_sched",
                                "take_ret", "wake_check", "wake_one", "reset_loop"},
                          arg : Thread \cup Obj]]
    /\ dead \subseteq Obj
    /\ fault \in BOOLEAN

\* The lists, the thread states and the priority bitmap agree at every point at
\* which an interrupt can be taken.
KernelConsistent == KernelOK(k, {})

Taking(t, o) == pc[t].at \in {"take_sched", "take_ret"} /\ pc[t].arg = o

\* The suspend list of an object holds exactly the threads suspended in a take
\* on it, so that whoever gives the object up reaches each of them.
WaitersListed ==
    \A o \in Obj, t \in Thread :
        Linked(k, t, o) <=> Taking(t, o) /\ k.stat[t] = "SUSPEND"

\* A list of flag PRIO is sorted: the first thread, the one that is resumed
\* when the object is available, is one of the most urgent ones.
MostUrgentFirst ==
    \A o \in Obj : Flag[o] = "PRIO" =>
        \A i, j \in 1 .. Len(k.q[o]) : i < j => k.prio[k.q[o][i]] <= k.prio[k.q[o][j]]

\* rt_ipc_list_resume_all resumes threads only, never the list head itself.
ResumeAllResumesThreads == ~fault

\* Preemption is full as long as no object is deleted: a release, a handover and a
\* reset are followed by rt_schedule, the waking of all waiters by a delete is not.
PreemptiveWhileAlive == dead = {} => Preemptive

\* When a delete has returned, no thread is left on the suspend list.
DeletedHasNoWaiters ==
    \A o \in dead :
        (\A t \in User : ~(/\ pc[t].at \in {"wake_check", "wake_one", "mp_check", "mp_wake"}
                           /\ o \in {pc[t].arg, Second[pc[t].arg]})) => k.q[o] = << >>

\* A delete wakes every waiter, on both lists of an object that has two, and takes
\* nothing but waiters off the lists.
DeleteWakesAll == ResumeAllResumesThreads /\ DeletedHasNoWaiters

\* A take with a time limit comes back for the most urgent thread, whatever the
\* other threads and the interrupts do.
TimedTakeReturns == \A t \in MostUrgent : Armed(k, t) ~> pc[t].at = "run"
=============================================================================
