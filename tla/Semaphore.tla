------------------------------ MODULE Semaphore ------------------------------
(***************************************************************************)
(* The counting semaphore of ipc.c: rt_sem_take and rt_sem_trytake,        *)
(* rt_sem_release from threads and from interrupt handlers, rt_sem_control *)
(* and rt_sem_detach / rt_sem_delete (module Ipc), with the thread states, *)
(* the ready table and the thread timers of module Kernel underneath.      *)
(*                                                                         *)
(* A release that finds a waiter hands it the unit without touching value: *)
(* the waiter is made ready with its error still RT_EOK, and owns the unit *)
(* although rt_sem_take has not returned yet.                              *)
(***************************************************************************)
EXTENDS Ipc

CONSTANTS
    InitValue,  \* initial value of every semaphore
    ValueMod,   \* 2^16, the range of the rt_uint16_t value
    MaxUnits    \* bound on the units that are out, in the guard of release

ASSUME SemaphoreAssumption ==
    /\ ValueMod \in Nat /\ InitValue \in 0 .. ValueMod - 1
    /\ MaxUnits \in Nat
    /\ \A s \in Obj : Second[s] = s    \* a semaphore has one suspend list

VARIABLES
    value,  \* sem->value
    units   \* history: initial value plus releases minus successful takes

vars == <<k, isr, pc, dead, fault, value, units>>

Init ==
    /\ SystemInit(Thread)
    /\ dead = {} /\ fault = FALSE
    /\ value = [s \in Obj |-> InitValue]
    /\ units = [s \in Obj |-> InitValue]

-----------------------------------------------------------------------------
(* rt_sem_take *)

\* Mutant: the value is not tested.
TakeAvailable_Unchecked(t, s) ==
    /\ CallsOn(t, "take", s)
    /\ value' = [value EXCEPT ![s] = @ - 1]
    /\ units' = [units EXCEPT ![s] = @ - 1]
    /\ UNCHANGED <<k, isr, pc, dead, fault>>

TakeAvailable(t, s) ==
    /\ CallsOn(t, "take", s) /\ value[s] > 0
    /\ value' = [value EXCEPT ![s] = @ - 1]
    /\ units' = [units EXCEPT ![s] = @ - 1]
    /\ UNCHANGED <<k, isr, pc, dead, fault>>

\* time is not 0: the caller is suspended.  (With time = 0 rt_sem_take returns
\* -RT_ETIMEOUT and changes nothing.)
TakeBlocks(t, s, time) ==
    /\ CallsOn(t, "take", s) /\ value[s] = 0 /\ time # 0
    /\ k' = SuspendSelfOn(k, s, Flag[s], time)
    /\ Goto(t, "take_sched", s)
    /\ UNCHANGED <<isr, dead, fault, value, units>>

\* Back from rt_schedule: thread->error says whether the unit was handed over.
TakeReturns(t) ==
    /\ Is(t, "take_ret")
    /\ units' = IF k.err[t] = "EOK" THEN [units EXCEPT ![pc[t].arg] = @ - 1] ELSE units
    /\ Goto(t, "run", t)
    /\ UNCHANGED <<k, isr, dead, fault, value>>

-----------------------------------------------------------------------------
(* rt_sem_release *)

\* Mutant: the value is increased although a waiter gets the unit.
ReleaseCounts_Twice(s) ==
    /\ units[s] < MaxUnits
    /\ units' = [units EXCEPT ![s] = @ + 1]
    /\ value' = [value EXCEPT ![s] = (@ + 1) % ValueMod]

\* The counting part of the window of rt_sem_release
ReleaseCounts(s) ==
    /\ units[s] < MaxUnits
    /\ units' = [units EXCEPT ![s] = @ + 1]
    /\ value' = IF k.q[s] = << >> THEN [value EXCEPT ![s] = (@ + 1) % ValueMod] ELSE value

\* Mutant: no rt_schedule after a thread was resumed.
Release_NoSchedule(t, s) ==
    /\ CallsOn(t, "release", s)
    /\ ReleaseCounts(s)
    /\ k' = IF k.q[s] # << >> THEN rt_ipc_list_resume(k, s) ELSE k
    /\ UNCHANGED <<isr, pc, dead, fault>>

Release(t, s) ==
    /\ CallsOn(t, "release", s)
    /\ ReleaseCounts(s)
    /\ IF k.q[s] # << >>
       THEN k' = rt_ipc_list_resume(k, s) /\ Goto(t, "sched", t)
       ELSE UNCHANGED <<k, pc>>
    /\ UNCHANGED <<isr, dead, fault>>

\* rt_sem_release from an interrupt handler
IsrRelease(s) ==
    /\ isr = "none" /\ "isr_release" \in Ops /\ s \notin dead
    /\ ReleaseCounts(s)
    /\ k' = IF k.q[s] # << >> THEN rt_schedule(rt_ipc_list_resume(k, s)) ELSE k
    /\ UNCHANGED <<isr, pc, dead, fault>>

-----------------------------------------------------------------------------
(* rt_sem_control(RT_IPC_CMD_RESET), interrupts disabled all the time *)

\* Interrupts are disabled; arg remembers the semaphore.
Reset(t, s) ==
    /\ CallsOn(t, "reset", s)
    /\ isr' = "masked"
    /\ Goto(t, "reset_loop", s)
    /\ UNCHANGED <<k, dead, fault, value, units>>

\* rt_ipc_list_resume_all, one thread in each step
ResetWake(t) ==
    /\ isr = "masked" /\ k.cur = t /\ pc[t].at = "reset_loop"
    /\ k.q[pc[t].arg] # << >>
    /\ k' = ResumeOneWithError(k, pc[t].arg)
    /\ UNCHANGED <<isr, pc, dead, fault, value, units>>

\* Mutant: the value is set and the waiters are left alone.
ResetValue_NoWake(t, v) ==
    /\ isr = "masked" /\ k.cur = t /\ pc[t].at = "reset_loop"
    /\ value' = [value EXCEPT ![pc[t].arg] = v]
    /\ units' = [units EXCEPT ![pc[t].arg] = @ - value[pc[t].arg] + v]
    /\ isr' = "none" /\ Goto(t, "sched", t)
    /\ UNCHANGED <<k, dead, fault>>

\* The new value is set and interrupts are enabled again; rt_schedule follows.
ResetValue(t, v) ==
    LET s == pc[t].arg IN
    /\ isr = "masked" /\ k.cur = t /\ pc[t].at = "reset_loop"
    /\ k.q[s] = << >>
    /\ units[s] - value[s] + v <= MaxUnits
    /\ value' = [value EXCEPT ![s] = v]
    /\ units' = [units EXCEPT ![s] = @ - value[s] + v]
    /\ isr' = "none" /\ Goto(t, "sched", t)
    /\ UNCHANGED <<k, dead, fault>>

Next ==
    \/ IpcStep(Obj) /\ UNCHANGED <<value, units>>
    \/ \E s \in Obj : IsrRelease(s)
    \/ \E t \in User :
        \/ TakeReturns(t)
        \/ \E s \in Obj :
            \/ TakeAvailable(t, s) \/ Release(t, s)
            \/ \E time \in Times : TakeBlocks(t, s, time)
            \/ Reset(t, s)
        \/ ResetWake(t)
        \/ \E v \in 0 .. ValueMod - 1 : ResetValue(t, v)

Spec == Init /\ [][Next]_vars

-----------------------------------------------------------------------------

\* Kernel state, call points and sem->value have their types; the value stays
\* within its 16 bits.
SemTypeOK ==
    /\ IpcTypeOK
    /\ value \in [Obj -> 0 .. ValueMod - 1]
    /\ units \in [Obj -> Int]

\* The threads that were handed a unit and have not yet returned from take.
Granted(s) == {t \in Thread : Taking(t, s) /\ k.stat[t] # "SUSPEND" /\ k.err[t] = "EOK"}

\* No unit is lost or made up, whatever the order of timeouts, releases from
\* threads and interrupts, and resets: what was released and not yet taken is
\* in value or in the hands of a thread on its way out of rt_sem_take.
UnitsConserved == \A s \in Obj : value[s] + Cardinality(Granted(s)) = units[s]

\* No thread waits while a unit is available.
NoLostWakeup == \A s \in Obj : value[s] > 0 => k.q[s] = << >>
=============================================================================
