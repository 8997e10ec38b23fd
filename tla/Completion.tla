------------------------------ MODULE Completion ------------------------------
(***************************************************************************)
(* The completion of components/drivers/src/completion.c: one thread waits *)
(* until another thread or an interrupt handler says that something is     *)
(* done.  "Only one thread can suspend on complete", says an assertion.    *)
(* A wait with time 0 for what is not done changes nothing.                *)
(***************************************************************************)
EXTENDS Waiting

CONSTANTS
    Cp          \* the suspend list of the completion

VARIABLES
    completed   \* flag is RT_COMPLETED

CpInit == completed = FALSE

-----------------------------------------------------------------------------
(* rt_completion_wait *)

CpWait(t) ==
    /\ CallsOn(t, "cp_wait", Cp) /\ completed
    /\ completed' = FALSE
    /\ UNCHANGED <<kernel, waiting>>

CpSuspend(t, time) ==
    /\ k' = SuspendSelfOn(k, Cp, "FIFO", time)
    /\ Goto(t, "take_sched", Cp)
    /\ UNCHANGED <<isr, dead, fault, waiting, completed>>

CpWaitBlocks(t, time) ==
    /\ CallsOn(t, "cp_wait", Cp) /\ ~completed /\ time # 0
    /\ CpSuspend(t, time)

\* Back from rt_schedule: the flag is cleared, after a timeout too.
CpWaitReturns(t) ==
    /\ Is(t, "take_ret") /\ pc[t].arg = Cp
    /\ completed' = FALSE
    /\ k' = [k EXCEPT !.err[t] = "EOK"]
    /\ Goto(t, "run", t)
    /\ UNCHANGED <<isr, dead, fault, waiting>>

-----------------------------------------------------------------------------
(* rt_completion_done tests the flag before it disables interrupts.        *)

CpDone(t) ==
    /\ CallsOn(t, "cp_done", Cp) /\ ~completed
    /\ Goto(t, "cp_done", Cp)
    /\ UNCHANGED <<k, isr, dead, fault, waiting, completed>>

CpDoneSets(t) ==
    /\ Is(t, "cp_done")
    /\ completed' = TRUE
    /\ ResumeFirst(t, Cp)
    /\ UNCHANGED <<isr, dead, fault, waiting>>

CpIsrDone ==
    /\ IsrCalls("cp_isr_done", Cp) /\ ~completed
    /\ completed' = TRUE
    /\ IsrResumeFirst(Cp)
    /\ UNCHANGED <<isr, dead, fault, waiting>>

CpStep(producer, consumer) ==
    \/ CpIsrDone
    \/ \E t \in producer : CpDone(t) \/ CpDoneSets(t)
    \/ \E t \in consumer :
        CpWait(t) \/ CpWaitReturns(t) \/ \E time \in TimesOf(t) : CpWaitBlocks(t, time)

-----------------------------------------------------------------------------

\* No lost and no false completion: nobody waits for what is done, and a wait
\* that comes back with RT_EOK finds the flag set, although rt_completion_done
\* looks at the flag with interrupts enabled and several done calls overlap.
CompletionExact ==
    /\ completed => k.q[Cp] = << >>
    /\ Woken(Cp) # {} => completed
=============================================================================
