------------------------------- MODULE MemPool -------------------------------
(***************************************************************************)
(* The memory pool of mempool.c: a list of free blocks of one size, a      *)
(* counter of them, the list of the threads that wait for a block, the     *)
(* last one first, and a counter of those.  An allocation with time 0 from *)
(* an empty pool changes nothing.                                          *)
(***************************************************************************)
EXTENDS Waiting

CONSTANTS
    Block,      \* the blocks
    Mp          \* the suspend list of the pool

ASSUME MemPoolAssumption == IsFiniteSet(Block)

VARIABLES
    mp      \* block_list, block_free_count and suspend_thread_count; used holds
            \* the blocks that the application has; and history: late counts the
            \* allocations that returned because their wait timed out

MpInit ==
    mp = [list |-> SetToSeq(Block), free |-> Cardinality(Block), count |-> 0,
          used |-> {}, late |-> 0]

\* What the pool needs: once a wait has timed out nobody waits with a time limit
\* or frees a block, unless the instance asks for it.
TimedOut == mp.late + Cardinality({t \in User : Taking(t, Mp) /\ k.err[t] = "ETIMEOUT"})
OnTime == "mp_late" \in Ops \/ TimedOut = 0

-----------------------------------------------------------------------------
(* rt_mp_alloc *)

MpTake ==
    mp' = [mp EXCEPT !.free = @ - 1, !.list = Tail(@), !.used = @ \cup {Head(mp.list)}]

MpAlloc(t) ==
    /\ CallsOn(t, "mp_alloc", Mp) /\ mp.free > 0
    /\ MpTake
    /\ UNCHANGED <<kernel, waiting>>

\* rt_mp_alloc with time 0 in an interrupt handler
MpIsrAlloc ==
    /\ IsrCalls("mp_isr_alloc", Mp) /\ mp.free > 0
    /\ MpTake
    /\ UNCHANGED <<kernel, waiting>>

\* The waiting thread goes to the front of the list.
MpSuspend(time) ==
    LET s == rt_thread_suspend([k EXCEPT !.err[k.cur] = "EOK"], k.cur)
        r == [s EXCEPT !.q[Mp] = << k.cur >> \o @]
    IN  IF time > 0 THEN TimerStart(r, k.cur, time) ELSE r

MpBlocks(t, time) ==
    /\ CallsOn(t, "mp_alloc", Mp) /\ mp.free = 0 /\ time # 0 /\ (time > 0 => OnTime)
    /\ WaitFirst(t, Mp, MpSuspend(time), time)
    /\ mp' = [mp EXCEPT !.count = @ + 1]
    /\ UNCHANGED <<isr, dead, fault>>

\* Back from rt_schedule with an error: the counter is left as it is.
MpFails(t) ==
    /\ WaitFails(t, Mp)
    /\ mp' = [mp EXCEPT !.late = IF k.err[t] = "ETIMEOUT" THEN @ + 1 ELSE @]

\* Back from rt_schedule without one: the rest of the time is computed with
\* interrupts enabled.
MpResumed(t) ==
    /\ Resumed(t, Mp)
    /\ left' = [left EXCEPT ![t] = Remaining(t)]
    /\ Goto(t, "mp_loop", Mp)
    /\ UNCHANGED <<k, isr, dead, fault, spent, limit, mp>>

MpAllocResumed(t) ==
    /\ Is(t, "mp_loop") /\ mp.free > 0
    /\ MpTake
    /\ EndWait(t) /\ Goto(t, "run", t)
    /\ UNCHANGED <<k, isr, dead, fault>>

\* Another thread was faster: wait for the rest of the time, or give up.
MpAgain(t) ==
    /\ Is(t, "mp_loop") /\ mp.free = 0 /\ left[t] # 0
    /\ WaitAgain(t, Mp, MpSuspend(left[t]), left[t])
    /\ mp' = [mp EXCEPT !.count = @ + 1]
    /\ UNCHANGED <<isr, dead, fault>>

MpGivesUp(t) ==
    /\ Is(t, "mp_loop") /\ mp.free = 0 /\ left[t] = 0
    /\ EndWait(t) /\ Goto(t, "run", t)
    /\ UNCHANGED <<k, isr, dead, fault, mp>>

-----------------------------------------------------------------------------
(* rt_mp_free *)

MpGive(b) == [mp EXCEPT !.free = @ + 1, !.list = << b >> \o @, !.used = @ \ {b}]

\* Mutant: a waiter is resumed only for the first free block.
MpWakes_First == mp.count > 0 /\ mp.free = 0

\* The counter says that somebody waits; the list is not looked at.
MpWakes == mp.count > 0

\* The first thread of the list is resumed, or what is not a thread is.
MpResumeFirst(b, s) ==
    /\ mp' = [MpGive(b) EXCEPT !.count = @ - 1]
    /\ IF k.q[Mp] # << >> THEN k' = s /\ UNCHANGED fault
       ELSE UNCHANGED k /\ fault' = TRUE

MpFree(t, b) ==
    /\ CallsOn(t, "mp_free", Mp) /\ b \in mp.used /\ OnTime
    /\ IF MpWakes
       THEN MpResumeFirst(b, rt_ipc_list_resume(k, Mp)) /\ Goto(t, "sched", t)
       ELSE mp' = MpGive(b) /\ UNCHANGED <<k, pc, fault>>
    /\ UNCHANGED <<isr, dead, waiting>>

MpIsrFree(b) ==
    /\ IsrCalls("mp_isr_free", Mp) /\ b \in mp.used /\ OnTime
    /\ IF MpWakes
       THEN MpResumeFirst(b, rt_schedule(rt_ipc_list_resume(k, Mp)))
       ELSE mp' = MpGive(b) /\ UNCHANGED <<k, fault>>
    /\ UNCHANGED <<isr, pc, dead, waiting>>

-----------------------------------------------------------------------------
(* rt_mp_detach and rt_mp_delete have a loop of their own, which counts    *)
(* the waiters down.                                                       *)

MpDelete(t) ==
    /\ CallsOn(t, "delete", Mp) /\ MayWakeAll(Mp)
    /\ NoneWoken(Mp) /\ \A u \in User : pc[u].at # "mp_loop"
    /\ dead' = dead \cup {Mp}
    /\ Goto(t, "mp_check", Mp)
    /\ UNCHANGED <<k, isr, fault, waiting, mp>>

MpWakeCheck(t) ==
    /\ Is(t, "mp_check")
    /\ IF k.q[Mp] # << >> THEN Goto(t, "mp_wake", Mp) ELSE Goto(t, "run", t)
    /\ UNCHANGED <<k, isr, dead, fault, waiting, mp>>

MpWakeOne(t) ==
    /\ Is(t, "mp_wake")
    /\ IF k.q[Mp] # << >> THEN k' = ResumeOneWithError(k, Mp) /\ UNCHANGED fault
       ELSE fault' = TRUE /\ UNCHANGED k
    /\ mp' = [mp EXCEPT !.count = @ - 1]
    /\ Goto(t, "mp_check", Mp)
    /\ UNCHANGED <<isr, dead, waiting>>

MpStep(consumer) ==
    \/ MpIsrAlloc \/ \E b \in Block : MpIsrFree(b)
    \/ \E t \in consumer :
        \/ MpAlloc(t) \/ \E time \in TimesOf(t) : MpBlocks(t, time)
        \/ MpFails(t) \/ MpResumed(t) \/ MpAllocResumed(t) \/ MpAgain(t) \/ MpGivesUp(t)
    \/ \E t \in User :
        \/ \E b \in Block : MpFree(t, b)
        \/ MpDelete(t) \/ MpWakeCheck(t) \/ MpWakeOne(t)

-----------------------------------------------------------------------------

\* Each block is in the free list once or with the application, and the counter
\* of free blocks, the only thing that rt_mp_alloc looks at, is the list's length.
BlocksConserved ==
    /\ IsInjective(mp.list) /\ mp.free = Len(mp.list)
    /\ ToSet(mp.list) \cap mp.used = {} /\ ToSet(mp.list) \cup mp.used = Block

\* The counter that rt_mp_free trusts is the number of threads in the list and
\* of those that were in it until their wait timed out.
CountIsWaiters == mp.count = Len(k.q[Mp]) + TimedOut

\* No lost wake-up: while threads wait, each free block has a resumed thread that
\* is on its way to it.
PoolServed ==
    k.q[Mp] # << >> =>
        mp.free <= Cardinality(Woken(Mp) \cup {t \in User : pc[t].at = "mp_loop"})

\* rt_mp_free gets the suspended thread from the list: there is one.
PoolResumesThreads == ~fault
=============================================================================
