-------------------------------- MODULE Mutex --------------------------------
(***************************************************************************)
(* The mutex of ipc.c: recursive, owned by a thread, handed over directly  *)
(* to the first waiter, and lending the owner the priority of a more       *)
(* urgent thread that has to wait for it.                                  *)
(***************************************************************************)
EXTENDS Ipc

CONSTANTS
    Nobody,     \* RT_NULL as the owner of a free mutex
    HoldMod,    \* 2^8, the range of the rt_uint8_t hold
    MaxHeld     \* bound on the takes a thread has outstanding

ASSUME MutexAssumption ==
    /\ Nobody \notin Thread
    /\ HoldMod \in Nat \ {0} /\ MaxHeld \in Nat
    /\ \A m \in Obj : Second[m] = m    \* a mutex has one suspend list

VARIABLES
    value,  \* mutex->value
    owner,  \* mutex->owner
    hold,   \* mutex->hold
    orig,   \* mutex->original_priority; PrioMax stands for 0xFF
    held    \* history: the mutexes each thread has taken and not released

vars == <<k, isr, pc, dead, fault, value, owner, hold, orig, held>>
mutex == <<value, owner, hold, orig>>

Init ==
    /\ SystemInit(Thread)
    /\ dead = {} /\ fault = FALSE
    /\ value = [m \in Obj |-> 1]
    /\ owner = [m \in Obj |-> Nobody]
    /\ hold = [m \in Obj |-> 0]
    /\ orig = [m \in Obj |-> PrioMax]
    /\ held = [t \in Thread |-> << >>]

-----------------------------------------------------------------------------
(* rt_mutex_take *)

SetError(t, e) == [k EXCEPT !.err[t] = e]

\* Mutex m belongs to t from now on, who gets this priority back at the end.
GiveTo(m, t) ==
    /\ owner' = [owner EXCEPT ![m] = t]
    /\ orig' = [orig EXCEPT ![m] = k.prio[t]]

TakeAvailable(t, m) ==
    /\ CallsOn(t, "take", m) /\ Len(held[t]) < MaxHeld
    /\ owner[m] # t /\ value[m] > 0
    /\ value' = [value EXCEPT ![m] = @ - 1]
    /\ GiveTo(m, t)
    /\ hold' = [hold EXCEPT ![m] = (@ + 1) % HoldMod]
    /\ k' = SetError(t, "EOK")
    /\ held' = [held EXCEPT ![t] = Append(@, m)]
    /\ UNCHANGED <<isr, pc, dead, fault>>

\* Mutants: a recursive take is not counted; records the priority again.
TakeAgain_NotCounted(t, m) ==
    /\ CallsOn(t, "take", m) /\ Len(held[t]) < MaxHeld
    /\ owner[m] = t
    /\ k' = SetError(t, "EOK")
    /\ held' = [held EXCEPT ![t] = Append(@, m)]
    /\ UNCHANGED <<isr, pc, dead, fault, mutex>>
TakeAgain_Records(t, m) ==
    /\ CallsOn(t, "take", m) /\ Len(held[t]) < MaxHeld
    /\ owner[m] = t
    /\ GiveTo(m, t)
    /\ hold' = [hold EXCEPT ![m] = (@ + 1) % HoldMod]
    /\ k' = SetError(t, "EOK")
    /\ held' = [held EXCEPT ![t] = Append(@, m)]
    /\ UNCHANGED <<isr, pc, dead, fault, value>>

TakeAgain(t, m) ==
    /\ CallsOn(t, "take", m) /\ Len(held[t]) < MaxHeld
    /\ owner[m] = t
    /\ hold' = [hold EXCEPT ![m] = (@ + 1) % HoldMod]
    /\ k' = SetError(t, "EOK")
    /\ held' = [held EXCEPT ![t] = Append(@, m)]
    /\ UNCHANGED <<isr, pc, dead, fault, value, owner, orig>>

\* time = 0
TakeFails(t, m) ==
    /\ CallsOn(t, "take", m)
    /\ owner[m] # t /\ value[m] = 0
    /\ k' = SetError(t, "ETIMEOUT")
    /\ UNCHANGED <<isr, pc, dead, fault, mutex, held>>

\* Mutant: no priority inheritance.
LendPriority_Never(m, t) == k

\* The owner is lent the priority of a more urgent caller.
LendPriority(m, t) ==
    IF k.prio[t] < k.prio[owner[m]] THEN ChangePriority(k, owner[m], k.prio[t]) ELSE k

TakeBlocks(t, m, time) ==
    /\ CallsOn(t, "take", m) /\ Len(held[t]) < MaxHeld
    /\ owner[m] # t /\ value[m] = 0 /\ time # 0
    /\ k' = SuspendSelfOn(LendPriority(m, t), m, Flag[m], time)
    /\ Goto(t, "take_sched", m)
    /\ UNCHANGED <<isr, dead, fault, mutex, held>>

\* Back from rt_schedule: with no error the mutex was handed over.
TakeReturns(t) ==
    /\ Is(t, "take_ret")
    /\ held' = IF k.err[t] = "EOK" THEN [held EXCEPT ![t] = Append(@, pc[t].arg)] ELSE held
    /\ Goto(t, "run", t)
    /\ UNCHANGED <<k, isr, dead, fault, mutex>>

-----------------------------------------------------------------------------
(* rt_mutex_release *)

\* The takes s without one of mutex m: the last one, if it was of m.
OneLess(s, m) == IF Last(s) = m THEN Front(s) ELSE RemoveFirst(s, m)

ReleaseRefused(t, m) ==
    /\ CallsOn(t, "release", m) /\ owner[m] # t
    /\ k' = SetError(t, "ERROR")
    /\ UNCHANGED <<isr, pc, dead, fault, mutex, held>>

ReleaseInner(t, m) ==
    /\ CallsOn(t, "release", m) /\ owner[m] = t /\ hold[m] # 1
    /\ hold' = [hold EXCEPT ![m] = (@ - 1) % HoldMod]
    /\ held' = [held EXCEPT ![t] = OneLess(@, m)]
    /\ UNCHANGED <<k, isr, pc, dead, fault, value, owner, orig>>

\* Mutant: the owner keeps the priority it was lent.
PriorityBack_Never(m, t) == k

\* The last release gives the owner its priority back.
PriorityBack(m, t) ==
    IF orig[m] # k.prio[t] THEN ChangePriority(k, t, orig[m]) ELSE k

\* With a thread waiting, the mutex passes to the first one ...
ReleaseHandsOver(t, m) ==
    /\ CallsOn(t, "release", m) /\ owner[m] = t /\ hold[m] = 1 /\ k.q[m] # << >>
    /\ GiveTo(m, Head(k.q[m]))
    /\ k' = rt_ipc_list_resume(PriorityBack(m, t), m)
    /\ Goto(t, "sched", t)
    /\ held' = [held EXCEPT ![t] = OneLess(@, m)]
    /\ UNCHANGED <<isr, dead, fault, value, hold>>

\* Mutant: the mutex is freed without looking at the suspend list.
ReleaseFrees_Always(t, m) ==
    /\ CallsOn(t, "release", m) /\ owner[m] = t /\ hold[m] = 1
    /\ k' = PriorityBack(m, t)
    /\ value' = [value EXCEPT ![m] = @ + 1]
    /\ owner' = [owner EXCEPT ![m] = Nobody]
    /\ hold' = [hold EXCEPT ![m] = 0]
    /\ orig' = [orig EXCEPT ![m] = PrioMax]
    /\ held' = [held EXCEPT ![t] = OneLess(@, m)]
    /\ UNCHANGED <<isr, pc, dead, fault>>

\* ... and otherwise it is free.  No rt_schedule follows.
ReleaseFrees(t, m) ==
    /\ CallsOn(t, "release", m) /\ owner[m] = t /\ hold[m] = 1 /\ k.q[m] = << >>
    /\ k' = PriorityBack(m, t)
    /\ value' = [value EXCEPT ![m] = @ + 1]
    /\ owner' = [owner EXCEPT ![m] = Nobody]
    /\ hold' = [hold EXCEPT ![m] = 0]
    /\ orig' = [orig EXCEPT ![m] = PrioMax]
    /\ held' = [held EXCEPT ![t] = OneLess(@, m)]
    /\ UNCHANGED <<isr, pc, dead, fault>>

\* Whether the threads of the instance release their mutexes in the reverse of
\* the order in which they took them ("lifo") or in any order.
InOrder(t, m) == "lifo" \in Ops /\ held[t] # << >> => Last(held[t]) = m

Release(t, m) ==
    /\ InOrder(t, m)
    /\ ReleaseRefused(t, m) \/ ReleaseInner(t, m) \/ ReleaseHandsOver(t, m) \/ ReleaseFrees(t, m)

Next ==
    \/ IpcStep(Obj) /\ UNCHANGED <<mutex, held>>
    \/ \E t \in User :
        \/ TakeReturns(t)
        \/ \E m \in Obj :
            \/ TakeAvailable(t, m) \/ TakeAgain(t, m) \/ TakeFails(t, m)
            \/ \E time \in Times : TakeBlocks(t, m, time)
            \/ Release(t, m)

Spec == Init /\ [][Next]_vars

\* The tick interrupt keeps coming; and a thread that is given the processor
\* again and again finishes its kernel call and gives its mutexes back.
FairSpec ==
    /\ Spec
    /\ TickFairness
    /\ \A t \in User :
          []<>(k.cur = t /\ (pc[t].at # "run" \/ held[t] # << >>))
              => []<>(pc[t].at = "run" /\ held[t] = << >>)

-----------------------------------------------------------------------------

\* Kernel state and mutexes have their types; value and hold stay within their
\* widths.
MutexTypeOK ==
    /\ IpcTypeOK
    /\ value \in [Obj -> 0 .. 1]
    /\ owner \in [Obj -> Thread \cup {Nobody}]
    /\ hold \in [Obj -> 0 .. HoldMod - 1]
    /\ orig \in [Obj -> Prio \cup {PrioMax}]
    /\ held \in [Thread -> Seq(Obj)]

Takes(t, m) == Cardinality({i \in 1 .. Len(held[t]) : held[t][i] = m})

\* Thread t was handed mutex m and has not yet returned from rt_mutex_take.
Granted(t, m) == Taking(t, m) /\ k.stat[t] # "SUSPEND" /\ k.err[t] = "EOK"

\* Mutual exclusion: a thread that has taken the mutex, or is about to return
\* with it from rt_mutex_take, is its owner, hold counts its takes, and a mutex
\* without an owner is available.  A waiter that times out in the moment of the
\* handover would break it.
OwnershipAgrees ==
    \A m \in Obj :
        /\ \A t \in Thread :
            Takes(t, m) + (IF Granted(t, m) THEN 1 ELSE 0)
                = IF owner[m] = t THEN hold[m] ELSE 0
        /\ owner[m] = Nobody <=> value[m] = 1
        /\ owner[m] = Nobody <=> hold[m] = 0

\* The mutex and the kernel below it agree: mutual exclusion and recursion, whoever
\* times out around a handover, with the suspend list holding exactly the waiters.
MutexConsistent == MutexTypeOK /\ KernelConsistent /\ WaitersListed /\ OwnershipAgrees

\* No thread waits for a mutex that is free.
NoLostHandover == \A m \in Obj : owner[m] = Nobody => k.q[m] = << >>

\* Priority inheritance: the owner is at least as urgent as every thread that
\* waits for the mutex.
Inheritance ==
    \A m \in Obj : owner[m] # Nobody =>
        \A t \in ToSet(k.q[m]) : k.prio[owner[m]] <= k.prio[t]

\* A thread that holds no mutex, and is not being handed one, is back at the
\* priority it was created with.
PriorityRestored ==
    \A t \in Thread : (\A m \in Obj : owner[m] # t) => k.prio[t] = InitPrio[t]

\* The priority protocol: an owner inherits the priority of the waiters, and a
\* thread that holds no mutex has given back what it inherited, whether its
\* waiters got the mutex or gave up.
PriorityProtocol == Inheritance /\ PriorityRestored

\* Bounded priority inversion: the most urgent thread gets the mutex it waits
\* for without a time limit, although a thread of middle priority may compute
\* for ever.
InversionEnds ==
    \A t \in MostUrgent, m \in Obj :
        Linked(k, t, m) /\ ~Armed(k, t) ~> ~Linked(k, t, m) /\ Takes(t, m) > 0
=============================================================================
