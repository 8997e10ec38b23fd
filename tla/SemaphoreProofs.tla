--------------------------- MODULE SemaphoreProofs ---------------------------
(***************************************************************************)
(* Safety of the semaphore for every set of threads and semaphores, every  *)
(* choice of priorities, flags, waiting times, tick width and value width. *)
(***************************************************************************)
EXTENDS Semaphore, IpcProofs

\* The inductive invariant
SemInv ==
    /\ IpcInv
    /\ value \in [Obj -> 0 .. ValueMod - 1]
    /\ units \in [Obj -> Int]
    /\ NoLostWakeup

\* A step that adds no waiter to an available semaphore and makes none with
\* waiters available keeps NoLostWakeup.
LEMMA NoNewWaiterNoLoss ==
    ASSUME SemInv, IpcInv', NoNewWaiter(k, k'),
           \A s \in Obj : value'[s] > 0 => value[s] > 0 \/ k.q[s] = << >>
    PROVE  NoLostWakeup'
<1>1. Good(k, {}) /\ Good(k', {})
  <2>1. Good(k, {})
    BY IpcInvGood DEF SemInv
  <2>2. k' \in Kstate /\ KernelOK(k', {})
    BY DEF IpcInv, IpcTypeOK
  <2> QED
    BY <2>1, <2>2, FlatIff DEF Good
<1>2. \A s \in Obj : k.q[s] = << >> => k'.q[s] = << >>
  BY <1>1, EmptyIff DEF NoNewWaiter
<1>3. \A s \in Obj : value'[s] > 0 => k.q[s] = << >>
  BY DEF SemInv, NoLostWakeup
<1> QED
  BY <1>2, <1>3 DEF NoLostWakeup

\* A step that leaves the counters alone and adds no waiter
LEMMA SameValueInv ==
    ASSUME SemInv, IpcInv', NoNewWaiter(k, k'), UNCHANGED value,
           units' \in [Obj -> Int]
    PROVE  SemInv'
<1>1. NoLostWakeup'
  BY NoNewWaiterNoLoss
<1> QED
  BY <1>1 DEF SemInv

-----------------------------------------------------------------------------

\* A unit is available and taken.
LEMMA TakeAvailableInv ==
    ASSUME SemInv, NEW t \in Thread, NEW s \in Obj, TakeAvailable(t, s)
    PROVE  SemInv'
<1>1. /\ value[s] > 0
      /\ value' = [value EXCEPT ![s] = value[s] - 1]
      /\ units' = [units EXCEPT ![s] = units[s] - 1]
      /\ UNCHANGED <<k, isr, pc, dead, fault>>
  BY DEF TakeAvailable
<1>2. /\ IpcInv /\ value \in [Obj -> 0 .. ValueMod - 1] /\ units \in [Obj -> Int]
      /\ ValueMod \in Nat
  BY SemaphoreAssumption DEF SemInv
<1>3. IpcInv' /\ NoNewWaiter(k, k')
  BY <1>1, <1>2 DEF IpcInv, LockHeld, InReset, WaitersListed, Taking, NoNewWaiter
<1>4. value' \in [Obj -> 0 .. ValueMod - 1] /\ units' \in [Obj -> Int]
  BY <1>1, <1>2
<1>5. \A r \in Obj : value'[r] > 0 => value[r] > 0
  BY <1>1, <1>2
<1>6. NoLostWakeup'
  BY <1>3, <1>5, NoNewWaiterNoLoss
<1> QED
  BY <1>3, <1>4, <1>6 DEF SemInv

\* No unit is available and the caller waits: what a suspension does (BlocksFrame).
LEMMA TakeBlocksFrame ==
    ASSUME SemInv, NEW t \in User, NEW s \in Obj, NEW time \in Times, TakeBlocks(t, s, time)
    PROVE  /\ IpcInv'
           /\ \A u \in Thread : \A o \in Obj : HandedOver(u, o)' <=> HandedOver(u, o)
           /\ WaitersClean => WaitersClean'
           /\ MostUrgentFirst => MostUrgentFirst'
           /\ k.cur = t /\ k'.cur = t
           /\ \A u \in Thread : \A o \in Obj :
                Linked(k', u, o) <=> Linked(k, u, o) \/ (u = t /\ o = s)
           /\ \A o \in Obj : ~Linked(k, t, o)
           /\ \A u \in Thread : Armed(k', u) => Armed(k, u) \/ u = t
<1>1. /\ k.cur = t /\ pc[t].at = "run"
      /\ k' = SuspendSelfOn(k, s, Flag[s], time)
      /\ Goto(t, "take_sched", s)
      /\ UNCHANGED <<isr, dead, fault>>
  BY DEF TakeBlocks, CallsOn, Calls, Is
<1>2. IpcInv /\ Good(k, {}) /\ SameWaiters(k, k)
  BY IpcInvGood DEF SemInv, SameWaiters
<1>3. MostUrgentFirst => \A o \in Obj : Flag[o] = "PRIO" => Sorted(k, o)
  BY DEF MostUrgentFirst, Sorted
<1>4. /\ IpcInv'
      /\ \A u \in Thread : \A o \in Obj : HandedOver(u, o)' <=> HandedOver(u, o)
      /\ WaitersClean => WaitersClean'
      /\ (\A o \in Obj : Flag[o] = "PRIO" => Sorted(k, o)) => MostUrgentFirst'
      /\ k'.prio = k.prio /\ k'.cur = k.cur
      /\ \A u \in Thread : \A o \in Obj :
            Linked(k', u, o) <=> Linked(k, u, o) \/ (u = t /\ o = s)
      /\ \A o \in Obj : ~Linked(k, t, o)
      /\ \A u \in Thread : Armed(k', u) => Armed(k, u) \/ u = t
  BY <1>1, <1>2, BlocksFrame
<1> QED
  BY <1>1, <1>3, <1>4

LEMMA TakeBlocksInv ==
    ASSUME SemInv, NEW t \in User, NEW s \in Obj, NEW time \in Times, TakeBlocks(t, s, time)
    PROVE  SemInv'
<1>1. /\ IpcInv' /\ value[s] = 0 /\ UNCHANGED <<value, units>>
      /\ \A u \in Thread : \A o \in Obj :
            Linked(k', u, o) <=> Linked(k, u, o) \/ (u = t /\ o = s)
  BY TakeBlocksFrame DEF TakeBlocks
<1>2. Good(k, {}) /\ Good(k', {})
  <2>1. k' \in Kstate /\ KernelOK(k', {})
    BY <1>1 DEF IpcInv, IpcTypeOK
  <2> QED
    BY <2>1, IpcInvGood, FlatIff DEF Good, SemInv
<1>3. ASSUME NEW r \in Obj, value'[r] > 0
      PROVE  k'.q[r] = << >>
  <2>1. r # s /\ k.q[r] = << >>
    BY <1>1, <1>3 DEF SemInv, NoLostWakeup
  <2> QED
    BY <1>1, <1>2, <2>1, EmptyIff
<1> QED
  BY <1>1, <1>3 DEF SemInv, NoLostWakeup

\* rt_sem_take returns.
LEMMA TakeReturnsInv ==
    ASSUME SemInv, NEW t \in Thread, TakeReturns(t)
    PROVE  SemInv'
<1>1. IpcInv /\ units \in [Obj -> Int]
  BY DEF SemInv
<1>2. /\ Good(k, {}) /\ dead \subseteq Obj /\ fault \in BOOLEAN /\ isr \in Isr
  BY <1>1, IpcInvGood
<1>3. /\ k.cur = t /\ pc[t].at = "take_ret"
      /\ units' = IF k.err[t] = "EOK" THEN [units EXCEPT ![pc[t].arg] = @ - 1] ELSE units
      /\ Goto(t, "run", t)
      /\ UNCHANGED <<k, isr, dead, fault, value>>
  BY DEF TakeReturns, Is
<1>4. k.stat[t] = "RUNNING"
  BY <1>1, <1>3, Runs
<1>5. "run" \in PcPoint /\ ArgIsObject([at |-> "run", arg |-> t])
  BY DEF PcPoint, ArgIsObject
<1>6. k'.stat[t] # "SUSPEND" /\ k'.stat[k'.cur] = "RUNNING"
  BY <1>3, <1>4
<1>7. SameWaiters(k, k') /\ k'.lock = k.lock /\ Good(k', {})
  BY <1>1, <1>3, SameKernel
<1>8. isr' \in Isr /\ dead' \subseteq Obj /\ fault' \in BOOLEAN
  BY <1>2, <1>3
<1>9. IpcInv' /\ NoNewWaiter(k, k')
  BY <1>1, <1>3, <1>5, <1>6, <1>7, <1>8, MovesPc
<1>10. units' \in [Obj -> Int]
  <2>1. CASE pc[t].arg \in Obj
    BY <1>1, <1>3, <2>1
  <2>2. CASE pc[t].arg \notin Obj
    BY <1>1, <1>3, <2>2
  <2> QED
    BY <2>1, <2>2
<1> QED
  BY <1>3, <1>9, <1>10, SameValueInv

\* The counting part of a release keeps the counters in range, and makes a
\* semaphore available only if nobody waits for it.
LEMMA ReleaseCountsInv ==
    ASSUME SemInv, NEW s \in Obj, ReleaseCounts(s)
    PROVE  /\ value' \in [Obj -> 0 .. ValueMod - 1] /\ units' \in [Obj -> Int]
           /\ \A r \in Obj : value'[r] > 0 => value[r] > 0 \/ k.q[r] = << >>
<1>1. /\ value \in [Obj -> 0 .. ValueMod - 1] /\ units \in [Obj -> Int]
      /\ ValueMod \in Nat \ {0}
  BY SemaphoreAssumption DEF SemInv
<1>2. /\ units' = [units EXCEPT ![s] = units[s] + 1]
      /\ \/ k.q[s] = << >> /\ value' = [value EXCEPT ![s] = (value[s] + 1) % ValueMod]
         \/ value' = value
  BY DEF ReleaseCounts
<1>3. (value[s] + 1) % ValueMod \in 0 .. ValueMod - 1
  BY <1>1
<1>4. units' \in [Obj -> Int]
  BY <1>1, <1>2
<1>5. CASE value' = value
  BY <1>1, <1>4, <1>5
<1>6. CASE k.q[s] = << >> /\ value' = [value EXCEPT ![s] = (value[s] + 1) % ValueMod]
  BY <1>1, <1>3, <1>4, <1>6
<1> QED
  BY <1>2, <1>5, <1>6

\* rt_sem_release by a thread
LEMMA ReleaseInv ==
    ASSUME SemInv, NEW t \in Thread, NEW s \in Obj, Release(t, s)
    PROVE  SemInv'
<1>1. IpcInv
  BY DEF SemInv
<1>2. /\ Good(k, {}) /\ dead \subseteq Obj /\ fault \in BOOLEAN /\ isr \in Isr
  BY <1>1, IpcInvGood
<1>3. /\ k.cur = t /\ pc[t].at = "run" /\ ReleaseCounts(s)
      /\ UNCHANGED <<isr, dead, fault>>
      /\ \/ k.q[s] # << >> /\ k' = rt_ipc_list_resume(k, s) /\ Goto(t, "sched", t)
         \/ UNCHANGED <<k, pc>>
  BY DEF Release, CallsOn, Calls, Is
<1>4. k.stat[t] = "RUNNING"
  BY <1>1, <1>3, Runs
<1>5. isr' \in Isr /\ dead' \subseteq Obj /\ fault' \in BOOLEAN
  BY <1>2, <1>3
<1>6. IpcInv' /\ NoNewWaiter(k, k')
  <2>1. CASE UNCHANGED <<k, pc>>
    <3>1. SameWaiters(k, k') /\ k'.lock = k.lock /\ Good(k', {})
      BY <1>1, <2>1, SameKernel
    <3>2. k'.stat[k'.cur] = "RUNNING"
      BY <1>3, <1>4, <2>1
    <3> QED
      BY <1>1, <1>5, <2>1, <3>1, <3>2, SamePc
  <2>2. CASE k.q[s] # << >> /\ k' = rt_ipc_list_resume(k, s) /\ Goto(t, "sched", t)
    <3>1. PICK w : w = Head(k.q[s])
      OBVIOUS
    <3>2. /\ Good(k', {}) /\ LosesWaiter(k, k', w) /\ w \in Thread
          /\ k'.lock = k.lock /\ SameRunner(k, k')
      BY <1>2, <2>2, <3>1, ListResumeGood
    <3>3. k'.stat[t] # "SUSPEND" /\ k'.stat[k'.cur] = "RUNNING"
      BY <1>3, <1>4, <3>2 DEF SameRunner
    <3>4. "sched" \in PcPoint /\ ArgIsObject([at |-> "sched", arg |-> t])
      BY DEF PcPoint, ArgIsObject
    <3> QED
      BY <1>1, <1>3, <1>5, <2>2, <3>2, <3>3, <3>4, MovesPc
  <2> QED
    BY <1>3, <2>1, <2>2
<1>7. /\ value' \in [Obj -> 0 .. ValueMod - 1] /\ units' \in [Obj -> Int]
      /\ \A r \in Obj : value'[r] > 0 => value[r] > 0 \/ k.q[r] = << >>
  BY <1>3, ReleaseCountsInv
<1>8. NoLostWakeup'
  BY <1>6, <1>7, NoNewWaiterNoLoss
<1> QED
  BY <1>6, <1>7, <1>8 DEF SemInv

\* rt_sem_release by an interrupt handler
LEMMA IsrReleaseInv ==
    ASSUME SemInv, NEW s \in Obj, IsrRelease(s)
    PROVE  SemInv'
<1>1. IpcInv
  BY DEF SemInv
<1>2. /\ Good(k, {}) /\ dead \subseteq Obj /\ fault \in BOOLEAN /\ isr \in Isr
  BY <1>1, IpcInvGood
<1>3. /\ ReleaseCounts(s) /\ UNCHANGED <<isr, pc, dead, fault>>
      /\ \/ k.q[s] # << >> /\ k' = rt_schedule(rt_ipc_list_resume(k, s))
         \/ k' = k
  BY DEF IsrRelease
<1>4. isr' \in Isr /\ dead' \subseteq Obj /\ fault' \in BOOLEAN
  BY <1>2, <1>3
<1>5. IpcInv' /\ NoNewWaiter(k, k')
  <2>1. CASE k' = k
    <3>1. SameWaiters(k, k') /\ k'.lock = k.lock /\ Good(k', {})
      BY <1>1, <2>1, SameKernel
    <3> QED
      BY <1>1, <1>3, <1>4, <2>1, <3>1, SamePc
  <2>2. CASE k.q[s] # << >> /\ k' = rt_schedule(rt_ipc_list_resume(k, s))
    <3>1. PICK w : w = Head(k.q[s])
      OBVIOUS
    <3>2. PICK m : m = rt_ipc_list_resume(k, s)
      OBVIOUS
    <3>3. /\ Good(m, {}) /\ LosesWaiter(k, m, w) /\ w \in Thread
          /\ m.lock = k.lock /\ SameRunner(k, m)
      BY <1>2, <2>2, <3>1, <3>2, ListResumeGood
    <3>4. /\ Good(k', {})
          /\ MaySwitch(m) => k'.stat[k'.cur] = "RUNNING"
          /\ ~MaySwitch(m) => k' = m
          /\ k'.lock = m.lock
          /\ \A u \in Thread : \A o \in Obj : Linked(k', u, o) <=> Linked(m, u, o)
          /\ \A u \in Thread : m.stat[u] = "SUSPEND" <=> k'.stat[u] = "SUSPEND"
      BY <2>2, <3>2, <3>3, ScheduleGood
    <3>5. LosesWaiter(k, k', w)
      BY <3>3, <3>4 DEF LosesWaiter
    <3>6. k'.stat[k'.cur] = "RUNNING" \/ (k'.cur = k.cur /\ k.stat[k.cur] # "RUNNING")
      BY <3>3, <3>4 DEF SameRunner
    <3>7. k.lock = 0 \/ k'.cur = k.cur
      BY <1>2, <3>3, <3>4, LockNat DEF MaySwitch, SameRunner
    <3> QED
      BY <1>1, <1>3, <1>4, <3>3, <3>4, <3>5, <3>6, <3>7, SamePc
  <2> QED
    BY <1>3, <2>1, <2>2
<1>6. /\ value' \in [Obj -> 0 .. ValueMod - 1] /\ units' \in [Obj -> Int]
      /\ \A r \in Obj : value'[r] > 0 => value[r] > 0 \/ k.q[r] = << >>
  BY <1>3, ReleaseCountsInv
<1>7. NoLostWakeup'
  BY <1>5, <1>6, NoNewWaiterNoLoss
<1> QED
  BY <1>5, <1>6, <1>7 DEF SemInv

\* rt_sem_control disables interrupts.
LEMMA ResetInv ==
    ASSUME SemInv, NEW t \in Thread, NEW s \in Obj, Reset(t, s)
    PROVE  SemInv'
<1>1. IpcInv /\ units \in [Obj -> Int]
  BY DEF SemInv
<1>2. /\ k.cur = t /\ pc[t].at = "run" /\ isr' = "masked"
      /\ Goto(t, "reset_loop", s)
      /\ UNCHANGED <<k, dead, fault, value, units>>
  BY DEF Reset, CallsOn, Calls, Is
<1>3. k.stat[t] = "RUNNING"
  BY <1>1, <1>2, Runs
<1>4. "reset_loop" \in PcPoint /\ ArgIsObject([at |-> "reset_loop", arg |-> s])
  BY DEF PcPoint, ArgIsObject
<1>5. k'.stat[t] # "SUSPEND" /\ k'.stat[k'.cur] = "RUNNING"
  BY <1>2, <1>3
<1>6. SameWaiters(k, k') /\ k'.lock = k.lock /\ Good(k', {})
  BY <1>1, <1>2, SameKernel
<1>7. isr' \in Isr /\ dead' \subseteq Obj /\ fault' \in BOOLEAN
  BY <1>1, <1>2, IpcInvGood DEF Isr
<1>8. IpcInv' /\ NoNewWaiter(k, k')
  BY <1>1, <1>2, <1>4, <1>5, <1>6, <1>7, MovesPc
<1> QED
  BY <1>1, <1>2, <1>8, SameValueInv

\* rt_sem_control resumes one waiter.
LEMMA ResetWakeInv ==
    ASSUME SemInv, NEW t \in Thread, ResetWake(t)
    PROVE  SemInv'
<1>1. IpcInv /\ units \in [Obj -> Int]
  BY DEF SemInv
<1>2. Good(k, {}) /\ dead \subseteq Obj /\ fault \in BOOLEAN /\ isr \in Isr
  BY <1>1, IpcInvGood
<1> DEFINE s == pc[t].arg
<1>3. /\ k.cur = t /\ pc[t].at = "reset_loop" /\ k.q[s] # << >>
      /\ k' = ResumeOneWithError(k, s)
      /\ UNCHANGED <<isr, pc, dead, fault, value, units>>
  BY DEF ResetWake
<1>4. k.stat[t] = "RUNNING" /\ s \in Obj
  BY <1>1, <1>3, Runs DEF IpcInv, ArgIsObject
<1> HIDE DEF s
<1>5. PICK w : w = Head(k.q[s])
  OBVIOUS
<1>6. /\ Good(k', {}) /\ LosesWaiter(k, k', w) /\ w \in Thread
      /\ k'.lock = k.lock /\ SameRunner(k, k')
  BY <1>2, <1>3, <1>4, <1>5, ResumeOneGood
<1>7. k'.stat[k'.cur] = "RUNNING" /\ k'.cur = k.cur
  BY <1>3, <1>4, <1>6 DEF SameRunner
<1>8. IpcInv' /\ NoNewWaiter(k, k')
  BY <1>1, <1>2, <1>3, <1>6, <1>7, SamePc
<1> QED
  BY <1>1, <1>3, <1>8, SameValueInv

\* rt_sem_control sets the value and enables interrupts.
LEMMA ResetValueInv ==
    ASSUME SemInv, NEW t \in Thread, NEW v \in 0 .. ValueMod - 1, ResetValue(t, v)
    PROVE  SemInv'
<1>1. /\ IpcInv /\ value \in [Obj -> 0 .. ValueMod - 1] /\ units \in [Obj -> Int]
  BY DEF SemInv
<1> DEFINE s == pc[t].arg
<1>2. /\ k.cur = t /\ pc[t].at = "reset_loop" /\ k.q[s] = << >>
      /\ value' = [value EXCEPT ![s] = v]
      /\ units' = [units EXCEPT ![s] = units[s] - value[s] + v]
      /\ isr' = "none" /\ Goto(t, "sched", t)
      /\ UNCHANGED <<k, dead, fault>>
  BY DEF ResetValue
<1>3. k.stat[t] = "RUNNING" /\ s \in Obj
  BY <1>1, <1>2, Runs DEF IpcInv, ArgIsObject
<1> HIDE DEF s
<1>4. "sched" \in PcPoint /\ ArgIsObject([at |-> "sched", arg |-> t])
  BY DEF PcPoint, ArgIsObject
<1>5. k'.stat[t] # "SUSPEND" /\ k'.stat[k'.cur] = "RUNNING"
  BY <1>2, <1>3
<1>6. SameWaiters(k, k') /\ k'.lock = k.lock /\ Good(k', {})
  BY <1>1, <1>2, SameKernel
<1>7. isr' \in Isr /\ dead' \subseteq Obj /\ fault' \in BOOLEAN
  BY <1>1, <1>2, IpcInvGood DEF Isr
<1>8. IpcInv' /\ NoNewWaiter(k, k')
  BY <1>1, <1>2, <1>4, <1>5, <1>6, <1>7, MovesPc
<1>9. value' \in [Obj -> 0 .. ValueMod - 1] /\ units' \in [Obj -> Int]
  <2>1. units[s] - value[s] + v \in Int
    BY <1>1, <1>3, SemaphoreAssumption
  <2> QED
    BY <1>1, <1>2, <2>1
<1>10. \A r \in Obj : value'[r] > 0 => value[r] > 0 \/ k.q[r] = << >>
  BY <1>1, <1>2
<1>11. NoLostWakeup'
  BY <1>8, <1>10, NoNewWaiterNoLoss
<1> QED
  BY <1>8, <1>9, <1>11 DEF SemInv

-----------------------------------------------------------------------------

\* The call points of a semaphore system are those of module Ipc.
LEMMA SemPlain ==
    ASSUME PlainPc, [Next]_vars
    PROVE  PlainPc'
<1>1. CASE pc' = pc
  BY <1>1 DEF PlainPc
<1>2. CASE IpcStep(Obj)
  BY <1>2, IpcStepPlain
<1>3. ASSUME NEW t \in User, Goto(t, "run", t) \/ Goto(t, "sched", t) PROVE PlainPc'
  BY <1>3, PlainGoto DEF User, PcPoint
<1>4. ASSUME NEW t \in User, NEW s \in Obj, Goto(t, "take_sched", s) \/ Goto(t, "reset_loop", s)
      PROVE  PlainPc'
  BY <1>4, PlainGoto DEF User, PcPoint
<1> QED
  BY <1>1, <1>2, <1>3, <1>4 DEF Next, vars, IsrRelease, TakeReturns, TakeAvailable, Release,
     TakeBlocks, Reset, ResetWake, ResetValue

\* Every behaviour of the semaphore keeps the inductive invariant.
THEOREM Invariance == Spec => [](SemInv /\ PlainPc)
<1>1. Init => SemInv /\ PlainPc
  <2> SUFFICES ASSUME Init PROVE SemInv /\ PlainPc
    OBVIOUS
  <2>1. IpcInv /\ \A u \in Thread : \A o \in Obj : ~Linked(k, u, o)
    BY IpcInit DEF Init
  <2>2. Good(k, {})
    BY <2>1, IpcInvGood
  <2>3. NoLostWakeup
    BY <2>1, <2>2, EmptyIff DEF NoLostWakeup
  <2>4. value \in [Obj -> 0 .. ValueMod - 1] /\ units \in [Obj -> Int]
    BY SemaphoreAssumption DEF Init
  <2>5. PlainPc
    BY DEF Init, SystemInit, PlainPc, PcPoint
  <2> QED
    BY <2>1, <2>3, <2>4, <2>5 DEF SemInv
<1>2. SemInv /\ [Next]_vars => SemInv'
  <2> SUFFICES ASSUME SemInv, [Next]_vars PROVE SemInv'
    OBVIOUS
  <2>0. User \subseteq Thread
    BY DEF User
  <2>1. CASE IpcStep(Obj) /\ UNCHANGED <<value, units>>
    <3>1. IpcInv /\ units \in [Obj -> Int]
      BY DEF SemInv
    <3>2. IpcInv' /\ NoNewWaiter(k, k')
      BY <2>1, <3>1, IpcStepInv
    <3> QED
      BY <2>1, <3>1, <3>2, SameValueInv
  <2>2. ASSUME NEW s \in Obj, IsrRelease(s) PROVE SemInv'
    BY <2>2, IsrReleaseInv
  <2>3. ASSUME NEW t \in User, TakeReturns(t) PROVE SemInv'
    BY <2>0, <2>3, TakeReturnsInv
  <2>4. ASSUME NEW t \in User, NEW s \in Obj, TakeAvailable(t, s) PROVE SemInv'
    BY <2>0, <2>4, TakeAvailableInv
  <2>5. ASSUME NEW t \in User, NEW s \in Obj, Release(t, s) PROVE SemInv'
    BY <2>0, <2>5, ReleaseInv
  <2>6. ASSUME NEW t \in User, NEW s \in Obj, NEW time \in Times, TakeBlocks(t, s, time)
        PROVE SemInv'
    BY <2>6, TakeBlocksInv
  <2>7. ASSUME NEW t \in User, NEW s \in Obj, Reset(t, s) PROVE SemInv'
    BY <2>0, <2>7, ResetInv
  <2>8. ASSUME NEW t \in User, ResetWake(t) PROVE SemInv'
    BY <2>0, <2>8, ResetWakeInv
  <2>9. ASSUME NEW t \in User, NEW v \in 0 .. ValueMod - 1, ResetValue(t, v) PROVE SemInv'
    BY <2>0, <2>9, ResetValueInv
  <2>10. CASE UNCHANGED vars
    BY <2>10 DEF vars, SemInv, IpcInv, LockHeld, InReset, WaitersListed, Taking, NoLostWakeup
  <2> QED
    BY <2>1, <2>2, <2>3, <2>4, <2>5, <2>6, <2>7, <2>8, <2>9, <2>10 DEF Next
<1>3. PlainPc /\ [Next]_vars => PlainPc'
  BY SemPlain
<1> QED
  BY <1>1, <1>2, <1>3, PTL DEF Spec

\* The state of the semaphores and of the kernel under them is well typed: in
\* particular sem->value never leaves the range of its integer type.
THEOREM TypeCorrect == Spec => []SemTypeOK
<1>1. SemInv /\ PlainPc => SemTypeOK
  BY PlainType DEF SemInv, SemTypeOK
<1> QED
  BY <1>1, Invariance, PTL

\* At every point at which an interrupt can be taken the ready table, the
\* priority bitmap, the suspend lists, the timer list and the thread states agree.
THEOREM Consistent == Spec => []KernelConsistent
<1>1. SemInv => KernelConsistent
  BY DEF SemInv, IpcInv, KernelConsistent
<1> QED
  BY <1>1, Invariance, PTL

\* The suspend list of a semaphore holds exactly the threads that are suspended
\* in rt_sem_take on it.
THEOREM Listed == Spec => []WaitersListed
<1>1. SemInv => WaitersListed
  BY DEF SemInv, IpcInv
<1> QED
  BY <1>1, Invariance, PTL

\* No thread waits on a semaphore that has a unit: rt_sem_take tests the value
\* and suspends the caller in the window in which rt_sem_release cannot run.
THEOREM NoLoss == Spec => []NoLostWakeup
<1>1. SemInv => NoLostWakeup
  BY DEF SemInv
<1> QED
  BY <1>1, Invariance, PTL

-----------------------------------------------------------------------------
(* Units                                                                   *)

\* The threads that were handed a unit are finitely many, and the same after a
\* step that hands nothing over.
LEMMA GrantedFinite ==
    ASSUME NEW s \in Obj
    PROVE  IsFiniteSet(Granted(s)) /\ Cardinality(Granted(s)) \in Nat
<1>1. IsFiniteSet(Granted(s))
  BY KernelAssumption, FS_Subset DEF Granted
<1> QED
  BY <1>1, FS_CardinalityType

LEMMA GrantedIs ==
    ASSUME NEW s \in Obj
    PROVE  /\ Granted(s) = {t \in Thread : HandedOver(t, s)}
           /\ Granted(s)' = {t \in Thread : HandedOver(t, s)'}
BY DEF Granted, HandedOver

LEMMA GrantedSame ==
    ASSUME \A u \in Thread : \A o \in Obj : HandedOver(u, o)' <=> HandedOver(u, o)
    PROVE  \A s \in Obj : Granted(s)' = Granted(s)
BY GrantedIs

\* A step that hands nothing over conserves the units if value and units
\* change by the same amount.
LEMMA SteadyUnits ==
    ASSUME UnitsConserved, SemInv, SemInv',
           \A u \in Thread : \A o \in Obj : HandedOver(u, o)' <=> HandedOver(u, o),
           \A s \in Obj : value'[s] - value[s] = units'[s] - units[s]
    PROVE  UnitsConserved'
<1> SUFFICES ASSUME NEW s \in Obj
             PROVE  value'[s] + Cardinality(Granted(s)') = units'[s]
  BY DEF UnitsConserved
<1>1. Granted(s)' = Granted(s)
  BY GrantedSame
<1>2. /\ value[s] \in Int /\ value'[s] \in Int /\ units[s] \in Int /\ units'[s] \in Int
      /\ Cardinality(Granted(s)) \in Int
  BY GrantedFinite, SemaphoreAssumption DEF SemInv
<1>3. value[s] + Cardinality(Granted(s)) = units[s]
  BY DEF UnitsConserved
<1> QED
  BY <1>1, <1>2, <1>3

\* rt_sem_take returns: a thread that was handed a unit now has it.
LEMMA TakeReturnsUnits ==
    ASSUME UnitsConserved, SemInv, SemInv', PlainPc, NEW t \in Thread, TakeReturns(t)
    PROVE  UnitsConserved'
<1>1. IpcInv /\ units \in [Obj -> Int]
  BY DEF SemInv
<1>2. PICK r : r = pc[t].arg
  OBVIOUS
<1>3. /\ k.cur = t /\ pc[t].at = "take_ret" /\ k' = k /\ Goto(t, "run", t) /\ value' = value
      /\ units' = IF k.err[t] = "EOK" THEN [units EXCEPT ![r] = units[r] - 1] ELSE units
  BY <1>2 DEF TakeReturns, Is
<1>4. r \in Obj
  BY <1>2, <1>3 DEF PlainPc
<1>5. /\ \A u \in Thread : \A o \in Obj : HandedOver(u, o)' <=> HandedOver(u, o) /\ u # t
      /\ \A o \in Obj : HandedOver(t, o) <=> o = r /\ k.err[t] = "EOK"
  BY <1>1, <1>2, <1>3, TakeReturnsFrame
<1>6. ASSUME NEW s \in Obj
      PROVE  value'[s] + Cardinality(Granted(s)') = units'[s]
  <2>1. value[s] + Cardinality(Granted(s)) = units[s]
    BY DEF UnitsConserved
  <2>2. CASE s = r /\ k.err[t] = "EOK"
    <3>1. Granted(s)' = Granted(s) \ {t} /\ t \in Granted(s)
      BY <1>5, <2>2, GrantedIs
    <3>2. Cardinality(Granted(s)') = Cardinality(Granted(s)) - 1
      BY <3>1, GrantedFinite, FS_RemoveElement
    <3>3. units'[s] = units[s] - 1
      BY <1>1, <1>3, <2>2
    <3>4. /\ value[s] \in Int /\ units[s] \in Int /\ Cardinality(Granted(s)) \in Int
      BY GrantedFinite, SemaphoreAssumption DEF SemInv
    <3> QED
      BY <1>3, <2>1, <3>2, <3>3, <3>4
  <2>3. CASE ~(s = r /\ k.err[t] = "EOK")
    <3>1. Granted(s)' = Granted(s)
      BY <1>5, <2>3, GrantedIs
    <3>2. units'[s] = units[s]
      BY <1>1, <1>3, <1>4, <2>3
    <3> QED
      BY <1>3, <2>1, <3>1, <3>2
  <2> QED
    BY <2>2, <2>3
<1> QED
  BY <1>6 DEF UnitsConserved

\* A release: the unit goes to the first waiter, or to the value if nobody waits.
LEMMA ReleaseUnits ==
    ASSUME UnitsConserved, WaitersClean, SemInv, SemInv', MaxUnits < ValueMod,
           NEW r \in Obj, ReleaseCounts(r), SameTaking,
           \/ /\ k.q[r] # << >>
              /\ \/ k' = rt_ipc_list_resume(k, r)
                 \/ k' = rt_schedule(rt_ipc_list_resume(k, r))
           \/ k.q[r] = << >> /\ k' = k
    PROVE  UnitsConserved' /\ WaitersClean'
<1>1. /\ IpcInv /\ units \in [Obj -> Int] /\ value \in [Obj -> 0 .. ValueMod - 1]
      /\ ValueMod \in Nat /\ MaxUnits \in Nat
  BY SemaphoreAssumption DEF SemInv
<1>2. units[r] < MaxUnits /\ units' = [units EXCEPT ![r] = units[r] + 1]
  BY DEF ReleaseCounts
<1>3. CASE k.q[r] # << >>
  <2>1. value' = value
    BY <1>3 DEF ReleaseCounts
  <2>2. PICK w : w = Head(k.q[r])
    OBVIOUS
  <2>3. w \in Thread /\ Linked(k, w, r) /\ Undisturbed(k, k') /\ LosesWaiter(k, k', w)
    BY <1>1, <1>3, <2>2, ReleaseFrame
  <2>4. /\ \A u \in Thread : \A o \in Obj :
              HandedOver(u, o)' <=> HandedOver(u, o) \/ (u = w /\ o = r)
        /\ \A o \in Obj : ~HandedOver(w, o)
        /\ WaitersClean'
    BY <1>1, <2>3, ResumeHandsOver DEF Undisturbed
  <2>5. ASSUME NEW s \in Obj
        PROVE  value'[s] + Cardinality(Granted(s)') = units'[s]
    <3>1. value[s] + Cardinality(Granted(s)) = units[s]
      BY DEF UnitsConserved
    <3>2. CASE s = r
      <4>1. Granted(s)' = Granted(s) \cup {w} /\ w \notin Granted(s)
        BY <2>3, <2>4, <3>2, GrantedIs
      <4>2. Cardinality(Granted(s)') = Cardinality(Granted(s)) + 1
        BY <4>1, GrantedFinite, FS_AddElement
      <4>3. units'[s] = units[s] + 1
        BY <1>1, <1>2, <3>2
      <4>4. value[s] \in Int /\ units[s] \in Int /\ Cardinality(Granted(s)) \in Int
        BY <1>1, GrantedFinite
      <4> QED
        BY <2>1, <3>1, <4>2, <4>3, <4>4
    <3>3. CASE s # r
      <4>1. Granted(s)' = Granted(s)
        BY <2>4, <3>3, GrantedIs
      <4>2. units'[s] = units[s]
        BY <1>1, <1>2, <3>3
      <4> QED
        BY <2>1, <3>1, <4>1, <4>2
    <3> QED
      BY <3>2, <3>3
  <2> QED
    BY <2>4, <2>5 DEF UnitsConserved
<1>4. CASE k.q[r] = << >>
  <2>1. k' = k /\ value' = [value EXCEPT ![r] = (value[r] + 1) % ValueMod]
    BY <1>4 DEF ReleaseCounts
  <2>2. Undisturbed(k, k') /\ SameWaiters(k, k')
    BY <1>1, <2>1, SameFieldsQuiet, SameKernel
  <2>3. Steady
    BY <2>2, QuietSteady
  <2>4. value[r] + Cardinality(Granted(r)) = units[r] /\ Cardinality(Granted(r)) \in Nat
    BY GrantedFinite DEF UnitsConserved
  <2>5. value[r] \in Nat /\ units[r] \in Int
    BY <1>1
  <2>6. value[r] + 1 < ValueMod
    BY <1>1, <1>2, <2>4, <2>5
  <2>7. (value[r] + 1) % ValueMod = value[r] + 1
    <3>1. value[r] + 1 \in 0 .. ValueMod - 1
      BY <1>1, <2>5, <2>6
    <3> QED
      BY <1>1, <3>1, SmallMod
  <2>8. ASSUME NEW s \in Obj
        PROVE  value'[s] - value[s] = units'[s] - units[s]
    <3>1. value[s] \in Int /\ units[s] \in Int
      BY <1>1
    <3>2. CASE s = r
      <4>1. value'[s] = value[s] + 1 /\ units'[s] = units[s] + 1
        BY <1>1, <1>2, <2>1, <2>7, <3>2
      <4> QED
        BY <3>1, <4>1
    <3>3. CASE s # r
      <4>1. value'[s] = value[s] /\ units'[s] = units[s]
        BY <1>1, <1>2, <2>1, <3>3
      <4> QED
        BY <3>1, <4>1
    <3> QED
      BY <3>2, <3>3
  <2> QED
    BY <2>3, <2>8, SteadyUnits DEF Steady
<1> QED
  BY <1>3, <1>4

\* rt_sem_control resumes one waiter, with an error: no unit is handed to it.
LEMMA ResetWakeSteady ==
    ASSUME IpcInv, NEW t \in Thread, ResetWake(t)
    PROVE  Steady
<1>1. Good(k, {})
  BY IpcInvGood
<1>2. PICK o : o = pc[t].arg
  OBVIOUS
<1>3. pc[t].at = "reset_loop" /\ k.q[o] # << >> /\ k' = ResumeOneWithError(k, o) /\ pc' = pc
  BY <1>2 DEF ResetWake
<1>4. o \in Obj
  BY <1>2, <1>3 DEF IpcInv, ArgIsObject
<1>5. PICK w : w = Head(k.q[o])
  OBVIOUS
<1>6. PICK e : e = SetErr(k, w, "ERROR")
  OBVIOUS
<1>7. LosesWaiter(k, k', w) /\ w \in Thread
  BY <1>1, <1>3, <1>4, <1>5, <1>6, ResumeOneGood
<1>8. Marks(k, k', w, "ERROR")
  BY <1>1, <1>3, <1>4, <1>5, ResumeOneMarks
<1>9. k.stat[w] = "SUSPEND"
  BY <1>1, <1>3, <1>4, <1>5, HeadSuspended
<1>10. SameTaking
  BY <1>3 DEF SameTaking, Taking
<1> QED
  BY <1>1, <1>7, <1>8, <1>9, <1>10, MarksSteady

\* The units of every semaphore are accounted for, one step further.
LEMMA UnitsStep ==
    ASSUME SemInv, SemInv', PlainPc, WaitersClean, UnitsConserved, MaxUnits < ValueMod,
           [Next]_vars
    PROVE  WaitersClean' /\ UnitsConserved'
<1>0. /\ IpcInv /\ User \subseteq Thread
      /\ units \in [Obj -> Int] /\ value \in [Obj -> 0 .. ValueMod - 1]
  BY DEF SemInv, User
<1>1. ASSUME Steady, UNCHANGED <<value, units>>
      PROVE  WaitersClean' /\ UnitsConserved'
  <2>1. \A s \in Obj : value'[s] - value[s] = units'[s] - units[s]
    <3>1. \A s \in Obj : value[s] \in Int /\ units[s] \in Int
      BY <1>0, SemaphoreAssumption
    <3> QED
      BY <1>1, <3>1
  <2> QED
    BY <1>1, <2>1, SteadyUnits DEF Steady
<1>2. CASE IpcStep(Obj) /\ UNCHANGED <<value, units>>
  BY <1>0, <1>1, <1>2, IpcStepSteady
<1>3. ASSUME NEW s \in Obj, IsrRelease(s)
      PROVE  WaitersClean' /\ UnitsConserved'
  <2>1. /\ ReleaseCounts(s) /\ pc' = pc
        /\ \/ k.q[s] # << >> /\ k' = rt_schedule(rt_ipc_list_resume(k, s))
           \/ k.q[s] = << >> /\ k' = k
    BY <1>3 DEF IsrRelease
  <2>2. SameTaking
    BY <2>1 DEF SameTaking, Taking
  <2> QED
    BY <2>1, <2>2, ReleaseUnits
<1>4. ASSUME NEW t \in User, NEW s \in Obj, Release(t, s)
      PROVE  WaitersClean' /\ UnitsConserved'
  <2>1. /\ ReleaseCounts(s) /\ pc[t].at = "run"
        /\ \/ k.q[s] # << >> /\ k' = rt_ipc_list_resume(k, s) /\ Goto(t, "sched", t)
           \/ k.q[s] = << >> /\ k' = k /\ pc' = pc
    BY <1>4 DEF Release, CallsOn, Calls, Is
  <2>2. SameTaking
    <3>1. CASE pc' = pc
      BY <3>1 DEF SameTaking, Taking
    <3>2. CASE Goto(t, "sched", t)
      <4>1. pc'[t].at = "sched" /\ \A u \in Thread \ {t} : pc'[u] = pc[u]
        BY <1>0, <3>2, GotoPc
      <4> QED
        BY <2>1, <4>1 DEF SameTaking, Taking
    <3> QED
      BY <2>1, <3>1, <3>2
  <2> QED
    BY <2>1, <2>2, ReleaseUnits
<1>5. ASSUME NEW t \in User, TakeReturns(t)
      PROVE  WaitersClean' /\ UnitsConserved'
  <2>1. WaitersClean'
    BY <1>0, <1>5, TakeReturnsFrame DEF TakeReturns, Is
  <2> QED
    BY <1>0, <1>5, <2>1, TakeReturnsUnits
<1>6. ASSUME NEW t \in User, NEW s \in Obj, TakeAvailable(t, s)
      PROVE  WaitersClean' /\ UnitsConserved'
  <2>1. /\ value' = [value EXCEPT ![s] = value[s] - 1]
        /\ units' = [units EXCEPT ![s] = units[s] - 1] /\ k' = k /\ pc' = pc
    BY <1>6 DEF TakeAvailable
  <2>2. Steady
    BY <1>0, <2>1, SameStateSteady
  <2>3. \A o \in Obj : value[o] \in Int /\ units[o] \in Int
    BY <1>0, SemaphoreAssumption
  <2>4. \A o \in Obj : value'[o] - value[o] = units'[o] - units[o]
    BY <1>0, <2>1, <2>3
  <2> QED
    BY <2>2, <2>4, SteadyUnits DEF Steady
<1>7. ASSUME NEW t \in User, NEW s \in Obj, NEW time \in Times, TakeBlocks(t, s, time)
      PROVE  WaitersClean' /\ UnitsConserved'
  <2>1. /\ \A u \in Thread : \A o \in Obj : HandedOver(u, o)' <=> HandedOver(u, o)
        /\ WaitersClean'
    BY <1>7, TakeBlocksFrame
  <2>2. \A o \in Obj : value[o] \in Int /\ units[o] \in Int
    BY <1>0, SemaphoreAssumption
  <2>3. \A o \in Obj : value'[o] - value[o] = units'[o] - units[o]
    BY <1>7, <2>2 DEF TakeBlocks
  <2> QED
    BY <2>1, <2>3, SteadyUnits
<1>8. ASSUME NEW t \in User, NEW s \in Obj, Reset(t, s)
      PROVE  WaitersClean' /\ UnitsConserved'
  <2>1. /\ k' = k /\ pc[t].at = "run" /\ Goto(t, "reset_loop", s)
        /\ UNCHANGED <<value, units>>
    BY <1>8 DEF Reset, CallsOn, Calls, Is
  <2>2. Steady
    BY <1>0, <2>1, SameKernelSteady
  <2> QED
    BY <1>1, <2>1, <2>2
<1>9. ASSUME NEW t \in User, ResetWake(t)
      PROVE  WaitersClean' /\ UnitsConserved'
  BY <1>0, <1>1, <1>9, ResetWakeSteady DEF ResetWake
<1>10. ASSUME NEW t \in User, NEW v \in 0 .. ValueMod - 1, ResetValue(t, v)
       PROVE  WaitersClean' /\ UnitsConserved'
  <2>0. PICK s : s = pc[t].arg
    OBVIOUS
  <2>1. /\ k' = k /\ pc[t].at = "reset_loop" /\ Goto(t, "sched", t)
        /\ value' = [value EXCEPT ![s] = v]
        /\ units' = [units EXCEPT ![s] = units[s] - value[s] + v]
    BY <1>10, <2>0 DEF ResetValue
  <2>2. Steady
    BY <1>0, <2>1, SameKernelSteady
  <2>3. \A o \in Obj : value[o] \in Int /\ units[o] \in Int /\ v \in Int
    BY <1>0, SemaphoreAssumption
  <2>4. \A o \in Obj : value'[o] - value[o] = units'[o] - units[o]
    BY <1>0, <2>1, <2>3
  <2> QED
    BY <2>2, <2>4, SteadyUnits DEF Steady
<1>11. CASE UNCHANGED vars
  BY <1>0, <1>1, <1>11, SameStateSteady DEF vars
<1> QED
  BY <1>2, <1>3, <1>4, <1>5, <1>6, <1>7, <1>8, <1>9, <1>10, <1>11 DEF Next

\* No unit of a semaphore is lost or made up, as long as fewer units are out
\* than sem->value can count: rt_sem_release hands a unit to a waiter or counts
\* it, never both, whatever the order of releases, timeouts and resets.
THEOREM Conserved ==
    ASSUME MaxUnits < ValueMod
    PROVE  Spec => []UnitsConserved
<1>1. Init => WaitersClean /\ UnitsConserved
  <2> SUFFICES ASSUME Init PROVE WaitersClean /\ UnitsConserved
    OBVIOUS
  <2>1. WaitersClean /\ \A t \in Thread : \A o \in Obj : ~Taking(t, o)
    BY IpcInitOrder DEF Init
  <2>2. \A s \in Obj : Granted(s) = {}
    BY <2>1 DEF Granted
  <2>3. \A s \in Obj : value[s] = InitValue /\ units[s] = InitValue /\ InitValue \in Int
    BY SemaphoreAssumption DEF Init
  <2>4. Cardinality({}) = 0
    BY FS_EmptySet
  <2>5. UnitsConserved
    BY <2>2, <2>3, <2>4 DEF UnitsConserved
  <2> QED
    BY <2>1, <2>5
<1>2. /\ SemInv /\ SemInv' /\ PlainPc /\ WaitersClean /\ UnitsConserved /\ [Next]_vars
      => WaitersClean' /\ UnitsConserved'
  BY UnitsStep
<1> QED
  BY <1>1, <1>2, Invariance, PTL DEF Spec

-----------------------------------------------------------------------------
(* Order, preemption and deletion                                          *)

\* What the operations of the semaphore itself do to the lists and the call points
SemStep ==
    \/ \E s \in Obj : IsrRelease(s)
    \/ \E t \in User :
        \/ TakeReturns(t)
        \/ \E s \in Obj :
            \/ TakeAvailable(t, s) \/ Release(t, s)
            \/ \E time \in Times : TakeBlocks(t, s, time)
            \/ Reset(t, s)
        \/ ResetWake(t)
        \/ \E v \in 0 .. ValueMod - 1 : ResetValue(t, v)

LEMMA NextIs == Next <=> SemStep \/ (IpcStep(Obj) /\ UNCHANGED <<value, units>>)
BY DEF Next, SemStep

\* A release, from a thread or from a handler
LEMMA ReleaseCases ==
    ASSUME SemInv, NEW s \in Obj,
           IsrRelease(s) \/ \E t \in User : Release(t, s)
    PROVE  \/ k' = k
           \/ /\ k.q[s] # << >>
              /\ \/ k' = rt_ipc_list_resume(k, s)
                 \/ k' = rt_schedule(rt_ipc_list_resume(k, s))
BY DEF IsrRelease, Release

\* The operations of the semaphore keep the order of the waiters.
LEMMA SemStepOrder ==
    ASSUME SemInv, MostUrgentFirst, SemStep
    PROVE  MostUrgentFirst'
<1>0. IpcInv /\ User \subseteq Thread
  BY DEF SemInv, User
<1>1. CASE k' = k
  BY <1>1 DEF MostUrgentFirst
<1>2. ASSUME NEW s \in Obj, IsrRelease(s) \/ \E t \in User : Release(t, s)
      PROVE  MostUrgentFirst'
  <2>1. CASE /\ k.q[s] # << >>
             /\ \/ k' = rt_ipc_list_resume(k, s)
                \/ k' = rt_schedule(rt_ipc_list_resume(k, s))
    <3>1. PICK w : w = Head(k.q[s])
      OBVIOUS
    <3>2. Undisturbed(k, k')
      BY <1>0, <2>1, <3>1, ReleaseFrame
    <3> QED
      BY <3>2, OrderMostUrgent DEF Undisturbed
  <2> QED
    BY <1>1, <1>2, <2>1, ReleaseCases
<1>3. ASSUME NEW t \in User, NEW s \in Obj, NEW time \in Times, TakeBlocks(t, s, time)
      PROVE  MostUrgentFirst'
  BY <1>3, TakeBlocksFrame
<1>4. ASSUME NEW t \in User, ResetWake(t) PROVE MostUrgentFirst'
  <2>1. Good(k, {})
    BY <1>0, IpcInvGood
  <2>2. PICK o : o = pc[t].arg
    OBVIOUS
  <2>3. pc[t].at = "reset_loop" /\ k.q[o] # << >> /\ k' = ResumeOneWithError(k, o)
    BY <1>4, <2>2 DEF ResetWake
  <2>4. o \in Obj
    BY <1>0, <2>2, <2>3 DEF IpcInv, ArgIsObject
  <2>5. PICK w : w = Head(k.q[o])
    OBVIOUS
  <2>6. Marks(k, k', w, "ERROR")
    BY <2>1, <2>3, <2>4, <2>5, ResumeOneMarks
  <2> QED
    BY <2>6, OrderMostUrgent DEF Marks
<1> QED
  BY <1>1, <1>2, <1>3, <1>4 DEF SemStep, TakeReturns, TakeAvailable, Reset, ResetValue

\* If the application changes no priorities, a semaphore of flag PRIO is handed
\* to the most urgent of its waiters: rt_ipc_list_suspend keeps the list sorted
\* and no other operation disturbs its order.
THEOREM UrgentFirst ==
    ASSUME "control" \notin Ops
    PROVE  Spec => []MostUrgentFirst
<1>1. Init => MostUrgentFirst
  BY IpcInitOrder DEF Init
<1>2. SemInv /\ MostUrgentFirst /\ [Next]_vars => MostUrgentFirst'
  <2> SUFFICES ASSUME SemInv, MostUrgentFirst, [Next]_vars PROVE MostUrgentFirst'
    OBVIOUS
  <2>1. CASE IpcStep(Obj)
    BY <2>1, IpcStepSteady, OrderMostUrgent DEF Steady, SemInv
  <2>2. CASE UNCHANGED vars
    BY <2>2 DEF vars, MostUrgentFirst
  <2> QED
    BY <2>1, <2>2, NextIs, SemStepOrder
<1> QED
  BY <1>1, <1>2, Invariance, PTL DEF Spec

-----------------------------------------------------------------------------

\* The operations of the semaphore wake the waiters of deleted objects only in
\* the loop of a delete.
LEMMA SemStepPc ==
    ASSUME SemInv, SemStep
    PROVE  /\ dead' = dead /\ fault' = fault
           /\ \A u \in Thread : \A o \in Obj : /\ Waking(u, o)' <=> Waking(u, o)
                                               /\ pc'[u].at = "wake_one" => pc'[u] = pc[u]
<1>0. IpcInv /\ User \subseteq Thread
  BY DEF SemInv, User
<1>1. dead' = dead /\ fault' = fault
  BY DEF SemStep, IsrRelease, TakeReturns, TakeAvailable, Release, TakeBlocks, Reset,
         ResetWake, ResetValue
<1>2. \/ pc' = pc
      \/ \E t \in User : /\ pc[t].at \in {"run", "take_ret", "reset_loop"}
                         /\ \/ Goto(t, "run", t) \/ Goto(t, "sched", t)
                            \/ \E s \in Obj : Goto(t, "take_sched", s) \/ Goto(t, "reset_loop", s)
  BY DEF SemStep, IsrRelease, TakeReturns, TakeAvailable, Release, TakeBlocks, Reset,
         ResetWake, ResetValue, CallsOn, Calls, Is
<1>3. CASE pc' = pc
  BY <1>1, <1>3 DEF Waking
<1>4. ASSUME NEW t \in User, NEW at \in {"run", "sched", "take_sched", "reset_loop"}, NEW arg,
             pc[t].at \in {"run", "take_ret", "reset_loop"}, Goto(t, at, arg)
      PROVE  \A u \in Thread : \A o \in Obj : /\ Waking(u, o)' <=> Waking(u, o)
                                              /\ pc'[u].at = "wake_one" => pc'[u] = pc[u]
  BY <1>0, <1>4, GotoWaking
<1> QED
  BY <1>1, <1>2, <1>3, <1>4

\* The operations of the semaphore keep preemption full: whoever makes a thread
\* ready calls rt_schedule before anything else.
LEMMA SemStepPrompt ==
    ASSUME SemInv, PlainPc, Prompt, SemStep
    PROVE  Prompt'
<1>0. /\ IpcInv /\ User \subseteq Thread /\ Good(k, {}) /\ k.lock = 0
      /\ dead' = dead
  BY IpcInvGood, SemStepPc, PlainType DEF SemInv, User
<1>1. ASSUME k' = k, isr # "masked", pc' = pc \/ pc[k.cur].at \notin DOMAIN After
      PROVE  Prompt'
  BY <1>0, <1>1, SamePrompt
<1>2. ASSUME NEW t \in User, NEW at \in DOMAIN After, NEW arg,
             k.cur = t, k'.cur = k.cur, Goto(t, at, arg)
      PROVE  Prompt'
  BY <1>0, <1>2, GotoPc DEF Prompt
<1>3. ASSUME NEW s \in Obj, IsrRelease(s) PROVE Prompt'
  <2>1. CASE k.q[s] = << >>
    BY <1>1, <1>3, <2>1 DEF IsrRelease
  <2>2. CASE k.q[s] # << >>
    <3>1. PICK w : w = Head(k.q[s])
      OBVIOUS
    <3>2. PICK m : m = rt_ipc_list_resume(k, s)
      OBVIOUS
    <3>3. /\ Good(m, {}) /\ LosesWaiter(k, m, w) /\ m.lock = k.lock
      BY <1>0, <2>2, <3>1, <3>2, ListResumeGood
    <3>4. k' = rt_schedule(m)
      BY <1>3, <2>2, <3>2 DEF IsrRelease
    <3>5. Urgent(k', {})
      BY <1>0, <3>3, <3>4, ScheduleUrgent
    <3> QED
      BY <3>5 DEF Prompt
  <2> QED
    BY <2>1, <2>2
<1>4. ASSUME NEW t \in User, NEW s \in Obj, Release(t, s) PROVE Prompt'
  <2>1. k.cur = t /\ isr # "masked"
    BY <1>4 DEF Release, CallsOn, Calls, Is
  <2>2. CASE k.q[s] = << >>
    BY <1>1, <1>4, <2>1, <2>2 DEF Release
  <2>3. CASE k.q[s] # << >>
    <3>1. PICK w : w = Head(k.q[s])
      OBVIOUS
    <3>2. k' = rt_ipc_list_resume(k, s) /\ Goto(t, "sched", t)
      BY <1>4, <2>3 DEF Release
    <3>3. /\ Good(k', {}) /\ LosesWaiter(k, k', w) /\ SameRunner(k, k')
      BY <1>0, <2>3, <3>1, <3>2, ListResumeGood
    <3> QED
      BY <1>2, <2>1, <3>2, <3>3 DEF SameRunner, After
  <2> QED
    BY <2>2, <2>3
<1>5. ASSUME NEW t \in User, TakeReturns(t) PROVE Prompt'
  BY <1>1, <1>5 DEF TakeReturns, Is, After
<1>6. ASSUME NEW t \in User, NEW s \in Obj, TakeAvailable(t, s) PROVE Prompt'
  BY <1>1, <1>6 DEF TakeAvailable, CallsOn, Calls, Is
<1>7. ASSUME NEW t \in User, NEW s \in Obj, NEW time \in Times, TakeBlocks(t, s, time)
      PROVE Prompt'
  <2>1. Goto(t, "take_sched", s)
    BY <1>7 DEF TakeBlocks
  <2>2. k.cur = t /\ k'.cur = k.cur
    BY <1>7, TakeBlocksFrame
  <2> QED
    BY <1>2, <2>1, <2>2 DEF After
<1>8. ASSUME NEW t \in User, NEW s \in Obj, Reset(t, s) PROVE Prompt'
  BY <1>8 DEF Reset, Prompt
<1>9. ASSUME NEW t \in User, ResetWake(t) PROVE Prompt'
  BY <1>9 DEF ResetWake, Prompt
<1>10. ASSUME NEW t \in User, NEW v \in 0 .. ValueMod - 1, ResetValue(t, v) PROVE Prompt'
  BY <1>2, <1>10 DEF ResetValue, After
<1> QED
  BY <1>3, <1>4, <1>5, <1>6, <1>7, <1>8, <1>9, <1>10 DEF SemStep

\* As long as no semaphore is deleted and the application changes no priorities,
\* preemption is full: a release from a thread or from a handler, a timeout and a
\* reset let the most urgent thread run at once.
THEOREM FullPreemption ==
    ASSUME "control" \notin Ops
    PROVE  Spec => []PreemptiveWhileAlive
<1>1. Init => Prompt /\ WakersDelete
  BY IpcInitOrder DEF Init, WakesAll
<1>2. SemInv /\ PlainPc /\ Prompt /\ WakersDelete /\ [Next]_vars => Prompt' /\ WakersDelete'
  <2> SUFFICES ASSUME SemInv, PlainPc, Prompt, WakersDelete, [Next]_vars
               PROVE  Prompt' /\ WakersDelete'
    OBVIOUS
  <2>1. CASE IpcStep(Obj)
    <3>1. OneListEach /\ IpcInv /\ k.lock = 0
      BY SemaphoreAssumption, PlainType DEF OneListEach, SemInv
    <3> QED
      BY <2>1, <3>1, IpcStepPrompt, IpcStepWakers
  <2>2. CASE SemStep
    <3>1. WakersDelete'
      BY <2>2, SemStepPc DEF WakersDelete
    <3> QED
      BY <2>2, <3>1, SemStepPrompt
  <2>3. CASE UNCHANGED vars
    BY <2>3 DEF vars, Prompt, WakersDelete, Waking
  <2> QED
    BY <2>1, <2>2, <2>3, NextIs
<1>3. SemInv /\ Prompt => PreemptiveWhileAlive
  BY DEF Prompt, PreemptiveWhileAlive, Preemptive, Urgent
<1> QED
  BY <1>1, <1>2, <1>3, Invariance, PTL DEF Spec

-----------------------------------------------------------------------------

\* The operations of the semaphore leave the waiters of deleted semaphores alone.
LEMMA SemStepWaiters ==
    ASSUME SemInv, WakesAll, SemStep
    PROVE  \A o \in dead : \A u \in Thread :
                /\ Linked(k', u, o) <=> Linked(k, u, o)
                /\ Linked(k', u, o) /\ Armed(k', u) => Armed(k, u)
<1>0. /\ IpcInv /\ User \subseteq Thread /\ Good(k, {}) /\ dead \subseteq Obj
  BY IpcInvGood DEF SemInv, User
<1> DEFINE Goal == \A o \in dead : \A u \in Thread :
                      /\ Linked(k', u, o) <=> Linked(k, u, o)
                      /\ Linked(k', u, o) /\ Armed(k', u) => Armed(k, u)
<1>1. CASE k' = k
  BY <1>1
<1>2. ASSUME NEW s \in Obj, s \notin dead, NEW w \in Thread, Linked(k, w, s),
             LosesWaiter(k, k', w), \A u \in Thread : Armed(k', u) => Armed(k, u)
      PROVE  Goal
  <2>1. \A o \in dead : ~Linked(k, w, o)
    BY <1>0, <1>2 DEF Good, Flat, Lists
  <2> QED
    BY <1>0, <1>2, <2>1 DEF LosesWaiter
<1>3. ASSUME NEW s \in Obj, IsrRelease(s) \/ \E t \in User : Release(t, s)
      PROVE  Goal
  <2>1. s \notin dead
    BY <1>3 DEF IsrRelease, Release, CallsOn
  <2>2. CASE /\ k.q[s] # << >>
             /\ \/ k' = rt_ipc_list_resume(k, s)
                \/ k' = rt_schedule(rt_ipc_list_resume(k, s))
    <3>1. PICK w : w = Head(k.q[s])
      OBVIOUS
    <3>2. w \in Thread /\ Linked(k, w, s) /\ Undisturbed(k, k') /\ LosesWaiter(k, k', w)
      BY <1>0, <2>2, <3>1, ReleaseFrame
    <3> QED
      BY <1>2, <2>1, <3>2 DEF Undisturbed
  <2> QED
    BY <1>1, <1>3, <2>2, ReleaseCases
<1>4. ASSUME NEW t \in User, NEW s \in Obj, NEW time \in Times, TakeBlocks(t, s, time)
      PROVE  Goal
  <2>1. s \notin dead
    BY <1>4 DEF TakeBlocks, CallsOn
  <2>2. /\ \A u \in Thread : \A o \in Obj :
              Linked(k', u, o) <=> Linked(k, u, o) \/ (u = t /\ o = s)
        /\ \A o \in Obj : ~Linked(k, t, o)
        /\ \A u \in Thread : Armed(k', u) => Armed(k, u) \/ u = t
    BY <1>4, TakeBlocksFrame
  <2> QED
    BY <1>0, <2>1, <2>2
<1>5. ASSUME NEW t \in User, ResetWake(t) PROVE Goal
  <2>1. PICK s : s = pc[t].arg
    OBVIOUS
  <2>2. pc[t].at = "reset_loop" /\ k.q[s] # << >> /\ k' = ResumeOneWithError(k, s)
    BY <1>5, <2>1 DEF ResetWake
  <2>3. s \in Obj /\ s \notin dead
    BY <1>0, <2>1, <2>2 DEF IpcInv, ArgIsObject, WakesAll, ResetMasked
  <2>4. PICK w : w = Head(k.q[s])
    OBVIOUS
  <2>5. PICK e : e = SetErr(k, w, "ERROR")
    OBVIOUS
  <2>6. LosesWaiter(k, k', w) /\ w \in Thread /\ Linked(k, w, s)
    BY <1>0, <2>2, <2>3, <2>4, <2>5, ResumeOneGood
  <2>7. Marks(k, k', w, "ERROR")
    BY <1>0, <2>2, <2>3, <2>4, ResumeOneMarks
  <2> QED
    BY <1>2, <2>3, <2>6, <2>7 DEF Marks
<1> QED
  BY <1>1, <1>3, <1>4, <1>5 DEF SemStep, TakeReturns, TakeAvailable, Reset, ResetValue

\* A reset starts with interrupts disabled and leaves them disabled until it ends.
LEMMA SemStepReset ==
    ASSUME SemInv, WakesAll, SemStep
    PROVE  ResetMasked'
<1>0. IpcInv /\ User \subseteq Thread /\ Good(k, {}) /\ dead' = dead
  BY IpcInvGood, SemStepPc DEF SemInv, User
<1>1. ASSUME NEW t \in User, NEW s \in Obj, Reset(t, s) PROVE ResetMasked'
  <2>1. /\ isr = "none" /\ isr' = "masked" /\ k.cur = t /\ k' = k /\ s \notin dead
        /\ Goto(t, "reset_loop", s)
    BY <1>1 DEF Reset, CallsOn, Calls, Is
  <2>2. \A u \in Thread : pc[u].at # "reset_loop"
    BY <2>1 DEF WakesAll, ResetMasked
  <2>3. pc'[t].arg = s /\ \A u \in Thread \ {t} : pc'[u] = pc[u]
    BY <1>0, <2>1, GotoPc
  <2> QED
    BY <1>0, <2>1, <2>2, <2>3 DEF ResetMasked
<1>2. ASSUME NEW t \in User, ResetWake(t) PROVE ResetMasked'
  <2>1. PICK s : s = pc[t].arg
    OBVIOUS
  <2>2. /\ pc[t].at = "reset_loop" /\ k.q[s] # << >> /\ k' = ResumeOneWithError(k, s)
        /\ pc' = pc /\ isr' = isr
    BY <1>2, <2>1 DEF ResetWake
  <2>3. s \in Obj
    BY <1>0, <2>1, <2>2 DEF IpcInv, ArgIsObject
  <2>4. PICK w : w = Head(k.q[s])
    OBVIOUS
  <2>5. PICK e : e = SetErr(k, w, "ERROR")
    OBVIOUS
  <2>6. Good(k', {}) /\ LosesWaiter(k, k', w) /\ SameRunner(k, k')
    BY <1>0, <2>2, <2>3, <2>4, <2>5, ResumeOneGood
  <2> QED
    BY <1>0, <2>2, <2>6 DEF SameRunner, WakesAll, ResetMasked
<1>3. ASSUME NEW t \in User, NEW v \in 0 .. ValueMod - 1, ResetValue(t, v) PROVE ResetMasked'
  <2>1. k.cur = t /\ Goto(t, "sched", t)
    BY <1>3 DEF ResetValue
  <2>2. \A u \in Thread \ {t} : pc[u].at # "reset_loop"
    BY <2>1 DEF WakesAll, ResetMasked
  <2>3. pc'[t].at = "sched" /\ \A u \in Thread \ {t} : pc'[u] = pc[u]
    BY <1>0, <2>1, GotoPc
  <2> QED
    BY <2>2, <2>3 DEF ResetMasked
<1>4. ASSUME \/ \E s \in Obj : IsrRelease(s)
             \/ \E t \in User : \/ TakeReturns(t)
                                \/ \E s \in Obj :
                                      \/ TakeAvailable(t, s) \/ Release(t, s)
                                      \/ \E time \in Times : TakeBlocks(t, s, time)
      PROVE  ResetMasked'
  <2>1. isr # "masked"
    BY <1>4 DEF IsrRelease, TakeReturns, TakeAvailable, Release, TakeBlocks, CallsOn, Calls, Is
  <2>2. \/ pc' = pc
        \/ \E t \in User : \/ Goto(t, "run", t) \/ Goto(t, "sched", t)
                           \/ \E s \in Obj : Goto(t, "take_sched", s)
    BY <1>4 DEF IsrRelease, TakeReturns, TakeAvailable, Release, TakeBlocks
  <2>3. {"run", "sched", "take_sched"} \subseteq PcPoint \ {"reset_loop"}
    BY DEF PcPoint
  <2> QED
    BY <1>0, <2>1, <2>2, <2>3, NoReset
<1> QED
  BY <1>1, <1>2, <1>3, <1>4 DEF SemStep

\* If nobody waits with a time limit on a semaphore that is being deleted, a
\* delete resumes every waiter and nothing else, although interrupts are enabled
\* between the test for an empty list and the removal of its first thread.
THEOREM DeleteComplete ==
    ASSUME "delete_timed" \notin Ops
    PROVE  Spec => []DeleteWakesAll
<1>0. OneListEach
  BY SemaphoreAssumption DEF OneListEach
<1>1. Init => WakesAll
  BY IpcInitOrder DEF Init
<1>2. SemInv /\ SemInv' /\ WakesAll /\ [Next]_vars => WakesAll'
  <2> SUFFICES ASSUME SemInv, SemInv', WakesAll, [Next]_vars PROVE WakesAll'
    OBVIOUS
  <2>0. IpcInv /\ IpcInv'
    BY DEF SemInv
  <2>1. CASE IpcStep(Obj)
    BY <1>0, <2>0, <2>1, IpcStepWakes
  <2>2. CASE SemStep
    BY <2>0, <2>2, SemStepPc, SemStepWaiters, SemStepReset, WakesAllKept
  <2>3. CASE UNCHANGED vars
    BY <2>3 DEF vars, WakesAll, WakersDelete, OneWaker, DeadUntimed, WakerFinds, StillWoken,
                ResetMasked, Waking
  <2> QED
    BY <2>1, <2>2, <2>3, NextIs
<1>3. SemInv /\ WakesAll => DeleteWakesAll
  BY <1>0, WakesAllSpec DEF SemInv
<1> QED
  BY <1>1, <1>2, <1>3, Invariance, PTL DEF Spec
=============================================================================
