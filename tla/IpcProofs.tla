------------------------------ MODULE IpcProofs ------------------------------
(***************************************************************************)
(* The steps that the models of the IPC objects share keep the kernel      *)
(* state consistent and the suspend lists complete.                        *)
(***************************************************************************)
EXTENDS Ipc, KernelProofs

\* The current thread is running, except between the moment it suspends itself
\* in a blocking call and that call's rt_schedule.
CurrentRuns(x, at) == x.stat[x.cur] # "RUNNING" => at \in {"sleep_sched", "take_sched"}

\* The calls that remember an object remember one that exists.
ArgIsObject(p) ==
    p.at \in {"wake_check", "wake_one", "reset_loop", "mp_check", "mp_wake", "dq_check", "dq_wake"}
        => p.arg \in Obj

\* Thread t is in rt_data_queue_reset, with the scheduler locked.
InReset(t) == pc[t].at \in {"dq_check", "dq_wake"}

\* The scheduler is locked by the current thread, in such a reset, or not at all.
LockHeld ==
    /\ \A t \in Thread : InReset(t) => t = k.cur
    /\ k.lock = IF InReset(k.cur) THEN 1 ELSE 0

\* What every step preserves, whatever the object is.  KernelConsistent alone
\* is not inductive: that a call of rt_schedule by a suspended thread finds
\* another one needs the scheduler unlocked, and that a thread which starts a
\* blocking call is on no list needs it to be RUNNING.
IpcInv ==
    /\ k \in Kstate /\ isr \in Isr /\ dead \subseteq Obj /\ fault \in BOOLEAN
    /\ DOMAIN pc = Thread
    /\ KernelOK(k, {})
    /\ LockHeld
    /\ CurrentRuns(k, pc[k.cur].at)
    /\ \A t \in Thread : ArgIsObject(pc[t])
    /\ WaitersListed

\* No thread is put on a suspend list.
NoNewWaiter(x, y) == \A u \in Thread : \A o \in Obj : Linked(y, u, o) => Linked(x, u, o)

\* The same invariant in the terms of the lemmas of KernelProofs.
LEMMA IpcInvGood ==
    ASSUME IpcInv
    PROVE  /\ Good(k, {})
           /\ k.cur \in Thread /\ k.stat \in [Thread -> Stat]
           /\ isr \in Isr /\ dead \subseteq Obj /\ fault \in BOOLEAN
           /\ k.stat[k.cur] # "RUNNING" => pc[k.cur].at \in {"sleep_sched", "take_sched"}
           /\ \A u \in Thread : \A o \in Obj :
                Linked(k, u, o) <=> Taking(u, o) /\ k.stat[u] = "SUSPEND"
<1>1. /\ k \in Kstate /\ KernelOK(k, {}) /\ WaitersListed
      /\ isr \in Isr /\ dead \subseteq Obj /\ fault \in BOOLEAN
  BY DEF IpcInv
<1>2. Flat(k, {})
  BY <1>1, FlatIff
<1>3. k.cur \in Thread /\ k.stat \in [Thread -> Stat]
  BY <1>1 DEF Kstate
<1>4. k.stat[k.cur] # "RUNNING" => pc[k.cur].at \in {"sleep_sched", "take_sched"}
  BY DEF IpcInv, CurrentRuns
<1> QED
  BY <1>1, <1>2, <1>3, <1>4 DEF Good, WaitersListed

\* Outside a reset the current thread finds the scheduler unlocked.
LEMMA Unlocked ==
    ASSUME IpcInv, pc[k.cur].at \notin {"dq_check", "dq_wake"}
    PROVE  k.lock = 0 /\ \A u \in Thread : ~InReset(u)
BY DEF IpcInv, LockHeld, InReset

\* Where the step of a thread leads the thread, and that it leaves the others
\* where they are.
LEMMA GotoAll ==
    ASSUME IpcInv, NEW t \in Thread, NEW at, NEW arg, Goto(t, at, arg)
    PROVE  /\ DOMAIN pc' = Thread
           /\ \A u \in Thread : pc'[u] = IF u = t THEN [at |-> at, arg |-> arg] ELSE pc[u]
BY DEF IpcInv, Goto
LEMMA GotoPc ==
    ASSUME IpcInv, NEW t \in Thread, NEW at, NEW arg, Goto(t, at, arg)
    PROVE  /\ pc'[t].at = at /\ pc'[t].arg = arg
           /\ \A u \in Thread \ {t} : pc'[u] = pc[u]
<1>1. \A u \in Thread : pc'[u] = IF u = t THEN [at |-> at, arg |-> arg] ELSE pc[u]
  BY GotoAll
<1>2. pc'[t] = [at |-> at, arg |-> arg]
  BY <1>1
<1>3. pc'[t].at = at /\ pc'[t].arg = arg
  BY <1>2
<1> QED
  BY <1>1, <1>3

\* What % leaves alone
LEMMA SmallMod ==
    ASSUME NEW m \in Nat, NEW n \in 0 .. m - 1
    PROVE  n % m = n
OBVIOUS

\* A list without waiters is empty.
LEMMA EmptyIff ==
    ASSUME NEW x, Good(x, {}), NEW s \in Obj
    PROVE  x.q[s] = << >> <=> \A u \in Thread : ~Linked(x, u, s)
<1>1. x \in Kstate /\ s \in Lists
  BY DEF Good, Lists
<1> QED
  BY <1>1, NonEmpty

\* The threads of W leave the suspend lists and are not suspended any more.
LosesAll(x, y, W) ==
    /\ \A u \in Thread : \A o \in Obj : Linked(y, u, o) <=> Linked(x, u, o) /\ u \notin W
    /\ \A u \in Thread : y.stat[u] = "SUSPEND" <=> x.stat[u] = "SUSPEND" /\ u \notin W

LEMMA LosesNone ==
    ASSUME NEW x, NEW y
    PROVE  SameWaiters(x, y) <=> LosesAll(x, y, {})
BY DEF SameWaiters, LosesAll
LEMMA LosesOne ==
    ASSUME NEW x, NEW y, NEW t
    PROVE  LosesWaiter(x, y, t) <=> LosesAll(x, y, {t})
BY DEF LosesWaiter, LosesAll

\* How a step is shown to preserve the invariant when it leaves pc alone.
LEMMA SamePcAll ==
    ASSUME IpcInv, pc' = pc, Good(k', {}), k'.lock = k.lock,
           k.lock = 0 \/ k'.cur = k.cur,
           isr' \in Isr, dead' \subseteq Obj, fault' \in BOOLEAN,
           k'.stat[k'.cur] = "RUNNING" \/ (k'.cur = k.cur /\ k.stat[k.cur] # "RUNNING"),
           NEW W, LosesAll(k, k', W)
    PROVE  IpcInv' /\ NoNewWaiter(k, k')
<1>1. k' \in Kstate /\ KernelOK(k', {}) /\ DOMAIN pc' = Thread
  BY FlatIff DEF Good, IpcInv
<1>2. LockHeld'
  <2>1. \A u \in Thread : InReset(u)' <=> InReset(u)
    BY DEF InReset
  <2>2. k.cur \in Thread /\ k'.cur \in Thread
    BY <1>1 DEF IpcInv, Kstate
  <2> QED
    BY <2>1, <2>2 DEF IpcInv, LockHeld
<1>3. \A t \in Thread : ArgIsObject(pc'[t])
  BY DEF IpcInv
<1>4. CurrentRuns(k', pc'[k'.cur].at)
  BY DEF IpcInv, CurrentRuns
<1>5. \A u \in Thread : \A o \in Obj :
          Linked(k, u, o) <=> Taking(u, o) /\ k.stat[u] = "SUSPEND"
  BY IpcInvGood
<1>6. \A u \in Thread : \A o \in Obj : Taking(u, o)' <=> Taking(u, o)
  BY DEF Taking
<1>7. /\ \A u \in Thread : \A o \in Obj :
            Linked(k', u, o) <=> Taking(u, o)' /\ k'.stat[u] = "SUSPEND"
      /\ NoNewWaiter(k, k')
  BY <1>5, <1>6 DEF LosesAll, NoNewWaiter
<1> QED
  BY <1>1, <1>2, <1>3, <1>4, <1>7 DEF IpcInv, WaitersListed

\* When one thread at most leaves a list
LEMMA SamePc ==
    ASSUME IpcInv, pc' = pc, Good(k', {}), k'.lock = k.lock,
           k.lock = 0 \/ k'.cur = k.cur,
           isr' \in Isr, dead' \subseteq Obj, fault' \in BOOLEAN,
           k'.stat[k'.cur] = "RUNNING" \/ (k'.cur = k.cur /\ k.stat[k.cur] # "RUNNING"),
           \/ SameWaiters(k, k')
           \/ \E t \in Thread : LosesWaiter(k, k', t)
    PROVE  IpcInv' /\ NoNewWaiter(k, k')
BY LosesNone, LosesOne, SamePcAll

\* A step of the current thread t, outside a reset, leaves nobody in one.
LEMMA StaysUnlocked ==
    ASSUME IpcInv, NEW t \in Thread, k.cur = t, pc[t].at \notin {"dq_check", "dq_wake"},
           NEW at, at \notin {"dq_check", "dq_wake"}, NEW arg, Goto(t, at, arg),
           k'.lock = k.lock, k'.cur \in Thread
    PROVE  LockHeld'
<1>1. k.lock = 0 /\ \A u \in Thread : ~InReset(u)
  BY Unlocked
<1>2. pc'[t].at = at /\ \A u \in Thread \ {t} : pc'[u] = pc[u]
  BY GotoPc
<1>3. \A u \in Thread : ~InReset(u)'
  <2>1. ~InReset(t)'
    BY <1>2 DEF InReset
  <2>2. \A u \in Thread \ {t} : ~InReset(u)'
    BY <1>1, <1>2 DEF InReset
  <2> QED
    BY <2>1, <2>2
<1> QED
  BY <1>1, <1>3 DEF LockHeld

\* How a step of the current thread t is shown to preserve the invariant when t
\* moves on, is not suspended after it or is in the same take as before, and
\* some thread is RUNNING.
LEMMA MovesPcAll ==
    ASSUME IpcInv, Good(k', {}), k'.lock = k.lock,
           isr' \in Isr, dead' \subseteq Obj, fault' \in BOOLEAN,
           NEW t \in Thread, k.cur = t, pc[t].at \notin {"dq_check", "dq_wake"},
           NEW at, at \notin {"dq_check", "dq_wake"}, NEW arg,
           Goto(t, at, arg), ArgIsObject([at |-> at, arg |-> arg]),
           \/ k'.stat[t] # "SUSPEND"
           \/ \A o \in Obj : (at \in {"take_sched", "take_ret"} /\ arg = o) <=> Taking(t, o),
           k'.stat[k'.cur] = "RUNNING",
           NEW W, LosesAll(k, k', W)
    PROVE  IpcInv' /\ NoNewWaiter(k, k')
<1>1. k' \in Kstate /\ KernelOK(k', {}) /\ k'.cur \in Thread
  BY FlatIff DEF Good, Kstate
<1>2. DOMAIN pc' = Thread
  BY GotoAll
<1>3. LockHeld'
  BY <1>1, StaysUnlocked
<1>4. \A u \in Thread : pc'[u] = IF u = t THEN [at |-> at, arg |-> arg] ELSE pc[u]
  BY GotoAll
<1>5. CurrentRuns(k', pc'[k'.cur].at)
  BY DEF CurrentRuns
<1>6. \A u \in Thread : ArgIsObject(pc'[u])
  BY <1>4 DEF IpcInv
<1>10. k' \in Kstate /\ KernelOK(k', {})
  BY <1>1
<1>7. \A u \in Thread : \A o \in Obj :
          Linked(k, u, o) <=> Taking(u, o) /\ k.stat[u] = "SUSPEND"
  BY IpcInvGood
<1>8. \A u \in Thread : \A o \in Obj :
          (Taking(u, o)' <=> Taking(u, o)) \/ (k'.stat[u] # "SUSPEND" /\ ~Linked(k', u, o))
  <2>1. \A u \in Thread : \A o \in Obj : Linked(k', u, o) => k'.stat[u] = "SUSPEND"
    BY DEF Good, Flat
  <2> QED
    BY <1>4, <2>1 DEF Taking
<1>9. /\ \A u \in Thread : \A o \in Obj :
            Linked(k', u, o) <=> Taking(u, o)' /\ k'.stat[u] = "SUSPEND"
      /\ NoNewWaiter(k, k')
  BY <1>7, <1>8 DEF LosesAll, NoNewWaiter
<1> QED
  BY <1>2, <1>3, <1>5, <1>6, <1>9, <1>10 DEF IpcInv, WaitersListed

\* When one thread at most leaves a list
LEMMA MovesPc ==
    ASSUME IpcInv, Good(k', {}), k'.lock = k.lock,
           isr' \in Isr, dead' \subseteq Obj, fault' \in BOOLEAN,
           NEW t \in Thread, k.cur = t, pc[t].at \notin {"dq_check", "dq_wake"},
           NEW at, at \notin {"dq_check", "dq_wake"}, NEW arg,
           Goto(t, at, arg), ArgIsObject([at |-> at, arg |-> arg]),
           \/ k'.stat[t] # "SUSPEND"
           \/ \A o \in Obj : (at \in {"take_sched", "take_ret"} /\ arg = o) <=> Taking(t, o),
           k'.stat[k'.cur] = "RUNNING",
           \/ SameWaiters(k, k')
           \/ \E u \in Thread : LosesWaiter(k, k', u)
    PROVE  IpcInv' /\ NoNewWaiter(k, k')
BY LosesNone, LosesOne, MovesPcAll

-----------------------------------------------------------------------------
(* The steps, one lemma for each *)

LEMMA LockNat ==
    ASSUME Good(k, {})
    PROVE  k.lock = 0 \/ k.lock > 0
BY DEF Good, Kstate

\* The tick interrupt
LEMMA TickInterruptInv ==
    ASSUME IpcInv, TickInterrupt, UNCHANGED <<dead, fault>>
    PROVE  IpcInv' /\ NoNewWaiter(k, k')
<1>0. Good(k, {}) /\ dead \subseteq Obj /\ fault \in BOOLEAN /\ pc' = pc
  BY IpcInvGood DEF TickInterrupt
<1>1. CASE TickIncrease
  <2>1. k' = rt_tick_increase(k) /\ isr' \in Isr
    BY <1>1 DEF TickIncrease, Isr
  <2>2. /\ Good(k', {}) /\ SameWaiters(k, k') /\ RunsOrStays(k, k')
        /\ k'.lock = k.lock
    BY <1>0, <2>1, TickGood
  <2>3. k.lock = 0 \/ k'.cur = k.cur
    BY <1>0, <2>1, LockNat, TickLocked
  <2> QED
    BY <1>0, <2>1, <2>2, <2>3, SamePc DEF RunsOrStays
<1>2. CASE TimerExpires
  <2> DEFINE t == Head(k.tlist)
             s == TimerStop(k, t)
  <2>1. k.tlist # << >> /\ k' = rt_thread_timeout(s, t) /\ isr' \in Isr
    BY <1>2 DEF TimerExpires, HeadExpired, Isr
  <2> HIDE DEF s
  <2>2. s = TimerStop(k, t)
    BY DEF s
  <2> HIDE DEF t
  <2>3. t = Head(k.tlist)
    BY DEF t
  <2>4. /\ Good(k', {}) /\ t \in Thread /\ LosesWaiter(k, k', t) /\ RunsOrStays(k, k')
        /\ k'.lock = k.lock
    BY <1>0, <2>1, <2>2, <2>3, ExpireGood
  <2>5. k.lock = 0 \/ k'.cur = k.cur
    BY <1>0, <2>1, <2>2, LockNat, ExpireLocked
  <2> QED
    BY <1>0, <2>1, <2>4, <2>5, SamePc DEF RunsOrStays
<1>3. CASE TickReturn
  <2>1. k' = k /\ isr' \in Isr
    BY <1>3 DEF TickReturn, Isr
  <2>2. /\ SameWaiters(k, k') /\ k'.lock = k.lock /\ Good(k', {})
        /\ k'.stat[k'.cur] = "RUNNING" \/ (k'.cur = k.cur /\ k.stat[k.cur] # "RUNNING")
    BY <1>0, <2>1 DEF SameWaiters
  <2> QED
    BY <1>0, <2>1, <2>2, SamePc
<1> QED
  BY <1>1, <1>2, <1>3 DEF TickInterrupt

\* A thread that is not at one of the points of a suspended one is RUNNING.
LEMMA Runs ==
    ASSUME IpcInv, NEW t \in Thread, k.cur = t,
           pc[t].at \notin {"sleep_sched", "take_sched"}
    PROVE  k.stat[t] = "RUNNING"
BY IpcInvGood

\* The steps that leave the kernel state alone
LEMMA SameKernel ==
    ASSUME IpcInv, k' = k
    PROVE  SameWaiters(k, k') /\ k'.lock = k.lock /\ Good(k', {})
BY IpcInvGood DEF SameWaiters

\* The call of rt_schedule that ends a kernel call
LEMMA CallScheduleInv ==
    ASSUME IpcInv, NEW t \in Thread, CallSchedule(t), UNCHANGED <<dead, fault>>
    PROVE  IpcInv' /\ NoNewWaiter(k, k')
<1>0. /\ Good(k, {}) /\ dead \subseteq Obj /\ fault \in BOOLEAN /\ isr \in Isr
  BY IpcInvGood
<1>2. /\ k.cur = t /\ k' = rt_schedule(k) /\ isr' = isr
      /\ pc[t].at \in DOMAIN After
      /\ Goto(t, After[pc[t].at], pc[t].arg)
  BY DEF CallSchedule
<1>1. /\ Good(k, {}) /\ k.lock = 0 /\ dead \subseteq Obj /\ fault \in BOOLEAN
      /\ isr \in Isr
  BY <1>0, <1>2, Unlocked DEF After
<1>3. /\ Good(k', {})
      /\ MaySwitch(k) => k'.stat[k'.cur] = "RUNNING"
      /\ ~MaySwitch(k) => k' = k
      /\ k'.lock = k.lock
      /\ \A u \in Thread : \A o \in Obj : Linked(k', u, o) <=> Linked(k, u, o)
      /\ \A u \in Thread : k.stat[u] = "SUSPEND" <=> k'.stat[u] = "SUSPEND"
  BY <1>1, <1>2, ScheduleGood
<1>4. k'.stat[k'.cur] = "RUNNING"
  BY <1>1, <1>3, SomebodyRuns
<1>5. SameWaiters(k, k')
  BY <1>3 DEF SameWaiters
<1>6. \/ pc[t].at = "sched" /\ After[pc[t].at] = "run"
      \/ pc[t].at = "sleep_sched" /\ After[pc[t].at] = "slept"
      \/ pc[t].at = "take_sched" /\ After[pc[t].at] = "take_ret"
      \/ pc[t].at = "exit_sched" /\ After[pc[t].at] = "exited"
  BY <1>2 DEF After
<1> DEFINE at == After[pc[t].at]
           arg == pc[t].arg
<1>7. /\ at \notin {"dq_check", "dq_wake"} /\ pc[t].at \notin {"dq_check", "dq_wake"}
      /\ ArgIsObject([at |-> at, arg |-> arg])
      /\ \A o \in Obj : (at \in {"take_sched", "take_ret"} /\ arg = o) <=> Taking(t, o)
  BY <1>6 DEF ArgIsObject, Taking
<1>8. Goto(t, at, arg)
  BY <1>2
<1> HIDE DEF at, arg
<1> QED
  BY <1>1, <1>2, <1>3, <1>4, <1>5, <1>7, <1>8, MovesPc

\* rt_thread_sleep puts the caller to sleep.
LEMMA SleepInv ==
    ASSUME IpcInv, NEW t \in User, NEW d \in Delays, Sleep(t, d), UNCHANGED <<dead, fault>>
    PROVE  IpcInv' /\ NoNewWaiter(k, k')
<1>1. /\ Good(k, {}) /\ dead \subseteq Obj /\ fault \in BOOLEAN /\ isr \in Isr
      /\ k.cur \in Thread
      /\ \A u \in Thread : \A o \in Obj :
            Linked(k, u, o) <=> Taking(u, o) /\ k.stat[u] = "SUSPEND"
  BY IpcInvGood
<1>2. t \in Thread /\ t # Idle /\ d \in Nat
  BY SystemAssumption DEF User
<1>3. /\ k.cur = t /\ pc[t].at = "run" /\ isr' = isr
      /\ k' = TimerStart(rt_thread_suspend(k, t), t, d)
      /\ Goto(t, "sleep_sched", t)
  BY DEF Sleep, Calls, Is
<1>4. k.stat[t] = "RUNNING"
  BY <1>2, <1>3, Runs
<1>5. PICK s : s = rt_thread_suspend(k, t)
  OBVIOUS
<1>6. /\ Good(s, {})
      /\ \A u \in Thread : \A o \in Obj : Linked(s, u, o) <=> Linked(k, u, o)
      /\ \A u \in Thread : s.stat[u] = IF u = t THEN "SUSPEND" ELSE k.stat[u]
      /\ s.cur = k.cur /\ s.lock = k.lock
  BY <1>1, <1>2, <1>4, <1>5, SuspendGood
<1>7. /\ Good(k', {})
      /\ k'.cur = s.cur /\ k'.stat = s.stat /\ k'.q = s.q /\ k'.lock = s.lock
  BY <1>2, <1>3, <1>5, <1>6, TimerStartGood
<1>8. DOMAIN pc' = Thread
  BY <1>2, <1>3, GotoAll
<1>9. \A u \in Thread : pc'[u] = IF u = t THEN [at |-> "sleep_sched", arg |-> t] ELSE pc[u]
  BY <1>2, <1>3, GotoAll
<1>10. /\ k' \in Kstate /\ isr' \in Isr /\ dead' \subseteq Obj /\ fault' \in BOOLEAN
       /\ KernelOK(k', {}) /\ LockHeld'
  <2>1. k' \in Kstate /\ KernelOK(k', {}) /\ k'.lock = k.lock /\ k'.cur \in Thread
    BY <1>1, <1>6, <1>7, FlatIff DEF Good
  <2>2. LockHeld'
    BY <1>2, <1>3, <2>1, StaysUnlocked
  <2> QED
    BY <1>1, <1>3, <2>1, <2>2
<1>11. CurrentRuns(k', pc'[k'.cur].at)
  BY <1>2, <1>3, <1>6, <1>7, <1>9 DEF CurrentRuns
<1>12. \A u \in Thread : ArgIsObject(pc'[u])
  BY <1>9 DEF IpcInv, ArgIsObject
<1>13. \A u \in Thread : \A o \in Obj : Linked(k', u, o) <=> Linked(k, u, o)
  BY <1>6, <1>7 DEF Linked
<1>14. \A o \in Obj : ~Linked(k, t, o)
  BY <1>1, <1>2, <1>4
<1>15. \A u \in Thread : \A o \in Obj :
          Taking(u, o)' <=> u # t /\ Taking(u, o)
  BY <1>3, <1>9 DEF Taking
<1>16. \A u \in Thread : \A o \in Obj :
          Linked(k', u, o) <=> Taking(u, o)' /\ k'.stat[u] = "SUSPEND"
  BY <1>1, <1>6, <1>7, <1>13, <1>14, <1>15
<1> QED
  BY <1>8, <1>10, <1>11, <1>12, <1>13, <1>16 DEF IpcInv, WaitersListed, NoNewWaiter

\* rt_thread_sleep returns.
LEMMA SleptInv ==
    ASSUME IpcInv, NEW t \in Thread, Slept(t), UNCHANGED <<dead, fault>>
    PROVE  IpcInv' /\ NoNewWaiter(k, k')
<1>1. /\ Good(k, {}) /\ dead \subseteq Obj /\ fault \in BOOLEAN /\ isr \in Isr
  BY IpcInvGood
<1> DEFINE e == IF k.err[t] = "ETIMEOUT" THEN "EOK" ELSE k.err[t]
<1>2. /\ k.cur = t /\ pc[t].at = "slept" /\ isr' = isr
      /\ k' = SetErr(k, t, e)
      /\ Goto(t, "run", t)
  BY DEF Slept, Is, SetErr
<1>3. e \in Error
  BY <1>1 DEF Good, Kstate, Error
<1> HIDE DEF e
<1>4. /\ Good(k', {})
      /\ k'.cur = k.cur /\ k'.stat = k.stat /\ k'.q = k.q /\ k'.lock = k.lock
  BY <1>1, <1>2, <1>3, SetErrGood
<1>5. k.stat[t] = "RUNNING"
  BY <1>2, Runs
<1>6. SameWaiters(k, k')
  BY <1>4 DEF SameWaiters, Linked
<1>7. ArgIsObject([at |-> "run", arg |-> t])
  BY DEF ArgIsObject
<1>8. k'.stat[t] # "SUSPEND" /\ k'.stat[k'.cur] = "RUNNING"
  BY <1>2, <1>4, <1>5
<1> QED
  BY <1>1, <1>2, <1>4, <1>6, <1>7, <1>8, MovesPc

\* A detach or delete begins.
LEMMA DeleteInv ==
    ASSUME IpcInv, NEW t \in Thread, NEW o \in Obj, Delete(t, o)
    PROVE  IpcInv' /\ NoNewWaiter(k, k')
<1>1. /\ Good(k, {}) /\ dead \subseteq Obj /\ fault \in BOOLEAN /\ isr \in Isr
  BY IpcInvGood
<1>2. /\ k.cur = t /\ pc[t].at = "run" /\ isr' = isr /\ k' = k
      /\ dead' = dead \cup {o, Second[o]} /\ fault' = fault
      /\ Goto(t, "wake_check", o)
  BY DEF Delete, CallsOn, Calls, Is
<1>3. k.stat[t] = "RUNNING"
  BY <1>2, Runs
<1>4. ArgIsObject([at |-> "wake_check", arg |-> o])
  BY DEF ArgIsObject
<1>5. k'.stat[t] # "SUSPEND" /\ k'.stat[k'.cur] = "RUNNING"
  BY <1>2, <1>3
<1>6. SameWaiters(k, k') /\ k'.lock = k.lock /\ Good(k', {})
  BY <1>2, SameKernel
<1>7. isr' \in Isr /\ dead' \subseteq Obj /\ fault' \in BOOLEAN
  BY <1>1, <1>2, IpcAssumption
<1> QED
  BY <1>2, <1>4, <1>5, <1>6, <1>7, MovesPc

\* The test of the loop of rt_ipc_list_resume_all
LEMMA WakeCheckInv ==
    ASSUME IpcInv, NEW t \in Thread, WakeCheck(t)
    PROVE  IpcInv' /\ NoNewWaiter(k, k')
<1>1. /\ Good(k, {}) /\ dead \subseteq Obj /\ fault \in BOOLEAN /\ isr \in Isr
  BY IpcInvGood
<1>2. /\ k.cur = t /\ pc[t].at = "wake_check" /\ isr' = isr /\ k' = k
      /\ dead' = dead /\ fault' = fault
  BY DEF WakeCheck, Is
<1>3. k.stat[t] = "RUNNING"
  BY <1>2, Runs
<1>4. pc[t].arg \in Obj /\ Second[pc[t].arg] \in Obj
  BY <1>2, IpcAssumption DEF IpcInv, ArgIsObject
<1>5. PICK at \in {"run", "wake_check", "wake_one"}, x \in Thread \cup Obj :
        /\ Goto(t, at, x)
        /\ at # "run" => x \in Obj
  BY <1>4 DEF WakeCheck
<1>6. ArgIsObject([at |-> at, arg |-> x])
  BY <1>5 DEF ArgIsObject
<1>7. k'.stat[t] # "SUSPEND" /\ k'.stat[k'.cur] = "RUNNING"
  BY <1>2, <1>3
<1>8. SameWaiters(k, k') /\ k'.lock = k.lock /\ Good(k', {})
  BY <1>2, SameKernel
<1>9. isr' \in Isr /\ dead' \subseteq Obj /\ fault' \in BOOLEAN
  BY <1>1, <1>2
<1> QED
  BY <1>2, <1>5, <1>6, <1>7, <1>8, <1>9, MovesPc

\* A turn of the loop of rt_ipc_list_resume_all
LEMMA WakeOneInv ==
    ASSUME IpcInv, NEW t \in Thread, WakeOne(t)
    PROVE  IpcInv' /\ NoNewWaiter(k, k')
<1>1. /\ Good(k, {}) /\ dead \subseteq Obj /\ fault \in BOOLEAN /\ isr \in Isr
  BY IpcInvGood
<1> DEFINE o == pc[t].arg
<1>2. /\ k.cur = t /\ pc[t].at = "wake_one" /\ isr' = isr /\ dead' = dead
      /\ Goto(t, "wake_check", o)
      /\ \/ k.q[o] # << >> /\ k' = ResumeOneWithError(k, o) /\ fault' = fault
         \/ k' = k /\ fault' = TRUE
  BY DEF WakeOne, Is
<1>3. k.stat[t] = "RUNNING"
  BY <1>2, Runs
<1>4. o \in Obj
  BY <1>2 DEF IpcInv, ArgIsObject
<1> HIDE DEF o
<1>5. ArgIsObject([at |-> "wake_check", arg |-> o])
  BY <1>4 DEF ArgIsObject
<1>6. isr' \in Isr /\ dead' \subseteq Obj /\ fault' \in BOOLEAN
  BY <1>1, <1>2
<1>7. CASE k' = k
  <2>1. SameWaiters(k, k') /\ k'.lock = k.lock /\ Good(k', {})
    BY <1>7, SameKernel
  <2>2. k'.stat[t] # "SUSPEND" /\ k'.stat[k'.cur] = "RUNNING"
    BY <1>2, <1>3, <1>7
  <2> QED
    BY <1>2, <1>4, <1>5, <1>6, <2>1, <2>2, MovesPc
<1>8. CASE k.q[o] # << >> /\ k' = ResumeOneWithError(k, o)
  <2>1. PICK w : w = Head(k.q[o])
    OBVIOUS
  <2>2. /\ Good(k', {}) /\ LosesWaiter(k, k', w) /\ w \in Thread
        /\ k'.lock = k.lock /\ SameRunner(k, k')
    BY <1>1, <1>4, <1>8, <2>1, ResumeOneGood
  <2>3. k'.stat[t] # "SUSPEND" /\ k'.stat[k'.cur] = "RUNNING"
    BY <1>2, <1>3, <2>2 DEF SameRunner
  <2> QED
    BY <1>2, <1>4, <1>5, <1>6, <2>2, <2>3, MovesPc
<1> QED
  BY <1>2, <1>7, <1>8

\* rt_thread_control changes a priority.
LEMMA ControlInv ==
    ASSUME IpcInv, NEW t \in Thread, NEW u \in Thread, NEW p \in Prio, Control(t, u, p)
    PROVE  IpcInv' /\ NoNewWaiter(k, k')
<1>1. /\ Good(k, {}) /\ dead \subseteq Obj /\ fault \in BOOLEAN /\ isr \in Isr
      /\ k.cur \in Thread
  BY IpcInvGood
<1>2. /\ k.cur = t /\ pc[t].at = "run" /\ isr' = isr /\ dead' = dead /\ fault' = fault
      /\ pc' = pc /\ k' = ChangePriority(k, u, p)
  BY DEF Control, Calls, Is
<1>3. k.stat[t] = "RUNNING"
  BY <1>2, Runs
<1>4. /\ Good(k', {}) /\ SameWaiters(k, k')
      /\ \A w \in Thread : k'.stat[w] = k.stat[w]
      /\ k'.cur = k.cur /\ k'.lock = k.lock
  BY <1>1, <1>2, ChangePriorityGood
<1>5. k'.stat[k'.cur] = "RUNNING"
  BY <1>2, <1>3, <1>4
<1> QED
  BY <1>1, <1>2, <1>4, <1>5, SamePc

\* Every step of module Ipc keeps the invariant and adds no waiter.
LEMMA IpcStepInv ==
    ASSUME IpcInv, NEW D \in SUBSET Obj, IpcStep(D)
    PROVE  IpcInv' /\ NoNewWaiter(k, k')
<1>1. User \subseteq Thread
  BY DEF User
<1>2. CASE SystemStep /\ UNCHANGED <<dead, fault>>
  BY <1>1, <1>2, TickInterruptInv, CallScheduleInv, SleepInv, SleptInv DEF SystemStep
<1>3. ASSUME NEW t \in User,
             \/ \E o \in D : Delete(t, o)
             \/ WakeCheck(t) \/ WakeOne(t)
             \/ \E u \in User, p \in Prio : Control(t, u, p)
      PROVE  IpcInv' /\ NoNewWaiter(k, k')
  BY <1>1, <1>3, DeleteInv, WakeCheckInv, WakeOneInv, ControlInv
<1> QED
  BY <1>2, <1>3 DEF IpcStep

\* Threads that make no other calls than those of module Ipc are at its points and
\* wait for objects only.
PcPoint == {"run", "sched", "sleep_sched", "slept", "take_sched",
            "take_ret", "wake_check", "wake_one", "reset_loop"}
PlainPc ==
    /\ pc \in [Thread -> [at : PcPoint, arg : Thread \cup Obj]]
    /\ \A t \in Thread :
        pc[t].at \in {"take_sched", "take_ret", "wake_check", "wake_one", "reset_loop"}
            => pc[t].arg \in Obj

\* A step of a thread to one of these points
LEMMA PlainGoto ==
    ASSUME PlainPc, NEW t \in Thread, NEW at \in PcPoint, NEW arg \in Thread \cup Obj,
           at \in {"take_sched", "take_ret", "wake_check", "wake_one", "reset_loop"}
                => arg \in Obj,
           Goto(t, at, arg)
    PROVE  PlainPc'
BY DEF PlainPc, Goto

\* The steps of module Ipc keep to its points.
LEMMA IpcStepPlain ==
    ASSUME PlainPc, NEW D \in SUBSET Obj, IpcStep(D)
    PROVE  PlainPc'
<1>1. User \subseteq Thread /\ \A o \in Obj : Second[o] \in Obj
  BY IpcAssumption DEF User
<1>2. ASSUME pc' = pc PROVE PlainPc'
  BY <1>2 DEF PlainPc
<1>3. CASE TickInterrupt
  BY <1>2, <1>3 DEF TickInterrupt
<1>4. ASSUME NEW t \in User, CallSchedule(t) PROVE PlainPc'
  <2>1. /\ pc[t].at \in PcPoint /\ pc[t].arg \in Thread \cup Obj
        /\ pc[t].at = "take_sched" => pc[t].arg \in Obj
    BY <1>1 DEF PlainPc
  <2>2. /\ Goto(t, After[pc[t].at], pc[t].arg)
        /\ \/ pc[t].at = "sched" /\ After[pc[t].at] = "run"
           \/ pc[t].at = "sleep_sched" /\ After[pc[t].at] = "slept"
           \/ pc[t].at = "take_sched" /\ After[pc[t].at] = "take_ret"
    BY <1>4, <2>1 DEF CallSchedule, After, PcPoint
  <2>3. PICK at : at = After[pc[t].at]
    OBVIOUS
  <2> QED
    BY <1>1, <2>1, <2>2, <2>3, PlainGoto DEF PcPoint
<1>5. ASSUME NEW t \in User, Slept(t) \/ \E n \in Delays : Sleep(t, n) PROVE PlainPc'
  <2>1. Goto(t, "run", t) \/ Goto(t, "sleep_sched", t)
    BY <1>5 DEF Slept, Sleep
  <2> QED
    BY <1>1, <2>1, PlainGoto DEF PcPoint
<1>6. ASSUME NEW t \in User, \/ \E o \in D : Delete(t, o)
                             \/ WakeCheck(t) \/ WakeOne(t)
      PROVE  PlainPc'
  <2>1. pc[t].at \in {"wake_check", "wake_one"} => pc[t].arg \in Obj
    BY <1>1 DEF PlainPc
  <2>2. \/ Goto(t, "run", t)
        \/ \E o \in Obj : Goto(t, "wake_check", o) \/ Goto(t, "wake_one", o)
    BY <1>1, <1>6, <2>1 DEF Delete, WakeCheck, WakeOne, Is
  <2> QED
    BY <1>1, <2>2, PlainGoto DEF PcPoint
<1>7. ASSUME NEW t \in User, NEW u \in User, NEW p \in Prio, Control(t, u, p) PROVE PlainPc'
  BY <1>2, <1>7 DEF Control
<1> QED
  BY <1>3, <1>4, <1>5, <1>6, <1>7 DEF IpcStep, SystemStep

\* The types of the variables of module Ipc
LEMMA PlainType ==
    ASSUME IpcInv, PlainPc
    PROVE  IpcTypeOK /\ k.lock = 0
<1>1. IpcTypeOK
  BY DEF IpcInv, PlainPc, IpcTypeOK, PcPoint
<1>2. pc[k.cur].at \notin {"dq_check", "dq_wake"}
  BY DEF IpcInv, Kstate, PlainPc, PcPoint
<1> QED
  BY <1>1, <1>2, Unlocked

\* The invariant holds when the scheduler starts.
LEMMA IpcInit ==
    ASSUME SystemInit(Thread), dead = {}, fault = FALSE
    PROVE  IpcInv /\ \A u \in Thread : \A o \in Obj : ~Linked(k, u, o)
<1>1. /\ k = Booted(Thread, InitPrio) /\ isr = "none"
      /\ pc = [t \in Thread |-> [at |-> "run", arg |-> t]]
  BY DEF SystemInit
<1>2. Idle \in Thread /\ MayBoot(Thread, InitPrio)
  BY KernelAssumption, SystemAssumption DEF MayBoot
<1>3. /\ Good(k, {})
      /\ k.stat[k.cur] = "RUNNING" /\ k.lock = 0
      /\ \A u \in Thread : k.stat[u] # "SUSPEND"
      /\ \A u \in Thread : \A o \in Obj : ~Linked(k, u, o)
  BY <1>1, <1>2, BootGood
<1>4. /\ k \in Kstate /\ isr \in Isr /\ KernelOK(k, {})
      /\ DOMAIN pc = Thread /\ \A t \in Thread : pc[t].at = "run"
  BY <1>1, <1>3, FlatIff DEF Isr, Good
<1>7. LockHeld
  BY <1>3, <1>4 DEF LockHeld, InReset, Kstate
<1>5. \A t \in Thread : ArgIsObject(pc[t])
  BY <1>1 DEF ArgIsObject
<1>6. WaitersListed
  BY <1>3 DEF WaitersListed
<1> QED
  BY <1>3, <1>4, <1>5, <1>6, <1>7 DEF IpcInv, CurrentRuns

-----------------------------------------------------------------------------
(* What the steps of module Ipc leave alone                                *)

\* Thread t was resumed by whoever gave object o up, and has not yet returned.
HandedOver(t, o) == Taking(t, o) /\ k.stat[t] # "SUSPEND" /\ k.err[t] = "EOK"

\* A thread that waits has no error: a release that resumes it hands the object
\* over.
WaitersClean == \A o \in Obj, t \in Thread : Linked(k, t, o) => k.err[t] = "EOK"

\* No take begins or ends.
SameTaking == \A u \in Thread : \A o \in Obj : Taking(u, o)' <=> Taking(u, o)

\* The step neither begins nor ends a take, and hands nothing over; the waiters
\* keep their order, and none of them gets a time limit.
Steady ==
    /\ SameTaking
    /\ \A u \in Thread : \A o \in Obj : HandedOver(u, o)' <=> HandedOver(u, o)
    /\ WaitersClean => WaitersClean'
    /\ OrderKept(k, k')
    /\ "control" \notin Ops => k'.prio = k.prio
    /\ \A u \in Thread : \A o \in Obj : Linked(k', u, o) /\ Armed(k', u) => Armed(k, u)

\* A quiet step that leaves the waiters alone
LEMMA QuietSteady ==
    ASSUME Undisturbed(k, k'), SameWaiters(k, k'), SameTaking
    PROVE  Steady
<1>1. \A u \in Thread : \A o \in Obj : HandedOver(u, o)' <=> HandedOver(u, o)
  BY DEF HandedOver, SameTaking, SameWaiters, Undisturbed
<1>2. WaitersClean => WaitersClean'
  BY DEF WaitersClean, SameWaiters, Undisturbed
<1> QED
  BY <1>1, <1>2 DEF Steady, Undisturbed

\* A step that wakes one waiter with an error
LEMMA MarksSteady ==
    ASSUME Good(k, {}), NEW t \in Thread, NEW e, e # "EOK", Marks(k, k', t, e),
           LosesWaiter(k, k', t), k.stat[t] = "SUSPEND", SameTaking
    PROVE  Steady
<1>1. \A u \in Thread : k'.err[u] = IF u = t THEN e ELSE k.err[u]
  BY DEF Marks, Good, Kstate
<1>2. \A u \in Thread : \A o \in Obj : HandedOver(u, o)' <=> HandedOver(u, o)
  BY <1>1 DEF HandedOver, SameTaking, LosesWaiter
<1>3. WaitersClean => WaitersClean'
  BY <1>1 DEF WaitersClean, LosesWaiter
<1> QED
  BY <1>2, <1>3 DEF Steady, Marks

\* A step of thread t that leaves the kernel state alone
LEMMA SameKernelSteady ==
    ASSUME IpcInv, k' = k, NEW t \in Thread, NEW at, NEW arg, Goto(t, at, arg),
           pc[t].at \notin {"take_sched", "take_ret"}, at \notin {"take_sched", "take_ret"}
    PROVE  Steady /\ SameTaking
<1>1. SameTaking
  <2>1. \A u \in Thread : pc'[u] = IF u = t THEN [at |-> at, arg |-> arg] ELSE pc[u]
    BY DEF IpcInv, Goto
  <2> QED
    BY <2>1 DEF SameTaking, Taking
<1>2. Undisturbed(k, k') /\ SameWaiters(k, k')
  BY SameFieldsQuiet, SameKernel
<1> QED
  BY <1>1, <1>2, QuietSteady

\* The tick interrupt
LEMMA TickInterruptSteady ==
    ASSUME IpcInv, TickInterrupt
    PROVE  Steady
<1>0. Good(k, {}) /\ SameTaking
  BY IpcInvGood DEF TickInterrupt, SameTaking, Taking
<1>1. CASE TickIncrease
  <2>1. PICK now : now = (k.tick + 1) % TickMod
    OBVIOUS
  <2>2. Undisturbed(k, k') /\ SameWaiters(k, k')
    BY <1>0, <1>1, <2>1, TickQuiet, TickGood DEF TickIncrease
  <2> QED
    BY <1>0, <2>2, QuietSteady
<1>2. CASE TimerExpires
  <2>1. PICK t : t = Head(k.tlist)
    OBVIOUS
  <2>2. PICK s : s = TimerStop(k, t)
    OBVIOUS
  <2>3. k.tlist # << >> /\ k' = rt_thread_timeout(s, t)
    BY <1>2, <2>1, <2>2 DEF TimerExpires, HeadExpired
  <2>4. t \in Thread /\ Armed(k, t) /\ Marks(k, k', t, "ETIMEOUT")
    BY <1>0, <2>1, <2>2, <2>3, ExpireMarks
  <2>5. LosesWaiter(k, k', t)
    BY <1>0, <2>1, <2>2, <2>3, ExpireGood
  <2>6. k.stat[t] = "SUSPEND"
    BY <1>0, <2>4 DEF Good, Flat
  <2> QED
    BY <1>0, <2>4, <2>5, <2>6, MarksSteady
<1>3. CASE TickReturn
  <2>1. Undisturbed(k, k') /\ SameWaiters(k, k')
    BY <1>3, SameFieldsQuiet, SameKernel DEF TickReturn
  <2> QED
    BY <1>0, <2>1, QuietSteady
<1> QED
  BY <1>1, <1>2, <1>3 DEF TickInterrupt

\* The call of rt_schedule that ends a kernel call
LEMMA CallScheduleSteady ==
    ASSUME IpcInv, NEW t \in Thread, CallSchedule(t)
    PROVE  Steady
<1>1. Good(k, {})
  BY IpcInvGood
<1>2. k' = rt_schedule(k) /\ pc[t].at \in DOMAIN After /\ Goto(t, After[pc[t].at], pc[t].arg)
  BY DEF CallSchedule
<1>3. Undisturbed(k, k') /\ SameWaiters(k, k')
  <2>1. Undisturbed(k, k')
    BY <1>1, <1>2, ScheduleQuiet
  <2>2. /\ Good(k', {})
        /\ \A u \in Thread : \A o \in Obj : Linked(k', u, o) <=> Linked(k, u, o)
        /\ \A u \in Thread : k.stat[u] = "SUSPEND" <=> k'.stat[u] = "SUSPEND"
    BY <1>1, <1>2, ScheduleGood
  <2> QED
    BY <2>1, <2>2 DEF SameWaiters
<1>4. SameTaking
  <2>1. \A u \in Thread :
            pc'[u] = IF u = t THEN [at |-> After[pc[t].at], arg |-> pc[t].arg] ELSE pc[u]
    BY <1>2 DEF IpcInv, Goto
  <2>2. pc[t].at = "take_sched" <=> After[pc[t].at] \in {"take_sched", "take_ret"}
    BY <1>2 DEF After
  <2>3. pc[t].at # "take_ret"
    BY <1>2 DEF After
  <2> QED
    BY <2>1, <2>2, <2>3 DEF SameTaking, Taking
<1> QED
  BY <1>3, <1>4, QuietSteady

\* rt_thread_sleep puts the caller to sleep.
LEMMA SleepSteady ==
    ASSUME IpcInv, NEW t \in User, NEW ticks \in Delays, Sleep(t, ticks)
    PROVE  Steady
<1>1. Good(k, {})
  BY IpcInvGood
<1>2. t \in Thread /\ t # Idle /\ ticks \in Nat
  BY SystemAssumption DEF User
<1>3. /\ k.cur = t /\ pc[t].at = "run"
      /\ k' = TimerStart(rt_thread_suspend(k, t), t, ticks)
      /\ Goto(t, "sleep_sched", t)
  BY DEF Sleep, Calls, Is
<1>4. k.stat[t] = "RUNNING"
  BY <1>2, <1>3, Runs
<1>5. PICK s : s = rt_thread_suspend(k, t)
  OBVIOUS
<1>6. /\ Good(s, {}) /\ Undisturbed(k, s)
      /\ \A u \in Thread : \A o \in Obj : Linked(s, u, o) <=> Linked(k, u, o)
      /\ \A u \in Thread : s.stat[u] = IF u = t THEN "SUSPEND" ELSE k.stat[u]
  <2>1. PICK v : v = rt_schedule_remove_thread(k, t)
    OBVIOUS
  <2>2. PICK x : x = SetStat(v, t, "SUSPEND")
    OBVIOUS
  <2>3. k.stat[t] \in {"READY", "RUNNING"}
    BY <1>4
  <2> QED
    BY <1>1, <1>2, <1>5, <2>1, <2>2, <2>3, SuspendGood, SuspendQuiet
<1>7. /\ k'.stat = s.stat /\ k'.q = s.q /\ k'.prio = s.prio /\ k'.err = s.err
      /\ \A u \in Thread : Armed(k', u) <=> Armed(s, u) \/ u = t
  <2>1. PICK v : v = TimerStop(s, t)
    OBVIOUS
  <2>2. s.stat[t] = "SUSPEND" /\ k' = TimerStart(s, t, ticks)
    BY <1>2, <1>3, <1>5, <1>6
  <2>3. k'.err = s.err
    BY <1>6, <2>2 DEF TimerStart, TimerStop, Good, Kstate
  <2> QED
    BY <1>2, <1>6, <2>1, <2>2, <2>3, TimerStartGood
<1>8. \A u \in Thread : \A o \in Obj : Taking(u, o)' <=> Taking(u, o) /\ u # t
  <2>1. \A u \in Thread :
            pc'[u] = IF u = t THEN [at |-> "sleep_sched", arg |-> t] ELSE pc[u]
    BY <1>3 DEF IpcInv, Goto
  <2> QED
    BY <1>3, <2>1 DEF Taking
<1>9. \A o \in Obj : ~Taking(t, o)
  BY <1>3 DEF Taking
<1>10. \A u \in Thread : \A o \in Obj : HandedOver(u, o)' <=> HandedOver(u, o)
  BY <1>6, <1>7, <1>8, <1>9 DEF HandedOver, Undisturbed
<1>11. \A u \in Thread : \A o \in Obj : Linked(k', u, o) <=> Linked(k, u, o)
  BY <1>6, <1>7 DEF Linked
<1>12. WaitersClean => WaitersClean'
  BY <1>6, <1>7, <1>11 DEF WaitersClean, Undisturbed
<1>13. OrderKept(k, k')
  BY <1>6, <1>7 DEF Undisturbed, OrderKept
<1>14. \A o \in Obj : ~Linked(k, t, o)
  BY <1>1, <1>2, <1>4 DEF Good, Flat
<1>15. \A u \in Thread : \A o \in Obj : Linked(k', u, o) /\ Armed(k', u) => Armed(k, u)
  BY <1>6, <1>7, <1>11, <1>14 DEF Undisturbed
<1> QED
  BY <1>6, <1>7, <1>8, <1>9, <1>10, <1>12, <1>13, <1>15 DEF Steady, SameTaking, Undisturbed

\* A change of thread->error by its own thread, outside a take and not suspended
LEMMA SetErrSteady ==
    ASSUME IpcInv, NEW t \in Thread, NEW e \in Error, k' = SetErr(k, t, e),
           k.stat[t] # "SUSPEND", \A o \in Obj : ~Taking(t, o), SameTaking
    PROVE  Steady
<1>1. Good(k, {})
  BY IpcInvGood
<1>2. /\ k'.prio = k.prio /\ k'.q = k.q /\ k'.tlist = k.tlist /\ k'.stat = k.stat
      /\ \A u \in Thread : k'.err[u] = IF u = t THEN e ELSE k.err[u]
  BY <1>1 DEF SetErr, Good, Kstate
<1>3. \A o \in Obj : ~Linked(k, t, o)
  BY <1>1 DEF Good, Flat
<1>4. \A u \in Thread : \A o \in Obj : HandedOver(u, o)' <=> HandedOver(u, o)
  BY <1>2 DEF HandedOver, SameTaking
<1>5. WaitersClean => WaitersClean'
  BY <1>2, <1>3 DEF WaitersClean, Linked
<1>6. OrderKept(k, k')
  BY <1>2, SameListsOrder
<1> QED
  BY <1>2, <1>4, <1>5, <1>6 DEF Steady, Armed

\* rt_thread_sleep returns.
LEMMA SleptSteady ==
    ASSUME IpcInv, NEW t \in Thread, Slept(t)
    PROVE  Steady
<1>1. Good(k, {})
  BY IpcInvGood
<1>2. PICK e : e = IF k.err[t] = "ETIMEOUT" THEN "EOK" ELSE k.err[t]
  OBVIOUS
<1>3. k.cur = t /\ pc[t].at = "slept" /\ k' = SetErr(k, t, e) /\ Goto(t, "run", t)
  BY <1>2 DEF Slept, Is, SetErr
<1>4. e \in Error
  BY <1>1, <1>2 DEF Good, Kstate, Error
<1>5. k.stat[t] = "RUNNING"
  BY <1>3, Runs
<1>6. SameTaking /\ \A o \in Obj : ~Taking(t, o)
  <2>1. \A u \in Thread : pc'[u] = IF u = t THEN [at |-> "run", arg |-> t] ELSE pc[u]
    BY <1>3 DEF IpcInv, Goto
  <2> QED
    BY <1>3, <2>1 DEF SameTaking, Taking
<1> QED
  BY <1>3, <1>4, <1>5, <1>6, SetErrSteady

\* A turn of the loop of rt_ipc_list_resume_all
LEMMA WakeOneSteady ==
    ASSUME IpcInv, NEW t \in Thread, WakeOne(t)
    PROVE  Steady
<1>1. Good(k, {})
  BY IpcInvGood
<1>2. PICK o : o = pc[t].arg
  OBVIOUS
<1>3. /\ pc[t].at = "wake_one" /\ Goto(t, "wake_check", o)
      /\ \/ k.q[o] # << >> /\ k' = ResumeOneWithError(k, o)
         \/ k' = k
  BY <1>2 DEF WakeOne, Is
<1>4. o \in Obj
  BY <1>2, <1>3 DEF IpcInv, ArgIsObject
<1>5. CASE k' = k
  BY <1>3, <1>5, SameKernelSteady
<1>6. CASE k.q[o] # << >> /\ k' = ResumeOneWithError(k, o)
  <2>1. PICK w : w = Head(k.q[o])
    OBVIOUS
  <2>2. PICK e : e = SetErr(k, w, "ERROR")
    OBVIOUS
  <2>3. LosesWaiter(k, k', w) /\ w \in Thread
    BY <1>1, <1>4, <1>6, <2>1, <2>2, ResumeOneGood
  <2>4. Marks(k, k', w, "ERROR")
    BY <1>1, <1>4, <1>6, <2>1, ResumeOneMarks
  <2>5. k.stat[w] = "SUSPEND"
    BY <1>1, <1>4, <1>6, <2>1, HeadSuspended
  <2>6. SameTaking
    <3>1. \A u \in Thread : pc'[u] = IF u = t THEN [at |-> "wake_check", arg |-> o] ELSE pc[u]
      BY <1>3 DEF IpcInv, Goto
    <3> QED
      BY <1>3, <3>1 DEF SameTaking, Taking
  <2> QED
    BY <1>1, <2>3, <2>4, <2>5, <2>6, MarksSteady
<1> QED
  BY <1>3, <1>5, <1>6

\* rt_thread_control changes a priority.
LEMMA ControlSteady ==
    ASSUME IpcInv, NEW t \in Thread, NEW u \in Thread, NEW p \in Prio, Control(t, u, p)
    PROVE  Steady
<1>1. Good(k, {})
  BY IpcInvGood
<1>2. "control" \in Ops /\ pc' = pc /\ k' = ChangePriority(k, u, p)
  BY DEF Control, Calls
<1>3. SameWaiters(k, k')
  <2>1. PICK v : v = rt_schedule_remove_thread(k, u)
    OBVIOUS
  <2>2. PICK w : w = SetPrio(v, u, p)
    OBVIOUS
  <2> QED
    BY <1>1, <1>2, <2>1, <2>2, ChangePriorityGood
<1>4. /\ k'.err = k.err /\ OrderKept(k, k')
      /\ \A w \in Thread : Armed(k', w) => Armed(k, w)
  BY <1>1, <1>2, ChangePriorityFrame
<1>5. \A w \in Thread : \A o \in Obj : HandedOver(w, o)' <=> HandedOver(w, o)
  BY <1>2, <1>3, <1>4 DEF HandedOver, Taking, SameWaiters
<1>6. WaitersClean => WaitersClean'
  BY <1>3, <1>4 DEF WaitersClean, SameWaiters
<1>7. SameTaking
  BY <1>2 DEF SameTaking, Taking
<1> QED
  BY <1>2, <1>4, <1>5, <1>6, <1>7 DEF Steady

\* Every step of module Ipc is steady.
LEMMA IpcStepSteady ==
    ASSUME IpcInv, NEW D \in SUBSET Obj, IpcStep(D)
    PROVE  Steady
<1>1. User \subseteq Thread
  BY DEF User
<1>2. CASE SystemStep
  BY <1>1, <1>2, TickInterruptSteady, CallScheduleSteady, SleepSteady, SleptSteady
     DEF SystemStep
<1>3. ASSUME NEW t \in Thread, NEW o \in Obj, Delete(t, o) PROVE Steady
  BY <1>3, SameKernelSteady DEF Delete, CallsOn, Calls, Is
<1>4. ASSUME NEW t \in Thread, WakeCheck(t) PROVE Steady
  BY <1>4, SameKernelSteady DEF WakeCheck, Is
<1>5. ASSUME NEW t \in User,
             \/ \E o \in D : Delete(t, o)
             \/ WakeCheck(t) \/ WakeOne(t)
             \/ \E u \in User, p \in Prio : Control(t, u, p)
      PROVE  Steady
  BY <1>1, <1>3, <1>4, <1>5, WakeOneSteady, ControlSteady
<1> QED
  BY <1>2, <1>5 DEF IpcStep

\* A release resumes thread w, which waits for object r: it hands the object over.
LEMMA ResumeHandsOver ==
    ASSUME IpcInv, WaitersClean, SameTaking, k'.err = k.err,
           NEW w \in Thread, NEW r \in Obj, Linked(k, w, r), LosesWaiter(k, k', w)
    PROVE  /\ \A u \in Thread : \A o \in Obj :
                HandedOver(u, o)' <=> HandedOver(u, o) \/ (u = w /\ o = r)
           /\ \A o \in Obj : ~HandedOver(w, o)
           /\ WaitersClean'
<1>1. Taking(w, r) /\ k.stat[w] = "SUSPEND" /\ k.err[w] = "EOK"
  BY IpcInvGood DEF WaitersClean
<1>2. \A o \in Obj : Taking(w, o) <=> o = r
  BY <1>1 DEF Taking
<1>3. \A u \in Thread : \A o \in Obj :
         HandedOver(u, o)' <=> HandedOver(u, o) \/ (u = w /\ o = r)
  BY <1>1, <1>2 DEF HandedOver, SameTaking, LosesWaiter
<1>4. \A o \in Obj : ~HandedOver(w, o)
  BY <1>1 DEF HandedOver
<1>5. WaitersClean'
  BY DEF WaitersClean, LosesWaiter
<1> QED
  BY <1>3, <1>4, <1>5

\* A take returns: what was handed over is taken.
LEMMA TakeReturnsFrame ==
    ASSUME IpcInv, NEW t \in Thread, pc[t].at = "take_ret", k.cur = t,
           k' = k, Goto(t, "run", t)
    PROVE  /\ \A u \in Thread : \A o \in Obj :
                HandedOver(u, o)' <=> HandedOver(u, o) /\ u # t
           /\ \A o \in Obj : HandedOver(t, o) <=> o = pc[t].arg /\ k.err[t] = "EOK"
           /\ WaitersClean => WaitersClean'
<1>1. k.stat[t] = "RUNNING"
  BY Runs
<1>2. \A u \in Thread : pc'[u] = IF u = t THEN [at |-> "run", arg |-> t] ELSE pc[u]
  BY DEF IpcInv, Goto
<1>3. \A u \in Thread : \A o \in Obj : Taking(u, o)' <=> Taking(u, o) /\ u # t
  BY <1>2 DEF Taking
<1>4. \A o \in Obj : HandedOver(t, o) <=> o = pc[t].arg /\ k.err[t] = "EOK"
  BY <1>1 DEF HandedOver, Taking
<1> QED
  BY <1>3, <1>4 DEF HandedOver, WaitersClean

-----------------------------------------------------------------------------
(* The deletion of an object *)

\* Thread t is in the loop of rt_ipc_list_resume_all for object o.
Waking(t, o) == pc[t].at \in {"wake_check", "wake_one"} /\ pc[t].arg = o

\* Only a deleted object has its waiters woken in this way.
WakersDelete == \A t \in Thread : \A o \in Obj : Waking(t, o) => o \in dead

\* Every object has one list, as the semaphore and the mutex do.
OneListEach == \A o \in Obj : Second[o] = o

\* A step of thread t outside the loop keeps it out of the loop.
LEMMA GotoWaking ==
    ASSUME IpcInv, NEW t \in Thread, NEW at, NEW arg, Goto(t, at, arg),
           pc[t].at \notin {"wake_check", "wake_one"}, at \notin {"wake_check", "wake_one"}
    PROVE  \A u \in Thread : \A o \in Obj :
                /\ Waking(u, o)' <=> Waking(u, o)
                /\ pc'[u].at = "wake_one" => pc'[u] = pc[u]
<1>1. /\ pc'[t].at = at /\ \A u \in Thread \ {t} : pc'[u] = pc[u]
  BY GotoPc
<1>2. ASSUME NEW u \in Thread, NEW o \in Obj
      PROVE  /\ Waking(u, o)' <=> Waking(u, o)
             /\ pc'[u].at = "wake_one" => pc'[u] = pc[u]
  <2>1. CASE u = t
    BY <1>1, <2>1 DEF Waking
  <2>2. CASE u # t
    BY <1>1, <2>2 DEF Waking
  <2> QED
    BY <2>1, <2>2
<1> QED
  BY <1>2

\* The steps of module Ipc wake the waiters of deleted objects only.
LEMMA IpcStepWakers ==
    ASSUME IpcInv, WakersDelete, OneListEach, NEW D \in SUBSET Obj, IpcStep(D)
    PROVE  WakersDelete'
<1>1. User \subseteq Thread
  BY DEF User
<1>2. ASSUME \A u \in Thread : \A o \in Obj : Waking(u, o)' => Waking(u, o), dead' = dead
      PROVE  WakersDelete'
  BY <1>2 DEF WakersDelete
<1>3. CASE SystemStep /\ UNCHANGED <<dead, fault>>
  <2>1. CASE TickInterrupt
    BY <1>2, <1>3, <2>1 DEF TickInterrupt, Waking
  <2>2. ASSUME NEW t \in User, CallSchedule(t) PROVE WakersDelete'
    <3>1. /\ pc[t].at \notin {"wake_check", "wake_one"}
          /\ After[pc[t].at] \notin {"wake_check", "wake_one"}
          /\ Goto(t, After[pc[t].at], pc[t].arg)
      BY <2>2 DEF CallSchedule, After
    <3> QED
      BY <1>1, <1>2, <1>3, <3>1, GotoWaking
  <2>3. ASSUME NEW t \in User, Slept(t) PROVE WakersDelete'
    <3>1. Goto(t, "run", t) /\ pc[t].at = "slept"
      BY <2>3 DEF Slept, Is
    <3> QED
      BY <1>1, <1>2, <1>3, <3>1, GotoWaking
  <2>4. ASSUME NEW t \in User, NEW ticks \in Delays, Sleep(t, ticks) PROVE WakersDelete'
    <3>1. Goto(t, "sleep_sched", t) /\ pc[t].at = "run"
      BY <2>4 DEF Sleep, Calls, Is
    <3> QED
      BY <1>1, <1>2, <1>3, <3>1, GotoWaking
  <2> QED
    BY <1>3, <2>1, <2>2, <2>3, <2>4 DEF SystemStep
<1>4. ASSUME NEW t \in User, NEW o \in Obj, Delete(t, o) PROVE WakersDelete'
  <2>1. Goto(t, "wake_check", o) /\ dead' = dead \cup {o, Second[o]}
    BY <1>4 DEF Delete
  <2>2. /\ pc'[t].arg = o /\ \A u \in Thread \ {t} : pc'[u] = pc[u]
    BY <1>1, <2>1, GotoPc
  <2> QED
    BY <2>1, <2>2 DEF WakersDelete, Waking
<1>5. ASSUME NEW t \in User, WakeCheck(t) PROVE WakersDelete'
  <2>1. /\ pc[t].at = "wake_check" /\ pc[t].arg \in Obj /\ dead' = dead
        /\ Goto(t, "wake_one", pc[t].arg) \/ Goto(t, "run", t)
    BY <1>1, <1>5 DEF WakeCheck, Is, IpcInv, ArgIsObject, OneListEach
  <2>2. /\ pc'[t].at = "run" \/ pc'[t].arg = pc[t].arg
        /\ \A u \in Thread \ {t} : pc'[u] = pc[u]
    BY <1>1, <2>1, GotoPc
  <2> QED
    BY <1>1, <2>1, <2>2 DEF WakersDelete, Waking
<1>6. ASSUME NEW t \in User, WakeOne(t) PROVE WakersDelete'
  <2>1. pc[t].at = "wake_one" /\ Goto(t, "wake_check", pc[t].arg) /\ dead' = dead
    BY <1>6 DEF WakeOne, Is
  <2>2. /\ pc'[t].arg = pc[t].arg /\ \A u \in Thread \ {t} : pc'[u] = pc[u]
    BY <1>1, <2>1, GotoPc
  <2> QED
    BY <1>1, <2>1, <2>2 DEF WakersDelete, Waking
<1>7. ASSUME NEW t \in User, NEW u \in User, NEW p \in Prio, Control(t, u, p)
      PROVE  WakersDelete'
  BY <1>2, <1>7 DEF Control, Waking
<1> QED
  BY <1>3, <1>4, <1>5, <1>6, <1>7 DEF IpcStep

\* Preemption is full while no object is deleted, in handlers too: whoever has
\* no rt_schedule in front of it is the most urgent.
Prompt ==
    dead = {} /\ isr # "masked" /\ pc[k.cur].at \notin DOMAIN After => Urgent(k, {})

\* A step that leaves the current thread, the states and the priorities alone
LEMMA SamePrompt ==
    ASSUME Prompt, dead' = dead, isr # "masked",
           k'.cur = k.cur, k'.stat = k.stat, k'.prio = k.prio,
           \/ pc' = pc
           \/ pc[k.cur].at \notin DOMAIN After
    PROVE  Prompt'
BY DEF Prompt, Urgent

\* The steps of module Ipc keep preemption full.
LEMMA IpcStepPrompt ==
    ASSUME IpcInv, k.lock = 0, WakersDelete, Prompt, "control" \notin Ops,
           NEW D \in SUBSET Obj, IpcStep(D)
    PROVE  Prompt'
<1>1. Good(k, {}) /\ k.lock = 0 /\ User \subseteq Thread
  BY IpcInvGood DEF User
<1>2. CASE TickInterrupt /\ UNCHANGED <<dead, fault>>
  <2>1. CASE TickIncrease
    <3>1. \/ Urgent(k', {})
          \/ k'.cur = k.cur /\ k'.stat = k.stat /\ k'.prio = k.prio
      BY <1>1, <2>1, TickUrgent DEF TickIncrease
    <3>2. isr # "masked" /\ pc' = pc /\ dead' = dead
      BY <1>2, <2>1 DEF TickIncrease, TickInterrupt
    <3> QED
      BY <3>1, <3>2, SamePrompt DEF Prompt
  <2>2. CASE TimerExpires
    <3>1. PICK t : t = Head(k.tlist)
      OBVIOUS
    <3>2. PICK s : s = TimerStop(k, t)
      OBVIOUS
    <3>3. k.tlist # << >> /\ k' = rt_thread_timeout(s, t)
      BY <2>2, <3>1, <3>2 DEF TimerExpires, HeadExpired
    <3>4. Urgent(k', {})
      BY <1>1, <3>1, <3>2, <3>3, ExpireUrgent
    <3> QED
      BY <3>4 DEF Prompt
  <2>3. CASE TickReturn
    <3>1. isr # "masked" /\ pc' = pc /\ dead' = dead /\ k' = k
      BY <1>2, <2>3 DEF TickReturn, TickInterrupt
    <3> QED
      BY <3>1, SamePrompt
  <2> QED
    BY <1>2, <2>1, <2>2, <2>3 DEF TickInterrupt
<1>3. ASSUME NEW t \in User, CallSchedule(t) PROVE Prompt'
  <2>1. k' = rt_schedule(k)
    BY <1>3 DEF CallSchedule
  <2>2. Urgent(k', {})
    BY <1>1, <2>1, ScheduleUrgent
  <2> QED
    BY <2>2 DEF Prompt
<1>4. ASSUME NEW t \in User, Slept(t), dead' = dead PROVE Prompt'
  <2>0. PICK e : e = IF k.err[t] = "ETIMEOUT" THEN "EOK" ELSE k.err[t]
    OBVIOUS
  <2>1. /\ isr # "masked" /\ k.cur = t /\ pc[t].at = "slept"
        /\ k'.cur = k.cur /\ k'.stat = k.stat /\ k'.prio = k.prio
    <3>1. isr # "masked" /\ k.cur = t /\ pc[t].at = "slept" /\ k' = SetErr(k, t, e)
      BY <1>4, <2>0 DEF Slept, Is, SetErr
    <3> QED
      BY <1>1, <3>1 DEF SetErr, Good, Kstate
  <2>2. pc[k.cur].at \notin DOMAIN After
    BY <2>1 DEF After
  <2> QED
    BY <1>4, <2>1, <2>2, SamePrompt
<1>5. ASSUME NEW t \in User, NEW ticks \in Delays, Sleep(t, ticks),
             UNCHANGED <<dead, fault>>
      PROVE  Prompt'
  <2>1. k.cur = t /\ pc[t].at = "run" /\ k' = TimerStart(rt_thread_suspend(k, t), t, ticks)
    BY <1>5 DEF Sleep, Calls, Is
  <2>2. PICK s : s = rt_thread_suspend(k, t)
    OBVIOUS
  <2>3. t \in Thread /\ t # Idle /\ ticks \in Nat
    BY SystemAssumption DEF User
  <2>4. k.stat[t] = "RUNNING"
    BY <2>1, <2>3, Runs
  <2>5. /\ Good(s, {}) /\ s.cur = k.cur
        /\ \A u \in Thread : s.stat[u] = IF u = t THEN "SUSPEND" ELSE k.stat[u]
    <3>1. PICK v : v = rt_schedule_remove_thread(k, t)
      OBVIOUS
    <3>2. PICK x : x = SetStat(v, t, "SUSPEND")
      OBVIOUS
    <3>3. k.stat[t] \in {"READY", "RUNNING"}
      BY <2>4
    <3> QED
      BY <1>1, <2>2, <2>3, <3>1, <3>2, <3>3, SuspendGood
  <2>6. k'.cur = s.cur
    <3>1. PICK v : v = TimerStop(s, t)
      OBVIOUS
    <3> QED
      BY <2>1, <2>2, <2>3, <2>5, <3>1, TimerStartGood
  <2>7. pc'[k'.cur].at = "sleep_sched"
    <3>1. Goto(t, "sleep_sched", t)
      BY <1>5 DEF Sleep
    <3> QED
      BY <2>1, <2>3, <2>5, <2>6, <3>1, GotoPc
  <2> QED
    BY <2>7 DEF Prompt, After
<1>6. ASSUME NEW t \in User, NEW o \in Obj, Delete(t, o) PROVE Prompt'
  BY <1>6 DEF Delete, Prompt
<1>7. ASSUME NEW t \in User, WakeCheck(t) \/ WakeOne(t) PROVE Prompt'
  <2>1. pc[t].at \in {"wake_check", "wake_one"} /\ dead' = dead /\ pc[t].arg \in Obj
    BY <1>1, <1>7 DEF WakeCheck, WakeOne, Is, IpcInv, ArgIsObject
  <2>2. dead' # {}
    BY <1>1, <2>1 DEF WakersDelete, Waking
  <2> QED
    BY <2>2 DEF Prompt
<1>8. ~\E t, u \in User, p \in Prio : Control(t, u, p)
  BY DEF Control, Calls
<1> QED
  BY <1>2, <1>3, <1>4, <1>5, <1>6, <1>7, <1>8 DEF IpcStep, SystemStep

\* One thread deletes an object.
OneWaker ==
    \A t, u \in Thread : \A o \in Obj : Waking(t, o) /\ Waking(u, o) => t = u

\* The waiters of a deleted object are not taken off its list by a timeout.
DeadUntimed == \A o \in dead : \A u \in Thread : Linked(k, u, o) => ~Armed(k, u)

\* The test that the list is not empty still holds when its first thread is
\* resumed, although interrupts were enabled in between.
WakerFinds == \A t \in Thread : \A o \in Obj :
    pc[t].at = "wake_one" /\ pc[t].arg = o => k.q[o] # << >>

\* As long as a deleted object has waiters its deletion goes on.
StillWoken == \A o \in dead : k.q[o] # << >> => \E t \in User : Waking(t, o)

\* A reset runs with interrupts disabled, on an object that is not deleted.
ResetMasked == \A t \in Thread :
    pc[t].at = "reset_loop" => isr = "masked" /\ k.cur = t /\ pc[t].arg \notin dead

WakesAll ==
    /\ WakersDelete /\ OneWaker /\ DeadUntimed /\ WakerFinds /\ StillWoken
    /\ ResetMasked /\ ~fault

\* The invariant says that a delete wakes every waiter and nothing else.
LEMMA WakesAllSpec ==
    ASSUME WakesAll, OneListEach, IpcInv
    PROVE  DeleteWakesAll
<1>1. ASSUME NEW o \in dead,
             \A t \in User : ~(/\ pc[t].at \in {"wake_check", "wake_one", "mp_check", "mp_wake"}
                               /\ o \in {pc[t].arg, Second[pc[t].arg]})
      PROVE  k.q[o] = << >>
  <2>1. \A t \in User : ~Waking(t, o)
    BY <1>1 DEF Waking
  <2> QED
    BY <2>1 DEF WakesAll, StillWoken
<1> QED
  BY <1>1 DEF WakesAll, DeleteWakesAll, ResumeAllResumesThreads, DeletedHasNoWaiters

\* A step outside the loop that leaves the waiters of deleted objects alone
LEMMA WakesAllKept ==
    ASSUME WakesAll, IpcInv, IpcInv', dead' = dead, fault' = fault,
           \A t \in Thread : \A o \in Obj : /\ Waking(t, o)' <=> Waking(t, o)
                                            /\ pc'[t].at = "wake_one" => pc'[t] = pc[t],
           \A o \in dead : \A u \in Thread : Linked(k', u, o) <=> Linked(k, u, o),
           \A u \in Thread : \A o \in dead : Linked(k', u, o) /\ Armed(k', u) => Armed(k, u),
           ResetMasked'
    PROVE  WakesAll'
<1>1. Good(k, {}) /\ Good(k', {}) /\ dead \subseteq Obj
  <2>1. Good(k, {}) /\ dead \subseteq Obj
    BY IpcInvGood
  <2>2. k' \in Kstate /\ KernelOK(k', {})
    BY DEF IpcInv
  <2> QED
    BY <2>1, <2>2, FlatIff DEF Good
<1>2. \A o \in dead : k'.q[o] = << >> <=> k.q[o] = << >>
  BY <1>1, EmptyIff
<1>3. WakersDelete' /\ OneWaker'
  BY DEF WakesAll, WakersDelete, OneWaker
<1>4. DeadUntimed'
  BY DEF WakesAll, DeadUntimed
<1>5. WakerFinds'
  <2> SUFFICES ASSUME NEW t \in Thread, NEW o \in Obj, pc'[t].at = "wake_one", pc'[t].arg = o
               PROVE  k'.q[o] # << >>
    BY DEF WakerFinds
  <2>1. pc[t].at = "wake_one" /\ pc[t].arg = o
    OBVIOUS
  <2>2. k.q[o] # << >> /\ o \in dead
    BY <2>1 DEF WakesAll, WakerFinds, WakersDelete, Waking
  <2> QED
    BY <1>2, <2>2
<1>6. StillWoken'
  <2> SUFFICES ASSUME NEW o \in dead, k'.q[o] # << >>
               PROVE  \E t \in User : Waking(t, o)'
    BY DEF StillWoken
  <2>1. PICK t \in User : Waking(t, o)
    BY <1>2 DEF WakesAll, StillWoken
  <2> QED
    BY <1>1, <2>1 DEF User
<1> QED
  BY <1>3, <1>4, <1>5, <1>6 DEF WakesAll

\* No thread is in a reset while interrupts are enabled, and none gets there by
\* a step of module Ipc.
LEMMA NoReset ==
    ASSUME WakesAll, IpcInv, isr # "masked",
           \/ pc' = pc
           \/ \E t \in Thread : \E at, arg : at # "reset_loop" /\ Goto(t, at, arg)
    PROVE  ResetMasked'
<1>1. \A u \in Thread : pc[u].at # "reset_loop"
  BY DEF WakesAll, ResetMasked
<1>2. CASE pc' = pc
  BY <1>1, <1>2 DEF ResetMasked
<1>3. ASSUME NEW t \in Thread, NEW at, at # "reset_loop", NEW arg, Goto(t, at, arg)
      PROVE  ResetMasked'
  <2>1. pc'[t].at = at /\ \A u \in Thread \ {t} : pc'[u] = pc[u]
    BY <1>3, GotoPc
  <2>2. pc'[t].at # "reset_loop"
    BY <1>3, <2>1
  <2>3. \A u \in Thread : pc'[u].at # "reset_loop"
    BY <1>1, <2>1, <2>2
  <2> QED
    BY <2>3 DEF ResetMasked
<1> QED
  BY <1>2, <1>3

\* A delete begins.
LEMMA DeleteWakes ==
    ASSUME WakesAll, IpcInv, OneListEach, "delete_timed" \notin Ops,
           NEW t \in User, NEW o \in Obj, Delete(t, o)
    PROVE  WakesAll'
<1>1. /\ isr = "none" /\ pc[t].at = "run" /\ k.cur = t /\ o \notin dead /\ k' = k
      /\ dead' = dead \cup {o, Second[o]} /\ fault' = fault /\ MayWakeAll(o)
      /\ Goto(t, "wake_check", o) /\ t \in Thread
  BY DEF Delete, CallsOn, Calls, Is, User
<1>2. dead' = dead \cup {o}
  BY <1>1 DEF OneListEach
<1>3. /\ pc'[t].at = "wake_check" /\ pc'[t].arg = o
      /\ \A u \in Thread \ {t} : pc'[u] = pc[u]
  BY <1>1, GotoPc
<1>4. \A u \in Thread : ~Waking(u, o)
  BY <1>1 DEF WakesAll, WakersDelete
<1>5. \A u \in Thread : \A r \in Obj : Waking(u, r)' <=> Waking(u, r) \/ (u = t /\ r = o)
  <2>1. ASSUME NEW u \in Thread, NEW r \in Obj, u # t
        PROVE  Waking(u, r)' <=> Waking(u, r)
    BY <1>3, <2>1 DEF Waking
  <2>2. ASSUME NEW r \in Obj
        PROVE  ~Waking(t, r) /\ (Waking(t, r)' <=> r = o)
    BY <1>1, <1>3 DEF Waking
  <2> QED
    BY <2>1, <2>2
<1>6. WakersDelete' /\ OneWaker'
  BY <1>2, <1>4, <1>5 DEF WakesAll, WakersDelete, OneWaker
<1>7. DeadUntimed'
  <2>1. \A u \in Thread : Linked(k, u, o) => ~Armed(k, u)
    BY <1>1 DEF MayWakeAll
  <2> QED
    BY <1>1, <1>2, <2>1 DEF WakesAll, DeadUntimed
<1>8. WakerFinds'
  BY <1>1, <1>3 DEF WakesAll, WakerFinds
<1>9. StillWoken'
  <2> SUFFICES ASSUME NEW r \in dead', k'.q[r] # << >>
               PROVE  \E u \in User : Waking(u, r)'
    BY DEF StillWoken
  <2>1. CASE r = o
    BY <1>1, <1>5, <2>1
  <2>2. CASE r \in dead
    <3>1. PICK u \in User : Waking(u, r)
      BY <1>1, <2>2 DEF WakesAll, StillWoken
    <3>2. r \in Obj
      BY <2>2, IpcInvGood
    <3> QED
      BY <1>5, <3>1, <3>2 DEF User
  <2> QED
    BY <1>2, <2>1, <2>2
<1>10. ResetMasked'
  BY <1>1, NoReset
<1> QED
  BY <1>1, <1>6, <1>7, <1>8, <1>9, <1>10 DEF WakesAll

\* The test of the loop
LEMMA WakeCheckWakes ==
    ASSUME WakesAll, IpcInv, OneListEach, NEW t \in User, WakeCheck(t)
    PROVE  WakesAll'
<1>0. PICK o : o = pc[t].arg
  OBVIOUS
<1>1. /\ isr = "none" /\ pc[t].at = "wake_check" /\ k' = k /\ dead' = dead /\ fault' = fault
      /\ t \in Thread /\ o \in Obj
      /\ \/ k.q[o] # << >> /\ Goto(t, "wake_one", o)
         \/ k.q[o] = << >> /\ Goto(t, "run", t)
  BY <1>0 DEF WakeCheck, Is, User, OneListEach, IpcInv, ArgIsObject
<1>2. /\ \A u \in Thread \ {t} : pc'[u] = pc[u]
      /\ \/ k.q[o] # << >> /\ pc'[t].at = "wake_one" /\ pc'[t].arg = o
         \/ k.q[o] = << >> /\ pc'[t].at = "run"
  BY <1>1, GotoPc
<1>3. \A u \in Thread : \A r \in Obj : Waking(u, r)' => Waking(u, r)
  <2>1. ASSUME NEW u \in Thread, NEW r \in Obj, u # t
        PROVE  Waking(u, r)' => Waking(u, r)
    BY <1>2, <2>1 DEF Waking
  <2>2. ASSUME NEW r \in Obj
        PROVE  Waking(t, r)' => Waking(t, r)
    BY <1>0, <1>1, <1>2 DEF Waking
  <2> QED
    BY <2>1, <2>2
<1>4. WakersDelete' /\ OneWaker'
  BY <1>1, <1>3 DEF WakesAll, WakersDelete, OneWaker
<1>5. DeadUntimed'
  BY <1>1 DEF WakesAll, DeadUntimed
<1>6. WakerFinds'
  BY <1>1, <1>2 DEF WakesAll, WakerFinds
<1>7. StillWoken'
  <2> SUFFICES ASSUME NEW r \in dead, k.q[r] # << >>
               PROVE  \E u \in User : Waking(u, r)'
    BY <1>1 DEF StillWoken
  <2>1. PICK u \in User : Waking(u, r)
    BY DEF WakesAll, StillWoken
  <2>2. CASE u = t
    <3>1. r = o
      BY <1>0, <2>1, <2>2 DEF Waking
    <3>2. Waking(t, r)'
      BY <1>2, <3>1 DEF Waking
    <3> QED
      BY <3>2
  <2>3. CASE u # t
    <3>1. Waking(u, r)'
      BY <1>2, <2>1, <2>3 DEF Waking, User
    <3> QED
      BY <3>1
  <2> QED
    BY <2>2, <2>3
<1>8. ResetMasked'
  BY <1>1, NoReset
<1> QED
  BY <1>1, <1>4, <1>5, <1>6, <1>7, <1>8 DEF WakesAll

\* A turn of the loop
LEMMA WakeOneWakes ==
    ASSUME WakesAll, IpcInv, NEW t \in User, WakeOne(t)
    PROVE  WakesAll'
<1>0. PICK o : o = pc[t].arg
  OBVIOUS
<1>1. /\ isr = "none" /\ pc[t].at = "wake_one" /\ t \in Thread /\ o \in Obj /\ k.q[o] # << >>
  <2>1. isr = "none" /\ pc[t].at = "wake_one" /\ t \in Thread /\ o \in Obj
    BY <1>0 DEF WakeOne, Is, User, IpcInv, ArgIsObject
  <2> QED
    BY <1>0, <2>1 DEF WakesAll, WakerFinds
<1>2. /\ k' = ResumeOneWithError(k, o) /\ dead' = dead /\ fault' = fault
      /\ Goto(t, "wake_check", o)
  BY <1>0, <1>1 DEF WakeOne
<1>3. /\ pc'[t].at = "wake_check" /\ pc'[t].arg = o
      /\ \A u \in Thread \ {t} : pc'[u] = pc[u]
  BY <1>1, <1>2, GotoPc
<1>4. \A u \in Thread : \A r \in Obj : Waking(u, r)' <=> Waking(u, r)
  <2>1. ASSUME NEW u \in Thread, NEW r \in Obj, u # t
        PROVE  Waking(u, r)' <=> Waking(u, r)
    BY <1>3, <2>1 DEF Waking
  <2>2. ASSUME NEW r \in Obj
        PROVE  Waking(t, r)' <=> Waking(t, r)
    BY <1>0, <1>1, <1>3 DEF Waking
  <2> QED
    BY <2>1, <2>2
<1>5. Good(k, {}) /\ dead \subseteq Obj
  BY IpcInvGood
<1>6. PICK w : w = Head(k.q[o])
  OBVIOUS
<1>7. Good(k', {}) /\ LosesWaiter(k, k', w) /\ w \in Thread /\ Linked(k, w, o)
  <2>1. PICK e : e = SetErr(k, w, "ERROR")
    OBVIOUS
  <2> QED
    BY <1>1, <1>2, <1>5, <1>6, <2>1, ResumeOneGood
<1>8. \A u \in Thread : Armed(k', u) => Armed(k, u)
  BY <1>1, <1>2, <1>5, <1>6, ResumeOneMarks DEF Marks
<1>9. \A r \in Obj \ {o} : k'.q[r] = << >> <=> k.q[r] = << >>
  <2> SUFFICES ASSUME NEW r \in Obj, r # o
               PROVE  k'.q[r] = << >> <=> k.q[r] = << >>
    OBVIOUS
  <2>1. ~Linked(k, w, r)
    BY <1>1, <1>5, <1>7 DEF Good, Flat, Lists
  <2>2. \A u \in Thread : Linked(k', u, r) <=> Linked(k, u, r)
    BY <1>7, <2>1 DEF LosesWaiter
  <2> QED
    BY <1>5, <1>7, <2>2, EmptyIff
<1>10. WakersDelete' /\ OneWaker'
  BY <1>2, <1>4 DEF WakesAll, WakersDelete, OneWaker
<1>11. DeadUntimed'
  BY <1>2, <1>5, <1>7, <1>8 DEF WakesAll, DeadUntimed, LosesWaiter
<1>12. WakerFinds'
  <2> SUFFICES ASSUME NEW u \in Thread, NEW r \in Obj, pc'[u].at = "wake_one", pc'[u].arg = r
               PROVE  k'.q[r] # << >>
    BY DEF WakerFinds
  <2>1. u # t
    BY <1>3
  <2>2. pc[u].at = "wake_one" /\ pc[u].arg = r
    BY <1>3, <2>1
  <2>3. r # o
    BY <1>0, <1>1, <2>1, <2>2 DEF WakesAll, OneWaker, Waking
  <2>4. k.q[r] # << >>
    BY <2>2 DEF WakesAll, WakerFinds
  <2> QED
    BY <1>9, <2>3, <2>4
<1>13. StillWoken'
  <2> SUFFICES ASSUME NEW r \in dead, k'.q[r] # << >>
               PROVE  \E u \in User : Waking(u, r)'
    BY <1>2 DEF StillWoken
  <2>1. CASE r = o
    <3>1. Waking(t, o)'
      BY <1>3 DEF Waking
    <3> QED
      BY <2>1, <3>1
  <2>2. CASE r # o
    <3>1. PICK u \in User : Waking(u, r)
      BY <1>5, <1>9, <2>2 DEF WakesAll, StillWoken
    <3> QED
      BY <1>4, <1>5, <3>1 DEF User
  <2> QED
    BY <2>1, <2>2
<1>14. ResetMasked'
  BY <1>1, <1>2, NoReset
<1> QED
  BY <1>2, <1>10, <1>11, <1>12, <1>13, <1>14 DEF WakesAll

\* The steps of module Ipc keep deletion working, if the waiters of a deleted
\* object have no time limit.
LEMMA IpcStepWakes ==
    ASSUME IpcInv, WakesAll, OneListEach, "delete_timed" \notin Ops,
           NEW D \in SUBSET Obj, IpcStep(D)
    PROVE  WakesAll'
<1>1. Good(k, {}) /\ User \subseteq Thread /\ dead \subseteq Obj /\ IpcInv'
  BY IpcInvGood, IpcStepInv DEF User
<1>2. \A u \in Thread : \A o \in Obj : Linked(k', u, o) /\ Armed(k', u) => Armed(k, u)
  BY IpcStepSteady DEF Steady
<1>3. CASE TickInterrupt /\ UNCHANGED <<dead, fault>>
  <2>1. pc' = pc /\ isr # "masked"
    BY <1>3 DEF TickInterrupt, TickIncrease, TimerExpires, TickReturn
  <2>2. \A t \in Thread : \A o \in Obj : /\ Waking(t, o)' <=> Waking(t, o)
                                         /\ pc'[t].at = "wake_one" => pc'[t] = pc[t]
    BY <2>1 DEF Waking
  <2>3. \A o \in dead : \A u \in Thread : Linked(k', u, o) <=> Linked(k, u, o)
    <3>1. CASE TickIncrease
      <4>1. PICK now : now = (k.tick + 1) % TickMod
        OBVIOUS
      <4>2. SameWaiters(k, k')
        BY <1>1, <3>1, <4>1, TickGood DEF TickIncrease
      <4> QED
        BY <1>1, <4>2 DEF SameWaiters
    <3>2. CASE TimerExpires
      <4>1. PICK t : t = Head(k.tlist)
        OBVIOUS
      <4>2. PICK s : s = TimerStop(k, t)
        OBVIOUS
      <4>3. k.tlist # << >> /\ k' = rt_thread_timeout(s, t)
        BY <3>2, <4>1, <4>2 DEF TimerExpires, HeadExpired
      <4>4. LosesWaiter(k, k', t)
        BY <1>1, <4>1, <4>2, <4>3, ExpireGood
      <4>5. t \in Thread /\ Armed(k, t)
        BY <1>1, <4>1, <4>2, <4>3, ExpireMarks
      <4>6. \A o \in dead : ~Linked(k, t, o)
        BY <4>5 DEF WakesAll, DeadUntimed
      <4> QED
        BY <1>1, <4>4, <4>6 DEF LosesWaiter
    <3>3. CASE TickReturn
      BY <3>3 DEF TickReturn
    <3> QED
      BY <1>3, <3>1, <3>2, <3>3 DEF TickInterrupt
  <2>4. ResetMasked'
    BY <2>1, NoReset
  <2> QED
    BY <1>1, <1>2, <1>3, <2>2, <2>3, <2>4, WakesAllKept
<1>4. ASSUME NEW t \in User, CallSchedule(t) \/ Slept(t) \/ \E n \in Delays : Sleep(t, n),
             UNCHANGED <<dead, fault>>
      PROVE  WakesAll'
  <2>1. PICK at, arg :
          /\ Goto(t, at, arg) /\ isr # "masked"
          /\ at \notin {"reset_loop", "wake_check", "wake_one"}
          /\ pc[t].at \notin {"wake_check", "wake_one"}
    <3>1. CASE CallSchedule(t)
      <4>1. pc[t].at \in {"sched", "sleep_sched", "take_sched", "exit_sched"}
        BY <3>1 DEF CallSchedule, After
      <4> QED
        BY <3>1, <4>1 DEF CallSchedule, After
    <3>2. CASE Slept(t) \/ \E n \in Delays : Sleep(t, n)
      BY <1>1, <3>2 DEF Slept, Sleep, Is, Calls
    <3> QED
      BY <1>4, <3>1, <3>2
  <2>2. \A u \in Thread : \A o \in Obj : /\ Waking(u, o)' <=> Waking(u, o)
                                         /\ pc'[u].at = "wake_one" => pc'[u] = pc[u]
    BY <1>1, <2>1, GotoWaking
  <2>3. \A o \in dead : \A u \in Thread : Linked(k', u, o) <=> Linked(k, u, o)
    <3>1. CASE CallSchedule(t)
      <4>1. k' = rt_schedule(k)
        BY <3>1 DEF CallSchedule
      <4>2. /\ Good(k', {})
            /\ \A u \in Thread : \A o \in Obj : Linked(k', u, o) <=> Linked(k, u, o)
        BY <1>1, <4>1, ScheduleGood
      <4> QED
        BY <1>1, <4>2
    <3>2. CASE Slept(t)
      <4>1. k'.q = k.q
        BY <1>1, <3>2 DEF Slept, Good, Kstate
      <4> QED
        BY <4>1 DEF Linked
    <3>3. ASSUME NEW n \in Delays, Sleep(t, n)
          PROVE  \A o \in dead : \A u \in Thread : Linked(k', u, o) <=> Linked(k, u, o)
      <4>1. k.cur = t /\ pc[t].at = "run" /\ k' = TimerStart(rt_thread_suspend(k, t), t, n)
        BY <3>3 DEF Sleep, Calls, Is
      <4>2. PICK s : s = rt_thread_suspend(k, t)
        OBVIOUS
      <4>3. t \in Thread /\ t # Idle /\ n \in Nat
        BY SystemAssumption DEF User
      <4>4. k.stat[t] \in {"READY", "RUNNING"}
        BY <4>1, <4>3, Runs
      <4>5. /\ Good(s, {})
            /\ \A u \in Thread : \A o \in Obj : Linked(s, u, o) <=> Linked(k, u, o)
            /\ \A u \in Thread : s.stat[u] = IF u = t THEN "SUSPEND" ELSE k.stat[u]
        <5>1. PICK v : v = rt_schedule_remove_thread(k, t)
          OBVIOUS
        <5>2. PICK x : x = SetStat(v, t, "SUSPEND")
          OBVIOUS
        <5> QED
          BY <1>1, <4>2, <4>3, <4>4, <5>1, <5>2, SuspendGood
      <4>6. k'.q = s.q
        <5>1. PICK v : v = TimerStop(s, t)
          OBVIOUS
        <5> QED
          BY <4>1, <4>2, <4>3, <4>5, <5>1, TimerStartGood
      <4> QED
        BY <1>1, <4>5, <4>6 DEF Linked
    <3> QED
      BY <1>4, <3>1, <3>2, <3>3
  <2>4. ResetMasked'
    BY <1>1, <2>1, NoReset
  <2> QED
    BY <1>1, <1>2, <1>4, <2>2, <2>3, <2>4, WakesAllKept
<1>5. ASSUME NEW t \in User, NEW u \in User, NEW p \in Prio, Control(t, u, p)
      PROVE  WakesAll'
  <2>1. /\ isr # "masked" /\ pc' = pc /\ dead' = dead /\ fault' = fault
        /\ k' = ChangePriority(k, u, p)
    BY <1>5 DEF Control, Calls, Is
  <2>2. \A w \in Thread : \A o \in Obj : /\ Waking(w, o)' <=> Waking(w, o)
                                         /\ pc'[w].at = "wake_one" => pc'[w] = pc[w]
    BY <2>1 DEF Waking
  <2>3. SameWaiters(k, k')
    <3>1. PICK v : v = rt_schedule_remove_thread(k, u)
      OBVIOUS
    <3>2. PICK w : w = SetPrio(v, u, p)
      OBVIOUS
    <3> QED
      BY <1>1, <2>1, <3>1, <3>2, ChangePriorityGood
  <2>4. \A o \in dead : \A w \in Thread : Linked(k', w, o) <=> Linked(k, w, o)
    BY <1>1, <2>3 DEF SameWaiters
  <2>5. ResetMasked'
    BY <2>1, NoReset
  <2> QED
    BY <1>1, <1>2, <2>1, <2>2, <2>4, <2>5, WakesAllKept
<1> QED
  BY <1>3, <1>4, <1>5, DeleteWakes, WakeCheckWakes, WakeOneWakes DEF IpcStep, SystemStep

-----------------------------------------------------------------------------
(* Order of the waiters, and the initial state *)

\* A step that keeps order and priorities keeps the lists of flag PRIO sorted.
LEMMA OrderMostUrgent ==
    ASSUME MostUrgentFirst, OrderKept(k, k'), k'.prio = k.prio
    PROVE  MostUrgentFirst'
<1>1. \A o \in Obj : Flag[o] = "PRIO" => Sorted(k, o)
  BY DEF MostUrgentFirst, Sorted
<1>2. \A o \in Obj : Flag[o] = "PRIO" => Sorted(k', o)
  BY <1>1, OrderSorted DEF OrderKept
<1> QED
  BY <1>2 DEF MostUrgentFirst, Sorted

\* A take suspends its caller on the list of object r, after a change of the
\* kernel state that affects at most priorities.
LEMMA BlocksFrame ==
    ASSUME IpcInv, NEW t \in User, NEW r \in Obj, NEW time \in Times,
           k.cur = t, pc[t].at = "run",
           NEW n, Good(n, {}), SameWaiters(k, n), \A u \in Thread : n.stat[u] = k.stat[u],
           n.cur = k.cur, n.lock = k.lock, n.err = k.err,
           \A u \in Thread : Armed(n, u) => Armed(k, u),
           k' = SuspendSelfOn(n, r, Flag[r], time), Goto(t, "take_sched", r),
           UNCHANGED <<isr, dead, fault>>
    PROVE  /\ IpcInv'
           /\ \A u \in Thread : \A o \in Obj : HandedOver(u, o)' <=> HandedOver(u, o)
           /\ WaitersClean => WaitersClean'
           /\ (\A o \in Obj : Flag[o] = "PRIO" => Sorted(n, o)) => MostUrgentFirst'
           /\ k'.prio = n.prio /\ k'.cur = k.cur
           /\ \A u \in Thread : \A o \in Obj :
                Linked(k', u, o) <=> Linked(k, u, o) \/ (u = t /\ o = r)
           /\ \A o \in Obj : ~Linked(k, t, o)
           /\ \A u \in Thread : Armed(k', u) => Armed(k, u) \/ u = t
<1>1. /\ Good(k, {}) /\ t \in Thread /\ t # Idle /\ time \in Int
      /\ dead \subseteq Obj /\ fault \in BOOLEAN /\ isr \in Isr
      /\ \A u \in Thread : \A o \in Obj :
            Linked(k, u, o) <=> Taking(u, o) /\ k.stat[u] = "SUSPEND"
  BY IpcInvGood, IpcAssumption DEF User
<1>2. k.stat[t] = "RUNNING" /\ n.stat[t] = "RUNNING"
  BY <1>1, Runs
<1>3. /\ Good(k', {})
      /\ \A u \in Thread : \A l \in Obj :
            Linked(k', u, l) <=> Linked(n, u, l) \/ (u = t /\ l = r)
      /\ \A u \in Thread : k'.stat[u] = IF u = t THEN "SUSPEND" ELSE n.stat[u]
      /\ k'.cur = n.cur /\ k'.lock = n.lock
  <2>1. PICK e : e = SetErr(n, t, "EOK")
    OBVIOUS
  <2>2. PICK x : x = rt_thread_suspend(e, t)
    OBVIOUS
  <2>3. PICK i : i = WaitPosition(x, r, t, Flag[r])
    OBVIOUS
  <2>4. PICK w : w = Link(x, r, i, t)
    OBVIOUS
  <2> QED
    BY <1>1, <1>2, <2>1, <2>2, <2>3, <2>4, SuspendSelfOnGood
<1>4. /\ k'.prio = n.prio /\ k'.err = [n.err EXCEPT ![t] = "EOK"]
      /\ \A u \in Thread : Armed(k', u) => Armed(n, u) \/ u = t
      /\ \A l \in Obj \ {r} : KeepsOrder(n.q[l], k'.q[l])
      /\ Flag[r] = "PRIO" /\ Sorted(n, r) => Sorted(k', r)
  BY <1>1, <1>2, SuspendSelfOnFrame
<1>5. \A u \in Thread : k'.err[u] = IF u = t THEN "EOK" ELSE k.err[u]
  BY <1>1, <1>4 DEF Good, Kstate
<1>6. /\ pc'[t].at = "take_sched" /\ pc'[t].arg = r
      /\ \A u \in Thread \ {t} : pc'[u] = pc[u]
  BY <1>1, GotoPc
<1>7. \A u \in Thread : \A o \in Obj : HandedOver(u, o)' <=> HandedOver(u, o)
  <2>1. ASSUME NEW u \in Thread, NEW o \in Obj, u # t
        PROVE  HandedOver(u, o)' <=> HandedOver(u, o)
    BY <1>3, <1>5, <1>6, <2>1 DEF HandedOver, Taking
  <2>2. ASSUME NEW o \in Obj
        PROVE  ~HandedOver(t, o) /\ ~HandedOver(t, o)'
    BY <1>1, <1>3 DEF HandedOver, Taking
  <2> QED
    BY <2>1, <2>2
<1>8. \A u \in Thread : \A o \in Obj :
         Linked(k', u, o) <=> Linked(k, u, o) \/ (u = t /\ o = r)
  BY <1>3 DEF SameWaiters
<1>9. WaitersClean => WaitersClean'
  BY <1>5, <1>8 DEF WaitersClean
<1>10. (\A o \in Obj : Flag[o] = "PRIO" => Sorted(n, o)) => MostUrgentFirst'
  <2> SUFFICES ASSUME \A o \in Obj : Flag[o] = "PRIO" => Sorted(n, o) PROVE MostUrgentFirst'
    OBVIOUS
  <2>1. \A o \in Obj : Flag[o] = "PRIO" => Sorted(k', o)
    BY <1>4, OrderSorted
  <2> QED
    BY <2>1 DEF MostUrgentFirst, Sorted
<1>11. \A o \in Obj : ~Linked(k, t, o)
  BY <1>1, <1>2
<1>12. IpcInv'
  <2>1. k' \in Kstate /\ KernelOK(k', {}) /\ k'.lock = k.lock /\ k'.cur \in Thread
    BY <1>1, <1>3, FlatIff DEF Good
  <2>2. LockHeld' /\ DOMAIN pc' = Thread
    BY <1>1, <2>1, StaysUnlocked, GotoAll
  <2>3. isr' \in Isr /\ dead' \subseteq Obj /\ fault' \in BOOLEAN
    BY <1>1
  <2>4. CurrentRuns(k', pc'[k'.cur].at)
    BY <1>3, <1>6 DEF CurrentRuns
  <2>5. \A u \in Thread : ArgIsObject(pc'[u])
    BY <1>6 DEF IpcInv, ArgIsObject
  <2>6. \A u \in Thread : \A o \in Obj :
           Linked(k', u, o) <=> Taking(u, o)' /\ k'.stat[u] = "SUSPEND"
    <3>1. ASSUME NEW u \in Thread, NEW o \in Obj, u # t
          PROVE  Linked(k', u, o) <=> Taking(u, o)' /\ k'.stat[u] = "SUSPEND"
      BY <1>1, <1>3, <1>6, <1>8, <3>1 DEF Taking
    <3>2. ASSUME NEW o \in Obj
          PROVE  Linked(k', t, o) <=> Taking(t, o)' /\ k'.stat[t] = "SUSPEND"
      BY <1>1, <1>3, <1>6, <1>8, <1>11 DEF Taking
    <3> QED
      BY <3>1, <3>2
  <2> QED
    BY <2>1, <2>2, <2>3, <2>4, <2>5, <2>6 DEF IpcInv, WaitersListed
<1> QED
  BY <1>3, <1>4, <1>7, <1>8, <1>9, <1>10, <1>11, <1>12

\* A step that leaves the kernel state and the call points alone
LEMMA SameStateSteady ==
    ASSUME IpcInv, k' = k, pc' = pc
    PROVE  Steady /\ SameTaking
<1>1. SameTaking
  BY DEF SameTaking, Taking
<1>2. Undisturbed(k, k') /\ SameWaiters(k, k')
  BY SameFieldsQuiet, SameKernel
<1> QED
  BY <1>1, <1>2, QuietSteady

\* A release by a thread or by an interrupt handler resumes the first waiter.
LEMMA ReleaseFrame ==
    ASSUME IpcInv, NEW r \in Obj, k.q[r] # << >>, NEW w, w = Head(k.q[r]),
           k' = rt_ipc_list_resume(k, r) \/ k' = rt_schedule(rt_ipc_list_resume(k, r))
    PROVE  w \in Thread /\ Linked(k, w, r) /\ Undisturbed(k, k') /\ LosesWaiter(k, k', w)
<1>1. Good(k, {})
  BY IpcInvGood
<1>2. PICK m : m = rt_ipc_list_resume(k, r)
  OBVIOUS
<1>3. Good(m, {}) /\ LosesWaiter(k, m, w) /\ w \in Thread /\ Linked(k, w, r)
  BY <1>1, <1>2, ListResumeGood
<1>4. Undisturbed(k, m)
  BY <1>1, <1>2, ListResumeQuiet
<1>5. CASE k' = m
  BY <1>3, <1>4, <1>5
<1>6. CASE k' = rt_schedule(m)
  <2>1. Undisturbed(k, k')
    BY <1>3, <1>4, <1>6, ScheduleQuiet, QuietTrans
  <2>2. /\ Good(k', {})
        /\ \A u \in Thread : \A o \in Obj : Linked(k', u, o) <=> Linked(m, u, o)
        /\ \A u \in Thread : m.stat[u] = "SUSPEND" <=> k'.stat[u] = "SUSPEND"
    BY <1>3, <1>6, ScheduleGood
  <2>3. LosesWaiter(k, k', w)
    BY <1>3, <2>2 DEF LosesWaiter
  <2> QED
    BY <1>3, <2>1, <2>3
<1> QED
  BY <1>2, <1>5, <1>6

\* When the scheduler starts nobody waits and the most urgent thread runs.
LEMMA IpcInitOrder ==
    ASSUME SystemInit(Thread), dead = {}, fault = FALSE
    PROVE  /\ WaitersClean /\ MostUrgentFirst /\ Prompt /\ WakesAll
           /\ \A t \in Thread : \A o \in Obj : ~Taking(t, o)
           /\ k.prio = InitPrio
<1>1. /\ k = Booted(Thread, InitPrio) /\ isr = "none"
      /\ \A t \in Thread : pc[t].at = "run"
  BY DEF SystemInit
<1>2. /\ Good(k, {})
      /\ \A u \in Thread : \A o \in Obj : ~Linked(k, u, o)
      /\ k.prio = InitPrio /\ Urgent(k, {})
  <2>1. Idle \in Thread /\ MayBoot(Thread, InitPrio)
    BY KernelAssumption, SystemAssumption DEF MayBoot
  <2> QED
    BY <1>1, <2>1, BootGood
<1>3. \A o \in Obj : k.q[o] = << >>
  BY <1>2, EmptyIff
<1>4. WaitersClean
  BY <1>2 DEF WaitersClean
<1>5. MostUrgentFirst
  BY <1>3 DEF MostUrgentFirst
<1>6. \A t \in Thread : \A o \in Obj : ~Taking(t, o) /\ ~Waking(t, o)
  BY <1>1 DEF Taking, Waking
<1>7. WakesAll
  BY <1>1, <1>6 DEF WakesAll, WakersDelete, OneWaker, DeadUntimed, WakerFinds, StillWoken,
                    ResetMasked
<1> QED
  BY <1>2, <1>4, <1>5, <1>6, <1>7 DEF Prompt

-----------------------------------------------------------------------------
(* What a step does to the waiters of one object                           *)

\* Thread u waits for object o, or its wait timed out and it has not yet returned.
Unanswered(u, o) == Taking(u, o) /\ (k.stat[u] = "SUSPEND" \/ k.err[u] = "ETIMEOUT")

\* The step adds no waiter to object o and hands it over to nobody.
Calm(o) == \A u \in Thread :
    /\ Linked(k', u, o) => Linked(k, u, o)
    /\ HandedOver(u, o)' <=> HandedOver(u, o)
    /\ Taking(u, o)' => Taking(u, o)
    /\ Linked(k', u, o) /\ Armed(k', u) => Armed(k, u)

\* And nobody leaves its list but by a timeout.
Untouched(o) ==
    /\ Calm(o)
    /\ \A u \in Thread : /\ Unanswered(u, o)' <=> Unanswered(u, o)
                         /\ Linked(k, u, o) /\ ~Armed(k, u) => Linked(k', u, o)

\* The suspended threads of W leave the lists, with error e or, for "EOK", with none,
\* and the threads of T return from their takes.
Shift(W, e, T) == \A u \in Thread : \A o \in Obj :
    /\ Linked(k', u, o) <=> Linked(k, u, o) /\ u \notin W
    /\ Taking(u, o)' <=> Taking(u, o) /\ u \notin T
    /\ HandedOver(u, o)' <=>
          u \notin T /\ (HandedOver(u, o) \/ (e = "EOK" /\ u \in W /\ Linked(k, u, o)))
    /\ Unanswered(u, o)' <=> u \notin T /\ Unanswered(u, o) /\ (u \in W => e = "ETIMEOUT")
    /\ Linked(k', u, o) /\ Armed(k', u) => Armed(k, u)

\* What the kernel functions do to the threads that are in a take
Affects(x, y, W, e) ==
    /\ \A u \in Thread : \A o \in Obj : Linked(y, u, o) <=> Linked(x, u, o) /\ u \notin W
    /\ \A u \in Thread : \A o \in Obj : Taking(u, o) =>
        /\ y.stat[u] = "SUSPEND" <=> x.stat[u] = "SUSPEND" /\ u \notin W
        /\ y.err[u] = IF u \in W /\ e # "EOK" THEN e ELSE x.err[u]
    /\ \A u \in Thread : Armed(y, u) => Armed(x, u) \/ \A o \in Obj : ~Linked(x, u, o)

\* A step in which no take begins or ends shifts the threads that it affects.
LEMMA ShiftSpec ==
    ASSUME IpcInv, WaitersClean, SameTaking, NEW W, NEW e, Affects(k, k', W, e),
           \A u \in W : k.stat[u] = "SUSPEND"
    PROVE  Shift(W, e, {}) /\ WaitersClean'
<1>1. \A u \in Thread : \A o \in Obj :
          Linked(k, u, o) <=> Taking(u, o) /\ k.stat[u] = "SUSPEND"
  BY IpcInvGood
<1>2. \A u \in Thread : \A o \in Obj :
        /\ Linked(k, u, o) => k.err[u] = "EOK"
        /\ Taking(u, o)' <=> Taking(u, o)
        /\ Linked(k', u, o) <=> Linked(k, u, o) /\ u \notin W
        /\ Linked(k', u, o) /\ Armed(k', u) => Armed(k, u)
        /\ Taking(u, o) =>
            /\ k'.stat[u] = "SUSPEND" <=> k.stat[u] = "SUSPEND" /\ u \notin W
            /\ k'.err[u] = IF u \in W /\ e # "EOK" THEN e ELSE k.err[u]
  BY DEF WaitersClean, SameTaking, Affects
<1>3. ASSUME NEW u \in Thread, NEW o \in Obj
      PROVE  /\ HandedOver(u, o)' <=> HandedOver(u, o) \/ (e = "EOK" /\ u \in W /\ Linked(k, u, o))
             /\ Unanswered(u, o)' <=> Unanswered(u, o) /\ (u \in W => e = "ETIMEOUT")
             /\ Linked(k', u, o) => k'.err[u] = "EOK"
  <2>1. CASE Taking(u, o)
    <3>1. CASE u \in W
      <4>1. Linked(k, u, o) /\ k.err[u] = "EOK" /\ k.stat[u] = "SUSPEND"
        BY <1>1, <1>2, <2>1, <3>1
      <4>2. k'.stat[u] # "SUSPEND" /\ k'.err[u] = e /\ ~Linked(k', u, o)
        BY <1>2, <2>1, <3>1, <4>1
      <4> QED
        BY <1>2, <2>1, <3>1, <4>1, <4>2 DEF HandedOver, Unanswered
    <3>2. CASE u \notin W
      BY <1>2, <2>1, <3>2 DEF HandedOver, Unanswered
    <3> QED
      BY <3>1, <3>2
  <2>2. CASE ~Taking(u, o)
    BY <1>1, <1>2, <2>2 DEF HandedOver, Unanswered
  <2> QED
    BY <2>1, <2>2
<1>4. WaitersClean'
  BY <1>3 DEF WaitersClean
<1> QED
  BY <1>2, <1>3, <1>4 DEF Shift

\* A take returns, and drops its error.
LEMMA ReturnShift ==
    ASSUME IpcInv, WaitersClean, NEW t \in Thread, pc[t].at = "take_ret", k.cur = t,
           k' = k \/ k' = SetErr(k, t, "EOK"),
           NEW at, at \notin {"take_sched", "take_ret"}, NEW arg, Goto(t, at, arg)
    PROVE  Shift({}, "EOK", {t}) /\ WaitersClean' /\ k'.stat = k.stat
<1>1. Good(k, {}) /\ k.stat[t] = "RUNNING"
  BY Runs, IpcInvGood
<1>2. /\ k'.stat = k.stat /\ k'.q = k.q /\ k'.tlist = k.tlist
      /\ \A u \in Thread : u # t => k'.err[u] = k.err[u]
  BY <1>1 DEF SetErr, Good, Kstate
<1>3. /\ pc'[t].at = at /\ \A u \in Thread \ {t} : pc'[u] = pc[u]
  BY GotoPc
<1>4. \A u \in Thread : \A o \in Obj : Taking(u, o)' <=> Taking(u, o) /\ u # t
  BY <1>3 DEF Taking
<1>5. \A o \in Obj : ~Linked(k, t, o)
  BY <1>1 DEF Good, Flat
<1>6. \A u \in Thread : \A o \in Obj : Linked(k', u, o) <=> Linked(k, u, o)
  BY <1>2 DEF Linked
<1>7. \A u \in Thread : Armed(k', u) <=> Armed(k, u)
  BY <1>2 DEF Armed
<1>8. ASSUME NEW u \in Thread, NEW o \in Obj
      PROVE  /\ HandedOver(u, o)' <=> u # t /\ HandedOver(u, o)
             /\ Unanswered(u, o)' <=> u # t /\ Unanswered(u, o)
             /\ Linked(k', u, o) => k'.err[u] = "EOK"
  BY <1>2, <1>4, <1>5, <1>6 DEF HandedOver, Unanswered, WaitersClean
<1>9. WaitersClean'
  BY <1>8 DEF WaitersClean
<1> QED
  BY <1>2, <1>4, <1>6, <1>7, <1>8, <1>9 DEF Shift

\* The objects that the threads of W do not wait for are untouched, whoever returns
\* from the take of another one.
LEMMA ShiftUntouched ==
    ASSUME IpcInv, NEW W, NEW e, NEW T, Shift(W, e, T), NEW o \in Obj,
           \A u \in T : ~Taking(u, o), \A u \in W : k.stat[u] = "SUSPEND",
           \A u \in W : Linked(k, u, o) => e = "ETIMEOUT" /\ Armed(k, u)
    PROVE  Untouched(o)
<1>1. ASSUME NEW u \in Thread
      PROVE  /\ Linked(k', u, o) => Linked(k, u, o)
             /\ HandedOver(u, o)' <=> HandedOver(u, o)
             /\ Taking(u, o)' => Taking(u, o)
             /\ Linked(k', u, o) /\ Armed(k', u) => Armed(k, u)
  BY DEF Shift, HandedOver
<1>2. ASSUME NEW u \in Thread
      PROVE  /\ Unanswered(u, o)' <=> Unanswered(u, o)
             /\ Linked(k, u, o) /\ ~Armed(k, u) => Linked(k', u, o)
  <2>1. u \in W /\ Unanswered(u, o) => Linked(k, u, o)
    BY IpcInvGood DEF Unanswered
  <2>2. Unanswered(u, o) => Taking(u, o)
    BY DEF Unanswered
  <2> QED
    BY <2>1, <2>2 DEF Shift
<1> QED
  BY <1>1, <1>2 DEF Untouched, Calm

\* The threads that the step suspends were at one of the points P.
Sleepers(P) ==
    \A u \in Thread : k'.stat[u] = "SUSPEND" => k.stat[u] = "SUSPEND" \/ pc[u].at \in P

\* What a step of module Ipc does to the waiters: nothing, or a wait times out, or a
\* waiter is woken with an error.
IpcAffects ==
    /\ Sleepers({"run"})
    /\ \/ Affects(k, k', {}, "EOK")
       \/ \E t \in Thread : /\ Affects(k, k', {t}, "ETIMEOUT")
                            /\ k.stat[t] = "SUSPEND" /\ Armed(k, t)
       \/ \E t, w \in Thread : /\ Affects(k, k', {w}, "ERROR") /\ k.stat[w] = "SUSPEND"
                               /\ pc[t].at = "wake_one" /\ pc'[t].at # "wake_one"
                               /\ Linked(k, w, pc[t].arg)

\* Nobody is resumed.
LEMMA QuietAffects ==
    ASSUME Undisturbed(k, k'), SameWaiters(k, k')
    PROVE  Affects(k, k', {}, "EOK") /\ IpcAffects
<1>1. Affects(k, k', {}, "EOK")
  BY DEF Affects, Undisturbed, SameWaiters
<1> QED
  BY <1>1 DEF IpcAffects, Sleepers, SameWaiters

\* One thread is resumed with an error.
LEMMA MarksAffects ==
    ASSUME Good(k, {}), NEW t \in Thread, NEW e, e # "EOK", Marks(k, k', t, e),
           LosesWaiter(k, k', t)
    PROVE  Affects(k, k', {t}, e) /\ Sleepers({"run"})
<1>1. \A u \in Thread : k'.err[u] = IF u = t THEN e ELSE k.err[u]
  BY DEF Marks, Good, Kstate
<1> QED
  BY <1>1 DEF Affects, Marks, LosesWaiter, Sleepers

\* The tick handler resumes nobody but the thread whose timer has expired.
LEMMA TickAffects ==
    ASSUME IpcInv, TickInterrupt
    PROVE  IpcAffects
<1>0. Good(k, {})
  BY IpcInvGood
<1>1. CASE TickIncrease
  <2>1. PICK now : now = (k.tick + 1) % TickMod
    OBVIOUS
  <2>2. Undisturbed(k, k') /\ SameWaiters(k, k')
    BY <1>0, <1>1, <2>1, TickQuiet, TickGood DEF TickIncrease
  <2> QED
    BY <2>2, QuietAffects
<1>2. CASE TimerExpires
  <2>1. PICK t : t = Head(k.tlist)
    OBVIOUS
  <2>2. PICK s : s = TimerStop(k, t)
    OBVIOUS
  <2>3. k.tlist # << >> /\ k' = rt_thread_timeout(s, t)
    BY <1>2, <2>1, <2>2 DEF TimerExpires, HeadExpired
  <2>4. t \in Thread /\ Armed(k, t) /\ Marks(k, k', t, "ETIMEOUT")
    BY <1>0, <2>1, <2>2, <2>3, ExpireMarks
  <2>5. LosesWaiter(k, k', t)
    BY <1>0, <2>1, <2>2, <2>3, ExpireGood
  <2>6. k.stat[t] = "SUSPEND"
    BY <1>0, <2>4 DEF Good, Flat
  <2>7. Affects(k, k', {t}, "ETIMEOUT") /\ Sleepers({"run"})
    BY <1>0, <2>4, <2>5, MarksAffects
  <2> QED
    BY <2>4, <2>6, <2>7 DEF IpcAffects
<1>3. CASE TickReturn
  <2>1. Undisturbed(k, k') /\ SameWaiters(k, k')
    BY <1>3, SameFieldsQuiet, SameKernel DEF TickReturn
  <2> QED
    BY <2>1, QuietAffects
<1> QED
  BY <1>1, <1>2, <1>3 DEF TickInterrupt

\* rt_thread_sleep suspends the current thread, which waits for no object.
LEMMA SleepAffects ==
    ASSUME IpcInv, NEW t \in User, NEW ticks \in Delays, Sleep(t, ticks)
    PROVE  IpcAffects
<1>1. Good(k, {})
  BY IpcInvGood
<1>2. t \in Thread /\ t # Idle /\ ticks \in Nat
  BY SystemAssumption DEF User
<1>3. /\ k.cur = t /\ pc[t].at = "run"
      /\ k' = TimerStart(rt_thread_suspend(k, t), t, ticks)
  BY DEF Sleep, Calls, Is
<1>4. k.stat[t] = "RUNNING" /\ \A o \in Obj : ~Linked(k, t, o)
  BY <1>1, <1>2, <1>3, Runs DEF Good, Flat
<1>5. PICK s : s = rt_thread_suspend(k, t)
  OBVIOUS
<1>6. /\ Good(s, {}) /\ Undisturbed(k, s)
      /\ \A u \in Thread : \A o \in Obj : Linked(s, u, o) <=> Linked(k, u, o)
      /\ \A u \in Thread : s.stat[u] = IF u = t THEN "SUSPEND" ELSE k.stat[u]
  <2>1. PICK v : v = rt_schedule_remove_thread(k, t)
    OBVIOUS
  <2>2. PICK x : x = SetStat(v, t, "SUSPEND")
    OBVIOUS
  <2>3. k.stat[t] \in {"READY", "RUNNING"}
    BY <1>4
  <2> QED
    BY <1>1, <1>2, <1>5, <2>1, <2>2, <2>3, SuspendGood, SuspendQuiet
<1>7. /\ k'.stat = s.stat /\ k'.q = s.q /\ k'.err = s.err
      /\ \A u \in Thread : Armed(k', u) <=> Armed(s, u) \/ u = t
  <2>1. PICK v : v = TimerStop(s, t)
    OBVIOUS
  <2>2. s.stat[t] = "SUSPEND" /\ k' = TimerStart(s, t, ticks)
    BY <1>2, <1>3, <1>5, <1>6
  <2>3. k'.err = s.err
    BY <1>6, <2>2 DEF TimerStart, TimerStop, Good, Kstate
  <2> QED
    BY <1>2, <1>6, <2>1, <2>2, <2>3, TimerStartGood
<1>8. \A u \in Thread : \A o \in Obj : Linked(k', u, o) <=> Linked(k, u, o)
  BY <1>6, <1>7 DEF Linked
<1>9. \A o \in Obj : ~Taking(t, o)
  BY <1>3 DEF Taking
<1>10. Affects(k, k', {}, "EOK")
  BY <1>4, <1>6, <1>7, <1>8, <1>9 DEF Affects, Undisturbed
<1>11. Sleepers({"run"})
  BY <1>3, <1>6, <1>7 DEF Sleepers
<1> QED
  BY <1>10, <1>11 DEF IpcAffects

\* A thread that wakes the waiters of a deleted object resumes one of them.
LEMMA ThreadAffects ==
    ASSUME IpcInv, NEW t \in Thread,
           CallSchedule(t) \/ Slept(t) \/ WakeCheck(t) \/ WakeOne(t) \/ k' = k
             \/ \E u \in Thread, p \in Prio : Control(t, u, p)
    PROVE  IpcAffects
<1>0. Good(k, {})
  BY IpcInvGood
<1>1. CASE k' = k
  <2>1. Undisturbed(k, k') /\ SameWaiters(k, k')
    BY <1>1, SameFieldsQuiet, SameKernel
  <2> QED
    BY <2>1, QuietAffects
<1>2. CASE CallSchedule(t)
  <2>1. k' = rt_schedule(k)
    BY <1>2 DEF CallSchedule
  <2>2. Undisturbed(k, k')
    BY <1>0, <2>1, ScheduleQuiet
  <2>3. /\ Good(k', {})
        /\ \A u \in Thread : \A o \in Obj : Linked(k', u, o) <=> Linked(k, u, o)
        /\ \A u \in Thread : k.stat[u] = "SUSPEND" <=> k'.stat[u] = "SUSPEND"
    BY <1>0, <2>1, ScheduleGood
  <2>4. SameWaiters(k, k')
    BY <2>3 DEF SameWaiters
  <2> QED
    BY <2>2, <2>4, QuietAffects
<1>3. CASE Slept(t)
  <2>1. PICK e : e = IF k.err[t] = "ETIMEOUT" THEN "EOK" ELSE k.err[t]
    OBVIOUS
  <2>2. pc[t].at = "slept" /\ k' = SetErr(k, t, e)
    BY <1>3, <2>1 DEF Slept, Is, SetErr
  <2>3. /\ k'.q = k.q /\ k'.tlist = k.tlist /\ k'.stat = k.stat
        /\ \A u \in Thread : u # t => k'.err[u] = k.err[u]
    BY <1>0, <2>2 DEF SetErr, Good, Kstate
  <2>4. \A o \in Obj : ~Taking(t, o)
    BY <2>2 DEF Taking
  <2>5. Affects(k, k', {}, "EOK")
    BY <2>3, <2>4 DEF Affects, Linked, Armed
  <2> QED
    BY <2>3, <2>5 DEF IpcAffects, Sleepers
<1>4. ASSUME NEW u \in Thread, NEW p \in Prio, Control(t, u, p) PROVE IpcAffects
  <2>1. k' = ChangePriority(k, u, p)
    BY <1>4 DEF Control
  <2>2. SameWaiters(k, k')
    <3>1. PICK v : v = rt_schedule_remove_thread(k, u)
      OBVIOUS
    <3>2. PICK w : w = SetPrio(v, u, p)
      OBVIOUS
    <3> QED
      BY <1>0, <2>1, <3>1, <3>2, ChangePriorityGood
  <2>3. /\ k'.err = k.err
        /\ \A w \in Thread : Armed(k', w) => Armed(k, w)
    BY <1>0, <2>1, ChangePriorityFrame
  <2>4. Affects(k, k', {}, "EOK")
    BY <2>2, <2>3 DEF Affects, SameWaiters
  <2> QED
    BY <2>2, <2>4 DEF IpcAffects, Sleepers, SameWaiters
<1>5. CASE WakeOne(t)
  <2>1. PICK o : o = pc[t].arg
    OBVIOUS
  <2>2. /\ pc[t].at = "wake_one"
        /\ \/ k.q[o] # << >> /\ k' = ResumeOneWithError(k, o)
           \/ k' = k
    BY <1>5, <2>1 DEF WakeOne, Is
  <2>3. o \in Obj
    BY <2>1, <2>2 DEF IpcInv, ArgIsObject
  <2>4. CASE k.q[o] # << >> /\ k' = ResumeOneWithError(k, o)
    <3>1. PICK w : w = Head(k.q[o])
      OBVIOUS
    <3>2. PICK e : e = SetErr(k, w, "ERROR")
      OBVIOUS
    <3>3. LosesWaiter(k, k', w) /\ w \in Thread
      BY <1>0, <2>3, <2>4, <3>1, <3>2, ResumeOneGood
    <3>4. Marks(k, k', w, "ERROR")
      BY <1>0, <2>3, <2>4, <3>1, ResumeOneMarks
    <3>5. k.stat[w] = "SUSPEND" /\ Linked(k, w, o)
      BY <1>0, <2>3, <2>4, <3>1, HeadSuspended
    <3>6. Affects(k, k', {w}, "ERROR") /\ Sleepers({"run"})
      BY <1>0, <3>3, <3>4, MarksAffects
    <3>7. pc'[t].at # "wake_one"
      <4>1. Goto(t, "wake_check", o)
        BY <1>5, <2>1 DEF WakeOne
      <4> QED
        BY <4>1, GotoPc
    <3> QED
      BY <2>1, <2>2, <3>3, <3>5, <3>6, <3>7 DEF IpcAffects
  <2> QED
    BY <1>1, <2>2, <2>4
<1>6. CASE WakeCheck(t)
  BY <1>1, <1>6 DEF WakeCheck
<1> QED
  BY <1>1, <1>2, <1>3, <1>4, <1>5, <1>6

\* So do all steps of module Ipc.
LEMMA IpcStepAffects ==
    ASSUME IpcInv, NEW D \in SUBSET Obj, IpcStep(D)
    PROVE  IpcAffects
<1>1. User \subseteq Thread
  BY DEF User
<1>2. \A t \in User : \A o \in D : Delete(t, o) => k' = k
  BY DEF Delete
<1> QED
  BY <1>1, <1>2, TickAffects, SleepAffects, ThreadAffects DEF IpcStep, SystemStep

\* The steps of module Ipc leave an object alone unless they wake one of its waiters.
LEMMA IpcStepUntouched ==
    ASSUME IpcInv, WaitersClean, NEW D \in SUBSET Obj, IpcStep(D),
           NEW o \in Obj,
           \A t \in Thread : pc[t].at = "wake_one" /\ pc'[t].at # "wake_one" => pc[t].arg # o
    PROVE  Untouched(o)
<1>1. SameTaking /\ IpcAffects
  BY IpcStepSteady, IpcStepAffects DEF Steady
<1>2. CASE Affects(k, k', {}, "EOK")
  <2>1. Shift({}, "EOK", {})
    BY <1>1, <1>2, ShiftSpec
  <2> QED
    BY <2>1, ShiftUntouched
<1>3. ASSUME NEW t \in Thread, Affects(k, k', {t}, "ETIMEOUT"),
             k.stat[t] = "SUSPEND", Armed(k, t)
      PROVE  Untouched(o)
  <2>1. Shift({t}, "ETIMEOUT", {})
    BY <1>1, <1>3, ShiftSpec
  <2> QED
    BY <1>3, <2>1, ShiftUntouched
<1>4. ASSUME NEW t \in Thread, NEW w \in Thread, Affects(k, k', {w}, "ERROR"),
             k.stat[w] = "SUSPEND", pc[t].at = "wake_one", pc'[t].at # "wake_one",
             Linked(k, w, pc[t].arg)
      PROVE  Untouched(o)
  <2>1. Shift({w}, "ERROR", {})
    BY <1>1, <1>4, ShiftSpec
  <2>2. pc[t].arg \in Obj /\ pc[t].arg # o
    BY <1>4 DEF IpcInv, ArgIsObject
  <2>3. ~Linked(k, w, o)
    BY <1>4, <2>2, IpcInvGood DEF Good, Flat, Lists
  <2> QED
    BY <1>4, <2>1, <2>3, ShiftUntouched
<1> QED
  BY <1>1, <1>2, <1>3, <1>4 DEF IpcAffects

-----------------------------------------------------------------------------
(* Steps that resume any number of waiters, and steps that suspend one      *)

\* From kernel state x to y the suspended threads of W are resumed, with error e or,
\* for "EOK", with the one they have; the current thread stays.
Releases(x, y, W, e) ==
    /\ Good(y, {}) /\ LosesAll(x, y, W)
    /\ \A u \in W : x.stat[u] = "SUSPEND"
    /\ \A u \in Thread : y.err[u] = IF u \in W /\ e # "EOK" THEN e ELSE x.err[u]
    /\ \A u \in Thread : Armed(y, u) => Armed(x, u)
    /\ y.prio = x.prio /\ y.lock = x.lock
    /\ SameRunner(x, y)

\* Nothing happens.
LEMMA ReleasesNone ==
    ASSUME NEW x, Good(x, {}), NEW e
    PROVE  Releases(x, x, {}, e)
BY DEF Releases, LosesAll, SameRunner

\* One thread is resumed.
LEMMA ReleasesOne ==
    ASSUME NEW x, Good(x, {}), NEW t \in Thread, x.stat[t] = "SUSPEND",
           NEW y, y = rt_thread_resume(x, t)
    PROVE  Releases(x, y, {t}, "EOK")
<1>1. PICK v : v = Unlink(x, t)
  OBVIOUS
<1>2. PICK w : w = TimerStop(v, t)
  OBVIOUS
<1>3. /\ Good(y, {}) /\ LosesWaiter(x, y, t)
      /\ y.cur = x.cur /\ y.prio = x.prio /\ y.lock = x.lock
      /\ \A u \in Thread : y.stat[u] = IF u # t THEN x.stat[u]
                                       ELSE IF t = x.cur THEN "RUNNING" ELSE "READY"
  BY <1>1, <1>2, ResumeGood
<1>4. Undisturbed(x, y)
  BY <1>1, <1>2, ResumeQuiet
<1>5. SameRunner(x, y)
  BY <1>3 DEF SameRunner, Good, Kstate
<1> QED
  BY <1>3, <1>4, <1>5, LosesOne DEF Releases, Undisturbed

\* One thread is woken with an error.
LEMMA ReleasesError ==
    ASSUME NEW x, Good(x, {}), NEW o \in Obj, x.q[o] # << >>, NEW t, t = Head(x.q[o]),
           NEW y, y = ResumeOneWithError(x, o)
    PROVE  t \in Thread /\ Linked(x, t, o) /\ Releases(x, y, {t}, "ERROR")
<1>1. PICK e : e = SetErr(x, t, "ERROR")
  OBVIOUS
<1>2. /\ Good(y, {}) /\ LosesWaiter(x, y, t)
      /\ t \in Thread /\ Linked(x, t, o)
      /\ y.prio = x.prio /\ y.lock = x.lock /\ SameRunner(x, y)
  BY <1>1, ResumeOneGood
<1>3. Marks(x, y, t, "ERROR")
  BY ResumeOneMarks
<1>4. \A u \in Thread : y.err[u] = IF u = t THEN "ERROR" ELSE x.err[u]
  BY <1>3 DEF Marks, Good, Kstate
<1>5. x.stat[t] = "SUSPEND"
  BY HeadSuspended
<1> QED
  BY <1>2, <1>3, <1>4, <1>5, LosesOne DEF Releases, Marks

\* One after the other
LEMMA ReleasesTrans ==
    ASSUME NEW x, NEW y, NEW z, NEW V, NEW W, NEW e,
           Releases(x, y, V, e), Releases(y, z, W, e), V \subseteq Thread, W \subseteq Thread
    PROVE  Releases(x, z, V \cup W, e)
<1>1. LosesAll(x, z, V \cup W)
  BY DEF Releases, LosesAll
<1>2. \A u \in V \cup W : x.stat[u] = "SUSPEND"
  BY DEF Releases, LosesAll
<1>3. \A u \in Thread : z.err[u] = IF u \in V \cup W /\ e # "EOK" THEN e ELSE x.err[u]
  BY DEF Releases
<1>4. SameRunner(x, z)
  BY DEF Releases, SameRunner
<1> QED
  BY <1>1, <1>2, <1>3, <1>4 DEF Releases

\* In the terms of the invariant
LEMMA ReleasesShift ==
    ASSUME IpcInv, WaitersClean, SameTaking, NEW W, NEW e, NEW m, Releases(k, m, W, e),
           k' = m \/ k' = rt_schedule(m)
    PROVE  /\ Shift(W, e, {}) /\ WaitersClean' /\ Sleepers({})
           /\ Good(k', {}) /\ LosesAll(k, k', W) /\ k'.lock = k.lock /\ k'.prio = k.prio
<1>1. /\ Good(k', {}) /\ LosesAll(k, k', W) /\ k'.lock = k.lock /\ k'.prio = k.prio
      /\ \A u \in Thread : k'.err[u] = IF u \in W /\ e # "EOK" THEN e ELSE k.err[u]
      /\ \A u \in Thread : Armed(k', u) => Armed(k, u)
  <2>1. CASE k' = m
    BY <2>1 DEF Releases
  <2>2. CASE k' = rt_schedule(m)
    <3>1. /\ Good(k', {}) /\ k'.lock = m.lock /\ k'.prio = m.prio
          /\ \A u \in Thread : \A o \in Obj : Linked(k', u, o) <=> Linked(m, u, o)
          /\ \A u \in Thread : m.stat[u] = "SUSPEND" <=> k'.stat[u] = "SUSPEND"
      BY <2>2, ScheduleGood DEF Releases
    <3>2. Undisturbed(m, k')
      BY <2>2, ScheduleQuiet DEF Releases
    <3> QED
      BY <3>1, <3>2 DEF Releases, LosesAll, Undisturbed
  <2> QED
    BY <2>1, <2>2
<1>2. Affects(k, k', W, e)
  BY <1>1 DEF Affects, LosesAll
<1>3. Shift(W, e, {}) /\ WaitersClean'
  BY <1>2, ShiftSpec DEF Releases
<1> QED
  BY <1>1, <1>3 DEF Sleepers, LosesAll

\* The points of a take and of a data queue's reset
TakePoint == {"take_sched", "take_ret", "dq_check", "dq_wake"}

\* A thread resumes others, and stays the current one or calls rt_schedule.
LEMMA ThreadReleases ==
    ASSUME IpcInv, WaitersClean, NEW W, NEW e, NEW m, Releases(k, m, W, e),
           k' = m \/ k' = rt_schedule(m),
           isr' \in Isr, dead' \subseteq Obj, fault' \in BOOLEAN,
           NEW t \in Thread, k.cur = t, pc[t].at \notin TakePoint \cup {"sleep_sched"},
           NEW at, at \notin TakePoint, NEW arg, ArgIsObject([at |-> at, arg |-> arg]),
           Goto(t, at, arg)
    PROVE  /\ IpcInv' /\ WaitersClean' /\ Shift(W, e, {}) /\ Sleepers({})
           /\ k'.prio = k.prio
<1>1. k.stat[t] = "RUNNING" /\ k.lock = 0
  BY Runs, Unlocked DEF TakePoint
<1>2. SameTaking
  <2>1. pc'[t].at = at /\ \A u \in Thread \ {t} : pc'[u] = pc[u]
    BY GotoPc
  <2> QED
    BY <2>1 DEF SameTaking, Taking, TakePoint
<1>3. /\ Shift(W, e, {}) /\ WaitersClean' /\ Sleepers({})
      /\ Good(k', {}) /\ LosesAll(k, k', W) /\ k'.lock = k.lock /\ k'.prio = k.prio
  BY <1>2, ReleasesShift
<1>4. m.stat[m.cur] = "RUNNING" /\ m.cur = t /\ m.lock = 0 /\ Good(m, {})
  BY <1>1 DEF Releases, SameRunner
<1>5. k'.stat[k'.cur] = "RUNNING" /\ k'.stat[t] # "SUSPEND"
  <2>1. CASE k' = m
    BY <1>4, <2>1
  <2>2. CASE k' = rt_schedule(m)
    <3>1. PICK n : n = rt_schedule(m)
      OBVIOUS
    <3>2. /\ MaySwitch(m) => n.stat[n.cur] = "RUNNING"
          /\ ~MaySwitch(m) => n = m
          /\ \A u \in Thread : m.stat[u] = "SUSPEND" <=> n.stat[u] = "SUSPEND"
      BY ONLY <1>4, <3>1, ScheduleGood
    <3>3. /\ MaySwitch(m) => k'.stat[k'.cur] = "RUNNING"
          /\ ~MaySwitch(m) => k' = m
      BY <2>2, <3>1, <3>2
    <3>4. m.stat[t] = "SUSPEND" <=> k'.stat[t] = "SUSPEND"
      BY <2>2, <3>1, <3>2
    <3>5. k'.stat[t] # "SUSPEND"
      BY <1>4, <3>4
    <3>6. CASE MaySwitch(m)
      BY <3>3, <3>5, <3>6
    <3>7. CASE ~MaySwitch(m)
      BY <1>4, <3>3, <3>5, <3>7
    <3> QED
      BY <3>6, <3>7
  <2> QED
    BY <2>1, <2>2
<1>6. IpcInv'
  BY <1>3, <1>5, MovesPcAll DEF TakePoint
<1> QED
  BY <1>3, <1>6

\* A handler resumes threads, or nothing happens to the kernel state.
LEMMA HandlerReleases ==
    ASSUME IpcInv, WaitersClean, NEW W, NEW e, NEW m, Releases(k, m, W, e),
           k' = m \/ k' = rt_schedule(m),
           isr' \in Isr, dead' \subseteq Obj, fault' \in BOOLEAN, pc' = pc
    PROVE  /\ IpcInv' /\ WaitersClean' /\ Shift(W, e, {}) /\ Sleepers({})
           /\ k'.prio = k.prio
<1>2. SameTaking
  BY DEF SameTaking, Taking
<1>3. /\ Shift(W, e, {}) /\ WaitersClean' /\ Sleepers({})
      /\ Good(k', {}) /\ LosesAll(k, k', W) /\ k'.lock = k.lock /\ k'.prio = k.prio
  BY <1>2, ReleasesShift
<1>4. Good(m, {}) /\ SameRunner(k, m)
  BY DEF Releases
<1>5. k'.stat[k'.cur] = "RUNNING" \/ (k'.cur = k.cur /\ k.stat[k.cur] # "RUNNING")
  <2>1. CASE k' = m
    BY <1>4, <2>1 DEF SameRunner
  <2>2. CASE k' = rt_schedule(m)
    <3>1. /\ MaySwitch(m) => k'.stat[k'.cur] = "RUNNING"
          /\ ~MaySwitch(m) => k' = m
      BY <1>4, <2>2, ScheduleGood
    <3>2. CASE MaySwitch(m)
      BY <3>1, <3>2
    <3>3. CASE ~MaySwitch(m)
      BY <1>4, <3>1, <3>3 DEF SameRunner
    <3> QED
      BY <3>2, <3>3
  <2> QED
    BY <2>1, <2>2
<1>6. k.lock = 0 \/ k'.cur = k.cur
  <2>1. CASE k.lock # 0 /\ k' = rt_schedule(m)
    <3>1. m.lock # 0
      BY <2>1 DEF Releases
    <3>2. ~MaySwitch(m)
      BY <3>1 DEF MaySwitch
    <3>3. k' = m
      BY <1>4, <2>1, <3>2, ScheduleGood
    <3> QED
      BY <1>4, <3>3 DEF SameRunner
  <2> QED
    BY <1>4, <2>1 DEF SameRunner
<1>7. IpcInv'
  BY <1>3, <1>5, <1>6, SamePcAll
<1> QED
  BY <1>3, <1>7

\* A take returns.
LEMMA WaitReturns ==
    ASSUME IpcInv, WaitersClean, NEW t \in Thread, pc[t].at = "take_ret", k.cur = t,
           k' = k \/ k' = SetErr(k, t, "EOK"),
           isr' \in Isr, dead' \subseteq Obj, fault' \in BOOLEAN,
           NEW at, at \notin TakePoint, NEW arg, ArgIsObject([at |-> at, arg |-> arg]),
           Goto(t, at, arg)
    PROVE  /\ IpcInv' /\ WaitersClean' /\ Shift({}, "EOK", {t}) /\ Sleepers({})
           /\ k'.prio = k.prio
<1>1. Good(k, {}) /\ k.stat[t] = "RUNNING"
  BY Runs, IpcInvGood
<1>2. Shift({}, "EOK", {t}) /\ WaitersClean' /\ k'.stat = k.stat
  BY ReturnShift DEF TakePoint
<1>3. /\ Good(k', {}) /\ k'.lock = k.lock /\ k'.cur = k.cur /\ k'.prio = k.prio
      /\ k'.stat = k.stat /\ k'.q = k.q
  BY <1>1, SetErrGood DEF Error
<1>4. LosesAll(k, k', {})
  BY <1>3 DEF LosesAll, Linked
<1>5. IpcInv'
  BY <1>1, <1>3, <1>4, MovesPcAll DEF TakePoint
<1> QED
  BY <1>2, <1>3, <1>5 DEF Sleepers
\* From kernel state x to y the current thread t suspends itself, on list r if that
\* is an object's, with or without a timer.
Suspends(x, y, t, r) ==
    /\ Good(y, {}) /\ y.cur = x.cur /\ y.lock = x.lock /\ y.prio = x.prio
    /\ \A u \in Thread : \A o \in Obj : Linked(y, u, o) <=> Linked(x, u, o) \/ (u = t /\ o = r)
    /\ \A u \in Thread : y.stat[u] = IF u = t THEN "SUSPEND" ELSE x.stat[u]
    /\ \A u \in Thread : y.err[u] = IF u = t /\ r \in Obj THEN "EOK" ELSE x.err[u]
    /\ \A u \in Thread : Armed(y, u) => Armed(x, u) \/ u = t

\* Thread t becomes a waiter of r.
Joins(t, r) == \A u \in Thread : \A o \in Obj :
    /\ Linked(k', u, o) <=> Linked(k, u, o) \/ (u = t /\ o = r)
    /\ Taking(u, o)' <=> Taking(u, o) \/ (u = t /\ o = r)
    /\ HandedOver(u, o)' <=> HandedOver(u, o)
    /\ Unanswered(u, o)' <=> Unanswered(u, o) \/ (u = t /\ o = r)
    /\ Linked(k', u, o) /\ Armed(k', u) => Armed(k, u) \/ (u = t /\ o = r)

\* Every blocking call of ipc.c
LEMMA SuspendSelfBlocks ==
    ASSUME NEW x, Good(x, {}), NEW t \in Thread, t # Idle, x.cur = t, x.stat[t] = "RUNNING",
           NEW r \in Obj, NEW flag, NEW time \in Int, NEW y, y = SuspendSelfOn(x, r, flag, time)
    PROVE  Suspends(x, y, t, r)
<1>1. /\ Good(y, {})
      /\ \A u \in Thread : \A l \in Obj :
            Linked(y, u, l) <=> Linked(x, u, l) \/ (u = t /\ l = r)
      /\ \A u \in Thread : y.stat[u] = IF u = t THEN "SUSPEND" ELSE x.stat[u]
      /\ y.cur = x.cur /\ y.lock = x.lock
  <2>1. PICK e : e = SetErr(x, t, "EOK")
    OBVIOUS
  <2>2. PICK s : s = rt_thread_suspend(e, t)
    OBVIOUS
  <2>3. PICK i : i = WaitPosition(s, r, t, flag)
    OBVIOUS
  <2>4. PICK w : w = Link(s, r, i, t)
    OBVIOUS
  <2> QED
    BY <2>1, <2>2, <2>3, <2>4, SuspendSelfOnGood
<1>2. /\ y.prio = x.prio /\ y.err = [x.err EXCEPT ![t] = "EOK"]
      /\ \A u \in Thread : Armed(y, u) => Armed(x, u) \/ u = t
  BY SuspendSelfOnFrame
<1>3. \A u \in Thread : y.err[u] = IF u = t THEN "EOK" ELSE x.err[u]
  BY <1>2 DEF Good, Kstate
<1> QED
  BY <1>1, <1>2, <1>3 DEF Suspends

\* rt_thread_suspend of the current thread
LEMMA SuspendBlocks ==
    ASSUME NEW x, Good(x, {}), NEW t \in Thread, t # Idle, x.cur = t, x.stat[t] = "RUNNING",
           NEW r, r \notin Obj, NEW y, y = rt_thread_suspend(x, t)
    PROVE  Suspends(x, y, t, r)
<1>1. PICK v : v = rt_schedule_remove_thread(x, t)
  OBVIOUS
<1>2. PICK w : w = SetStat(v, t, "SUSPEND")
  OBVIOUS
<1>3. /\ Good(y, {})
      /\ \A u \in Thread : \A o \in Obj : Linked(y, u, o) <=> Linked(x, u, o)
      /\ \A u \in Thread : y.stat[u] = IF u = t THEN "SUSPEND" ELSE x.stat[u]
      /\ y.cur = x.cur /\ y.prio = x.prio /\ y.lock = x.lock
  BY <1>1, <1>2, SuspendGood
<1>4. Undisturbed(x, y)
  BY <1>1, <1>2, SuspendQuiet
<1> QED
  BY <1>3, <1>4 DEF Suspends, Undisturbed

\* The thread calls rt_schedule next, or has called it already.
LEMMA BlocksJoins ==
    ASSUME IpcInv, WaitersClean, NEW t \in Thread, NEW r, NEW m, Suspends(k, m, t, r),
           k.cur = t, pc[t].at \notin TakePoint \cup {"sleep_sched"},
           \/ k' = m /\ Goto(t, "take_sched", r)
           \/ k' = rt_schedule(m) /\ Goto(t, "take_ret", r),
           isr' \in Isr, dead' \subseteq Obj, fault' \in BOOLEAN
    PROVE  /\ IpcInv' /\ WaitersClean' /\ Joins(t, r) /\ Sleepers({pc[t].at})
           /\ k'.prio = k.prio
<1>1. PICK at : /\ at \in {"take_sched", "take_ret"} /\ Goto(t, at, r)
                /\ at = "take_sched" => k' = m
                /\ at = "take_ret" => k' = rt_schedule(m)
  OBVIOUS
<1>2. /\ k.stat[t] = "RUNNING" /\ k.lock = 0
      /\ \A u \in Thread : \A o \in Obj :
            Linked(k, u, o) <=> Taking(u, o) /\ k.stat[u] = "SUSPEND"
  BY Runs, Unlocked, IpcInvGood DEF TakePoint
<1>3. /\ Good(k', {}) /\ k'.lock = k.lock /\ k'.prio = k.prio
      /\ \A u \in Thread : \A o \in Obj : Linked(k', u, o) <=> Linked(m, u, o)
      /\ \A u \in Thread : m.stat[u] = "SUSPEND" <=> k'.stat[u] = "SUSPEND"
      /\ Undisturbed(m, k')
      /\ at = "take_ret" => k'.stat[k'.cur] = "RUNNING"
  <2>1. CASE at = "take_sched"
    <3>1. Undisturbed(m, k')
      BY <1>1, <2>1, SameFieldsQuiet
    <3> QED
      BY <1>1, <2>1, <3>1 DEF Suspends
  <2>2. CASE at = "take_ret"
    <3>1. PICK n : n = rt_schedule(m)
      OBVIOUS
    <3>2. Good(m, {}) /\ m.lock = 0 /\ m.prio = k.prio /\ m.stat[m.cur] = "SUSPEND"
      BY <1>2 DEF Suspends
    <3>3. /\ Good(n, {}) /\ n.lock = m.lock /\ n.prio = m.prio
          /\ \A u \in Thread : \A o \in Obj : Linked(n, u, o) <=> Linked(m, u, o)
          /\ \A u \in Thread : m.stat[u] = "SUSPEND" <=> n.stat[u] = "SUSPEND"
          /\ MaySwitch(m) => n.stat[n.cur] = "RUNNING"
      BY ONLY <3>1, <3>2, ScheduleGood
    <3>4. Undisturbed(m, n)
      BY ONLY <3>1, <3>2, ScheduleQuiet
    <3>5. MaySwitch(m)
      BY ONLY <3>2, SomebodyRuns
    <3> QED
      BY <1>1, <1>2, <2>2, <3>1, <3>2, <3>3, <3>4, <3>5
  <2> QED
    BY <1>1, <2>1, <2>2
<1>4. /\ \A u \in Thread : \A o \in Obj :
            Linked(k', u, o) <=> Linked(k, u, o) \/ (u = t /\ o = r)
      /\ \A u \in Thread : k'.stat[u] = "SUSPEND" <=> k.stat[u] = "SUSPEND" \/ u = t
      /\ \A u \in Thread : k'.err[u] = IF u = t /\ r \in Obj THEN "EOK" ELSE k.err[u]
      /\ \A u \in Thread : Armed(k', u) => Armed(k, u) \/ u = t
  <2>1. \A u \in Thread : k'.stat[u] = "SUSPEND" <=> k.stat[u] = "SUSPEND" \/ u = t
    <3>1. \A u \in Thread : m.stat[u] = IF u = t THEN "SUSPEND" ELSE k.stat[u]
      BY DEF Suspends
    <3> QED
      BY <1>3, <3>1
  <2> QED
    BY <1>3, <2>1 DEF Suspends, Undisturbed
<1>5. /\ pc'[t].at = at /\ pc'[t].arg = r
      /\ \A u \in Thread \ {t} : pc'[u] = pc[u]
  BY <1>1, GotoPc
<1>6. /\ \A u \in Thread : \A o \in Obj : Taking(u, o)' <=> Taking(u, o) \/ (u = t /\ o = r)
      /\ \A o \in Obj : ~Taking(t, o) /\ ~Linked(k, t, o)
  BY <1>1, <1>2, <1>5 DEF Taking, TakePoint
<1>7. WaitersClean'
  BY <1>4 DEF WaitersClean
<1>8. Joins(t, r)
  <2>1. \A u \in Thread : \A o \in Obj : HandedOver(u, o)' <=> HandedOver(u, o)
    BY <1>4, <1>6 DEF HandedOver
  <2>2. \A u \in Thread : \A o \in Obj :
            Unanswered(u, o)' <=> Unanswered(u, o) \/ (u = t /\ o = r)
    BY <1>4, <1>6 DEF Unanswered
  <2> QED
    BY <1>4, <1>6, <2>1, <2>2 DEF Joins
<1>9. IpcInv'
  <2>1. k' \in Kstate /\ KernelOK(k', {}) /\ k'.lock = k.lock /\ k'.cur \in Thread
    BY <1>3, FlatIff DEF Good, Kstate
  <2>2. LockHeld' /\ DOMAIN pc' = Thread
    BY <1>1, <2>1, StaysUnlocked, GotoAll DEF TakePoint
  <2>3. CurrentRuns(k', pc'[k'.cur].at)
    <3>1. CASE at = "take_sched"
      BY <1>1, <1>5, <3>1 DEF CurrentRuns, Suspends
    <3>2. CASE at = "take_ret"
      BY <1>3, <3>2 DEF CurrentRuns
    <3> QED
      BY <1>1, <3>1, <3>2
  <2>4. \A u \in Thread : ArgIsObject(pc'[u])
    BY <1>1, <1>5 DEF IpcInv, ArgIsObject
  <2>5. \A u \in Thread : \A o \in Obj :
           Linked(k', u, o) <=> Taking(u, o)' /\ k'.stat[u] = "SUSPEND"
    BY <1>2, <1>4, <1>6
  <2> QED
    BY <2>1, <2>2, <2>3, <2>4, <2>5 DEF IpcInv, WaitersListed
<1>10. Sleepers({pc[t].at})
  BY <1>4 DEF Sleepers
<1> QED
  BY <1>3, <1>7, <1>8, <1>9, <1>10

\* The other objects are left alone.
LEMMA JoinsUntouched ==
    ASSUME NEW t, NEW r, Joins(t, r), NEW o \in Obj, o # r
    PROVE  Untouched(o)
BY DEF Joins, Untouched, Calm
=============================================================================
