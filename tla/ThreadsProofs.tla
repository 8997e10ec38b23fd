---------------------------- MODULE ThreadsProofs ----------------------------
(***************************************************************************)
(* The life of a thread, for every number of threads and priorities: the   *)
(* ready table stays consistent in the middle of rt_thread_delete,         *)
(* rt_thread_suspend and rt_thread_resume, and what the idle thread frees  *)
(* is out of the kernel's reach.                                           *)
(***************************************************************************)
EXTENDS Threads, KernelProofs

\* What the callers have to refrain from.  Each clause excludes a race that
\* breaks the kernel: a thread deleted while its timer is armed or resumed by an
\* interrupt handler in the middle of a call about it, a sleeping thread resumed,
\* a thread suspended by another one just when it exits.
Disciplined ==
    /\ "delete_timed" \notin Ops /\ "resume_race" \notin Ops
    /\ "resume" \in Ops => Delays = {}
    /\ "suspend_other" \in Ops => "exit" \notin Ops

DelPoint == {"del_timer", "del_close"}
ResumePoint == {"resume_check", "resume", "insert"}
PcAt == {"run", "slept", "exited", "free"} \cup MidCall \cup DOMAIN After

\* Thread u is closed and nothing in the kernel leads to it.
Gone(x, u) == Apart(x, u) /\ x.cur # u /\ x.stat[u] = "CLOSE"

\* What a thread in the middle of a call, at point p.at, knows of the thread
\* p.arg that the call is about, although interrupts are enabled.
Sound(x, p) ==
    /\ p.at \in ResumePoint => ~Armed(x, p.arg)
    /\ p.at = "resume_check" => x.stat[p.arg] = "SUSPEND" \/ Delays = {}
    /\ p.at \in {"resume", "insert"} => x.stat[p.arg] = "SUSPEND"
    /\ p.at = "insert" => Apart(x, p.arg)
    /\ p.at = "suspend" =>
            p.arg \in User /\ x.stat[p.arg] # "CLOSE" /\ "suspend_other" \in Ops
    /\ p.at \in DelPoint =>
            /\ p.arg \in User /\ Apart(x, p.arg) /\ x.cur # p.arg
            /\ x.stat[p.arg] \in {"INIT", "READY", "SUSPEND"}
    /\ p.at = "free" => Gone(x, p.arg)

\* Two calls are not about the same thread, no thread suspends itself as if it
\* were another one, and a thread that is being deleted is not in the middle of
\* a call itself.
CallsApart ==
    /\ pc[Idle].at \in {"run", "free"}
    /\ \A t \in Thread : pc[t].at # "take_sched" /\ (pc[t].at = "free" => t = Idle)
    /\ \A t, u \in Thread :
            pc[t].at \in MidCall /\ pc[u].at \in MidCall /\ pc[t].arg = pc[u].arg => t = u
    /\ \A t \in Thread : pc[t].at = "suspend" => pc[t].arg # t
    /\ \A t \in Thread : pc[t].at \in DelPoint => pc[pc[t].arg].at \notin MidCall

\* The current thread is RUNNING, except between the moment it gives up the
\* processor and its call of rt_schedule, which finds the scheduler unlocked.
CurrentRuns ==
    k.stat[k.cur] # "RUNNING" =>
        k.lock = 0 /\ pc[k.cur].at \in {"sched", "sleep_sched", "exit_sched"}

\* The inductive invariant.  ThreadsConsistent alone is not inductive: that the
\* last window of rt_thread_resume may link its thread, and the last one of
\* rt_thread_delete too, rests on what no other thread and no interrupt handler
\* did to that thread since the first one.
ThreadsInv ==
    /\ ThreadsTypeOK
    /\ Good(k, Deleting)
    /\ CurrentRuns
    /\ CallsApart
    /\ \A t \in Thread : Sound(k, pc[t])
    /\ \A u \in Thread : k.stat[u] = "CLOSE" => pc[u].at \notin MidCall
    /\ \A u \in free : Gone(k, u)
    /\ pc[Idle].at = "free" => pc[Idle].arg \notin free
    /\ Delays = {} => \A u \in Thread : ~Armed(k, u)

\* The threads that are being deleted
LEMMA DeletingIs ==
    /\ \A u : u \in Deleting <=> \E t \in Thread : pc[t].at \in DelPoint /\ pc[t].arg = u
    /\ \A u : u \in Deleting' <=> \E t \in Thread : pc'[t].at \in DelPoint /\ pc'[t].arg = u
BY DEF Deleting, Targets, DelPoint

\* The threads that a call is about
LEMMA BusyIs ==
    \A u : u \in Busy <=> \E t \in Thread : pc[t].at \in MidCall /\ pc[t].arg = u
BY DEF Busy, Targets

\* The points of a call about a thread
LEMMA Points ==
    /\ DelPoint \subseteq MidCall /\ ResumePoint \subseteq MidCall
    /\ MidCall = DelPoint \cup ResumePoint \cup {"suspend"}
    /\ DelPoint \cap ResumePoint = {} /\ "suspend" \notin DelPoint
    /\ "run" \notin MidCall /\ "free" \notin MidCall /\ "take_sched" \notin MidCall
    /\ DOMAIN After \cap MidCall = {} /\ DOMAIN After \cap {"run", "free"} = {}
BY DEF MidCall, DelPoint, ResumePoint, After

\* The invariant in the terms of the lemmas of KernelProofs
LEMMA InvFacts ==
    ASSUME ThreadsInv
    PROVE  /\ Good(k, Deleting) /\ k \in Kstate /\ Flat(k, Deleting) /\ k.cur \in Thread
           /\ k.lock \in Nat /\ k.lock <= MaxNest /\ k.stat \in [Thread -> Stat]
           /\ isr \in Isr /\ free \subseteq Thread
           /\ pc \in [Thread -> [at : PcAt, arg : Thread]]
           /\ \A t \in Thread : pc[t].arg \in Thread /\ pc[t].at \in PcAt
           /\ Idle \in Thread /\ Idle \notin Deleting /\ k.stat[Idle] \in {"READY", "RUNNING"}
<1>1. pc \in [Thread -> [at : PcAt, arg : Thread]]
  BY DEF ThreadsInv, ThreadsTypeOK, PcAt
<1>2. Idle \in Thread /\ Good(k, Deleting) /\ k \in Kstate /\ k.lock <= MaxNest
  BY KernelAssumption DEF ThreadsInv, ThreadsTypeOK
<1>3. Idle \notin Deleting
  BY DeletingIs DEF ThreadsInv, Sound, User
<1> QED
  BY <1>1, <1>2, <1>3 DEF ThreadsInv, ThreadsTypeOK, Good, Kstate, Flat

\* The current thread is RUNNING outside the calls that give up the processor.
LEMMA Runs ==
    ASSUME ThreadsInv, NEW t \in Thread, k.cur = t,
           pc[t].at \notin {"sched", "sleep_sched", "exit_sched"}
    PROVE  k.stat[t] = "RUNNING"
BY DEF ThreadsInv, CurrentRuns

\* A RUNNING thread is the current one, is aside of nothing and is no victim.
LEMMA RunningFacts ==
    ASSUME ThreadsInv, NEW t \in Thread, k.stat[t] = "RUNNING"
    PROVE  /\ t \notin free /\ t \notin Deleting /\ Apart(k, t) /\ ~Aside(k, t)
           /\ \A v \in Thread : pc[v].at \in {"resume", "insert"} => pc[v].arg # t
<1>1. Good(k, Deleting)
  BY InvFacts
<1>2. Apart(k, t) /\ ~Aside(k, t)
  BY <1>1, RunningFree DEF Apart, Aside
<1>3. t \notin free
  BY DEF ThreadsInv, Gone
<1>4. t \notin Deleting
  BY DeletingIs DEF ThreadsInv, Sound
<1> QED
  BY <1>2, <1>3, <1>4 DEF ThreadsInv, Sound

-----------------------------------------------------------------------------
(* Where the threads are in their calls *)

\* Where the step of a thread leads the thread, and that it leaves the others
\* where they are.
LEMMA GotoPc ==
    ASSUME ThreadsInv, NEW t \in Thread, NEW at \in PcAt, NEW arg \in Thread,
           Goto(t, at, arg)
    PROVE  /\ pc' \in [Thread -> [at : PcAt, arg : Thread]]
           /\ pc'[t] = [at |-> at, arg |-> arg]
           /\ pc'[t].at = at /\ pc'[t].arg = arg
           /\ \A u \in Thread \ {t} : pc'[u] = pc[u]
<1>1. pc \in [Thread -> [at : PcAt, arg : Thread]]
  BY InvFacts
<1>2. [at |-> at, arg |-> arg] \in [at : PcAt, arg : Thread]
  OBVIOUS
<1> QED
  BY <1>1, <1>2 DEF Goto

\* A step in which no thread moves on
LEMMA SamePc ==
    ASSUME ThreadsInv, pc' = pc
    PROVE  /\ CallsApart' /\ Deleting' = Deleting
           /\ pc' \in [Thread -> [at : PcAt, arg : Thread]]
<1>1. Deleting' = Deleting
  BY DEF Deleting, Targets
<1>2. CallsApart'
  BY DEF ThreadsInv, CallsApart
<1> QED
  BY <1>1, <1>2, InvFacts

\* Thread t ends a call, or moves on outside the calls about another thread.
LEMMA LeavesCall ==
    ASSUME ThreadsInv, NEW t \in User, NEW at \in PcAt, NEW arg \in Thread,
           at \notin MidCall, at \notin {"free", "take_sched"},
           pc[t].at \notin DelPoint, Goto(t, at, arg)
    PROVE  CallsApart' /\ Deleting' = Deleting
<1>1. t \in Thread /\ t # Idle
  BY DEF User
<1>2. /\ pc'[t].at = at /\ pc'[t].arg = arg
      /\ \A u \in Thread \ {t} : pc'[u] = pc[u]
  BY <1>1, GotoPc
<1>3. at \notin DelPoint
  BY Points
<1>4. \A u : u \in Deleting' <=> u \in Deleting
  BY <1>1, <1>2, <1>3, DeletingIs
<1>5. CallsApart /\ Idle \in Thread
  BY KernelAssumption DEF ThreadsInv
<1>6. CallsApart'
  <2>1. pc'[Idle].at \in {"run", "free"}
    BY <1>1, <1>2, <1>5 DEF CallsApart
  <2>2. \A v \in Thread : pc'[v].at # "take_sched" /\ (pc'[v].at = "free" => v = Idle)
    BY <1>1, <1>2, <1>5 DEF CallsApart
  <2>3. \A v, u \in Thread :
          pc'[v].at \in MidCall /\ pc'[u].at \in MidCall /\ pc'[v].arg = pc'[u].arg => v = u
    BY <1>2, <1>5 DEF CallsApart
  <2>4. \A v \in Thread : pc'[v].at \in DelPoint => pc'[pc'[v].arg].at \notin MidCall
    BY <1>2, <1>3, <1>5, InvFacts DEF CallsApart
  <2>5. at # "suspend"
    BY Points
  <2>6. \A v \in Thread : pc'[v].at = "suspend" => pc'[v].arg # v
    BY <1>2, <1>5, <2>5 DEF CallsApart
  <2> QED
    BY <2>1, <2>2, <2>3, <2>4, <2>6 DEF CallsApart
<1> QED
  BY <1>4, <1>6

\* Thread t starts a call about another thread that nobody else's call is about.
LEMMA EntersCall ==
    ASSUME ThreadsInv, NEW t \in User, NEW at \in MidCall, at \notin DelPoint,
           NEW arg \in Thread, pc[t].at = "run", arg \notin Busy, t \notin Deleting,
           at = "suspend" => arg # t, Goto(t, at, arg)
    PROVE  CallsApart' /\ Deleting' = Deleting
<1>1. t \in Thread /\ t # Idle /\ at \in PcAt
  BY DEF User, PcAt
<1>2. /\ pc'[t].at = at /\ pc'[t].arg = arg
      /\ \A u \in Thread \ {t} : pc'[u] = pc[u]
  BY <1>1, GotoPc
<1>3. /\ at \notin DelPoint /\ at \in MidCall /\ at # "free" /\ at # "take_sched"
      /\ pc[t].at \notin MidCall
  BY Points
<1>4. \A u : u \in Deleting' <=> u \in Deleting
  BY <1>1, <1>2, <1>3, DeletingIs, Points
<1>5. CallsApart /\ Idle \in Thread
  BY KernelAssumption DEF ThreadsInv
<1>6. \A v \in Thread : pc[v].at \in DelPoint => pc[v].arg # t
  BY DeletingIs
<1>7. \A v \in Thread : pc[v].at \in MidCall => pc[v].arg # arg
  BY BusyIs
<1>8. CallsApart'
  <2>1. pc'[Idle].at \in {"run", "free"}
    BY <1>1, <1>2, <1>5 DEF CallsApart
  <2>2. \A v \in Thread : pc'[v].at # "take_sched" /\ (pc'[v].at = "free" => v = Idle)
    BY <1>1, <1>2, <1>3, <1>5 DEF CallsApart
  <2>3. \A v, u \in Thread :
          pc'[v].at \in MidCall /\ pc'[u].at \in MidCall /\ pc'[v].arg = pc'[u].arg => v = u
    BY <1>1, <1>2, <1>5, <1>7 DEF CallsApart
  <2>4. \A v \in Thread : pc'[v].at \in DelPoint => pc'[pc'[v].arg].at \notin MidCall
    BY <1>1, <1>2, <1>3, <1>5, <1>6, InvFacts DEF CallsApart
  <2>5. \A v \in Thread : pc'[v].at = "suspend" => pc'[v].arg # v
    BY <1>1, <1>2, <1>5 DEF CallsApart
  <2> QED
    BY <2>1, <2>2, <2>3, <2>4, <2>5 DEF CallsApart
<1> QED
  BY <1>4, <1>8

\* Thread t goes on with a call about another thread.
LEMMA GoesOn ==
    ASSUME ThreadsInv, NEW t \in User, NEW at \in MidCall, pc[t].at \in MidCall,
           at \in DelPoint <=> pc[t].at \in DelPoint, at # "suspend",
           Goto(t, at, pc[t].arg)
    PROVE  CallsApart' /\ Deleting' = Deleting
<1>1. t \in Thread /\ t # Idle /\ at \in PcAt /\ pc[t].arg \in Thread
  BY InvFacts DEF User, PcAt
<1>2. /\ pc'[t].at = at /\ pc'[t].arg = pc[t].arg
      /\ \A u \in Thread \ {t} : pc'[u] = pc[u]
  BY <1>1, GotoPc
<1>3. at # "free" /\ at # "take_sched"
  BY Points
<1>4. \A u \in Thread : /\ pc'[u].arg = pc[u].arg
                        /\ pc'[u].at \in DelPoint <=> pc[u].at \in DelPoint
                        /\ pc'[u].at \in MidCall <=> pc[u].at \in MidCall
  BY <1>2
<1>5. \A u : u \in Deleting' <=> u \in Deleting
  BY <1>4, DeletingIs
<1>6. CallsApart /\ Idle \in Thread
  BY KernelAssumption DEF ThreadsInv
<1>7. CallsApart'
  BY <1>1, <1>2, <1>3, <1>4, <1>6, InvFacts DEF CallsApart
<1> QED
  BY <1>5, <1>7

\* The idle thread reaps a thread.
LEMMA IdleGoes ==
    ASSUME ThreadsInv, NEW at \in {"run", "free"}, NEW arg \in Thread, Goto(Idle, at, arg)
    PROVE  CallsApart' /\ Deleting' = Deleting
<1>1. Idle \in Thread /\ at \in PcAt /\ at \notin MidCall
  BY KernelAssumption, Points DEF PcAt
<1>2. /\ pc'[Idle].at = at /\ pc'[Idle].arg = arg
      /\ \A u \in Thread \ {Idle} : pc'[u] = pc[u]
  BY <1>1, GotoPc
<1>3. CallsApart /\ pc[Idle].at \notin MidCall
  BY Points DEF ThreadsInv, CallsApart
<1>4. at \notin DelPoint /\ pc[Idle].at \notin DelPoint
  BY <1>1, <1>3, Points
<1>5. \A u : u \in Deleting' <=> u \in Deleting
  BY <1>1, <1>2, <1>4, DeletingIs
<1>6. CallsApart'
  BY <1>1, <1>2, <1>3, <1>4, InvFacts DEF CallsApart
<1> QED
  BY <1>5, <1>6

-----------------------------------------------------------------------------
(* What a step leaves true *)

\* What a call knows of a thread stays true in a step that spares the thread.
LEMMA StillSound ==
    ASSUME NEW x, NEW y, NEW X, NEW Y, Good(x, X), Good(y, Y), NEW S, Spares(x, y, S),
           NEW p, p.arg \in Thread, p.arg \notin S, Sound(x, p)
    PROVE  Sound(y, p)
<1> DEFINE u == p.arg
<1>1. u \in Thread /\ LeftAlone(x, y, u) /\ Flat(x, X) /\ Flat(y, Y)
  BY DEF Spares, Good
<1>2. \A z \in {x, y} : /\ z.stat[u] \in {"SUSPEND", "CLOSE", "INIT"} => Aside(z, u)
                        /\ Armed(z, u) => Aside(z, u)
  BY <1>1 DEF Flat, Aside
<1>3. x.stat[u] \in {"INIT", "READY", "SUSPEND"} /\ Apart(x, u) => Aside(x, u)
  BY DEF Aside, Apart, Lists
<1>4. Aside(x, u) /\ Apart(x, u) => Apart(y, u)
  BY <1>1 DEF LeftAlone, Apart
<1> HIDE DEF u, Aside
<1>5. ~Armed(x, u) => ~Armed(y, u)
  BY <1>1, <1>2 DEF LeftAlone
<1>6. x.stat[u] # "CLOSE" => y.stat[u] # "CLOSE"
  BY <1>1, <1>2 DEF LeftAlone
<1>7. Aside(x, u) => y.stat[u] = x.stat[u] /\ (x.cur # u => y.cur # u)
  BY <1>1 DEF LeftAlone
<1>8. Gone(x, u) => Gone(y, u)
  BY <1>2, <1>4, <1>7 DEF Gone
<1> QED
  BY <1>2, <1>3, <1>4, <1>5, <1>6, <1>7, <1>8 DEF Sound, u

\* A closed thread comes back to life only if its memory was free.
ClosedKept == \A u \in Thread : k.stat[u] = "CLOSE" /\ k'.stat[u] # "CLOSE" => u \in free

\* How a step is shown to preserve the invariant: beside the kernel state and the
\* call points, only the threads of S and the calls about them need a look.
LEMMA StepKeeps ==
    ASSUME ThreadsInv, Good(k', Deleting'), k'.lock <= MaxNest, isr' \in Isr,
           free' \subseteq free, pc' \in [Thread -> [at : PcAt, arg : Thread]],
           CallsApart', CurrentRuns',
           NEW S \in SUBSET Thread, Spares(k, k', S),
           \A v \in Thread : pc[v].arg \in S \/ pc'[v] # pc[v] => Sound(k', pc'[v]),
           \A u \in Thread : u \in S \/ pc'[u] # pc[u] =>
                k'.stat[u] # "CLOSE" \/ pc'[u].at \notin MidCall,
           \A u \in S : u \notin free',
           pc'[Idle] # pc[Idle] => pc'[Idle].at = "run" \/ pc'[Idle].arg \notin free',
           Delays = {} => \A u \in S : ~Armed(k', u),
           \A u \in S : k.stat[u] = "CLOSE" /\ k'.stat[u] # "CLOSE" => u \in free
    PROVE  ThreadsInv' /\ ClosedKept
<1>1. /\ Good(k, Deleting) /\ (\A t \in Thread : pc[t].arg \in Thread)
      /\ free \subseteq Thread /\ Idle \in Thread
  BY InvFacts
<1>2. ThreadsTypeOK'
  BY <1>1 DEF ThreadsTypeOK, Good, PcAt
<1>3. \A v \in Thread : Sound(k', pc'[v])
  <2> SUFFICES ASSUME NEW v \in Thread, pc'[v] = pc[v], pc[v].arg \notin S
               PROVE  Sound(k', pc[v])
    OBVIOUS
  <2>1. Sound(k, pc[v])
    BY DEF ThreadsInv
  <2> QED
    BY <1>1, <2>1, StillSound
<1>4. \A u \in Thread \ S : /\ k.stat[u] = "CLOSE" <=> k'.stat[u] = "CLOSE"
                            /\ Armed(k', u) => Armed(k, u)
                            /\ Gone(k, u) => Gone(k', u)
  <2> SUFFICES ASSUME NEW u \in Thread \ S
               PROVE  /\ k.stat[u] = "CLOSE" <=> k'.stat[u] = "CLOSE"
                      /\ Armed(k', u) => Armed(k, u)
                      /\ Gone(k, u) => Gone(k', u)
    OBVIOUS
  <2>1. LeftAlone(k, k', u) /\ Flat(k, Deleting) /\ Flat(k', Deleting')
    BY <1>1 DEF Spares, Good
  <2>2. /\ k.stat[u] = "CLOSE" => Aside(k, u)
        /\ k'.stat[u] = "CLOSE" => Aside(k', u)
        /\ Armed(k', u) => Aside(k', u)
    BY <2>1 DEF Flat, Aside
  <2> HIDE DEF Aside
  <2> QED
    BY <2>1, <2>2 DEF LeftAlone, Gone, Apart
<1>5. \A u \in Thread : k'.stat[u] = "CLOSE" => pc'[u].at \notin MidCall
  BY <1>4 DEF ThreadsInv
<1>6. \A u \in free' : Gone(k', u)
  BY <1>1, <1>4 DEF ThreadsInv
<1>7. pc'[Idle].at = "free" => pc'[Idle].arg \notin free'
  BY <1>1 DEF ThreadsInv
<1>8. Delays = {} => \A u \in Thread : ~Armed(k', u)
  BY <1>4 DEF ThreadsInv
<1>9. ClosedKept
  BY <1>4 DEF ClosedKept
<1> QED
  BY <1>2, <1>3, <1>5, <1>6, <1>7, <1>8, <1>9 DEF ThreadsInv

\* The step of an interrupt handler, or any step in which no thread moves on
LEMMA PcKeeps ==
    ASSUME ThreadsInv, Good(k', Deleting), k'.lock <= MaxNest, isr' \in Isr, free' = free,
           pc' = pc, CurrentRuns',
           NEW S \in SUBSET Thread, Spares(k, k', S),
           \A u \in S : k.stat[u] # "CLOSE" /\ ~Aside(k', u),
           \A v \in Thread : pc[v].arg \in S => Sound(k', pc[v])
    PROVE  ThreadsInv' /\ ClosedKept
<1>1. CallsApart' /\ Deleting' = Deleting /\ pc' \in [Thread -> [at : PcAt, arg : Thread]]
  BY SamePc
<1>2. \A u \in S : k'.stat[u] # "CLOSE" /\ ~Armed(k', u)
  BY NotAside
<1>3. \A u \in S : u \notin free'
  BY DEF ThreadsInv, Gone
<1> QED
  BY <1>1, <1>2, <1>3, StepKeeps

\* What a call knows of a thread that the scheduler deals with: little.
LEMMA SoundOfActive ==
    ASSUME ThreadsInv, NEW X, Good(k', X), NEW u \in Thread, ~Aside(k', u),
           NEW v \in Thread, pc[v].arg = u,
           pc[v].at \notin {"resume", "insert", "free"} \cup DelPoint,
           pc[v].at = "resume_check" => Delays = {}
    PROVE  Sound(k', pc[v])
<1>1. k'.stat[u] # "CLOSE" /\ ~Armed(k', u)
  BY NotAside
<1>2. pc[v].at = "suspend" => u \in User /\ "suspend_other" \in Ops
  BY DEF ThreadsInv, Sound
<1> QED
  BY <1>1, <1>2 DEF Sound, ResumePoint

\* How RunsOrStays keeps the current thread running when no thread moves on.
LEMMA StillRuns ==
    ASSUME ThreadsInv, pc' = pc, RunsOrStays(k, k'), k'.lock = k.lock
    PROVE  CurrentRuns' /\ k'.lock <= MaxNest
<1>1. k.lock <= MaxNest
  BY InvFacts
<1> QED
  BY <1>1 DEF ThreadsInv, CurrentRuns, RunsOrStays

\* The tick interrupt
LEMMA TickInterruptKeeps ==
    ASSUME ThreadsInv, TickInterrupt, free' = free
    PROVE  ThreadsInv' /\ ClosedKept
<1>0. Good(k, Deleting) /\ pc' = pc /\ {} \in SUBSET Thread
  BY InvFacts DEF TickInterrupt
<1>1. CASE TickIncrease
  <2>1. k' = rt_tick_increase(k) /\ isr' \in Isr
    BY <1>1 DEF TickIncrease, Isr
  <2>2. Good(k', Deleting) /\ RunsOrStays(k, k') /\ k'.lock = k.lock
    BY <1>0, <2>1, TickGood
  <2>3. Spares(k, k', {})
    BY <1>0, <2>1, TickSpares
  <2>4. CurrentRuns' /\ k'.lock <= MaxNest
    BY <1>0, <2>2, StillRuns
  <2> QED
    BY <1>0, <2>1, <2>2, <2>3, <2>4, PcKeeps
<1>2. CASE TimerExpires
  <2>1. PICK t : t = Head(k.tlist)
    OBVIOUS
  <2>2. PICK s : s = TimerStop(k, t)
    OBVIOUS
  <2>3. k.tlist # << >> /\ k' = rt_thread_timeout(s, t) /\ isr' \in Isr
    BY <1>2, <2>1, <2>2 DEF TimerExpires, HeadExpired, Isr
  <2>4. Good(k', Deleting) /\ RunsOrStays(k, k') /\ k'.lock = k.lock
    BY <1>0, <2>1, <2>2, <2>3, ExpireGood
  <2>5. t \in Thread /\ Armed(k, t) /\ Spares(k, k', {t}) /\ ~Aside(k', t)
    BY <1>0, <2>1, <2>2, <2>3, ExpireSpares
  <2>6. CurrentRuns' /\ k'.lock <= MaxNest
    BY <1>0, <2>4, StillRuns
  <2>7. k.stat[t] = "SUSPEND"
    BY <1>0, <2>5 DEF Good, Flat
  <2>8. \A v \in Thread : pc[v].arg \in {t} => Sound(k', pc[v])
    <3> SUFFICES ASSUME NEW v \in Thread, pc[v].arg = t PROVE Sound(k', pc[v])
      OBVIOUS
    <3>1. pc[v].at \notin {"resume", "insert", "free", "resume_check"} \cup DelPoint
      BY <2>5 DEF ThreadsInv, Sound, Apart, Gone, ResumePoint
    <3> QED
      BY <2>4, <2>5, <3>1, SoundOfActive
  <2>9. {t} \in SUBSET Thread /\ \A u \in {t} : k.stat[u] # "CLOSE" /\ ~Aside(k', u)
    BY <2>5, <2>7
  <2> QED
    BY <1>0, <2>3, <2>4, <2>5, <2>6, <2>8, <2>9, PcKeeps
<1>3. CASE TickReturn
  <2>1. k' = k /\ isr' \in Isr
    BY <1>3 DEF TickReturn, Isr
  <2>2. Spares(k, k', {}) /\ CurrentRuns' /\ k'.lock <= MaxNest
    BY <1>0, <2>1, SameSpares, InvFacts DEF ThreadsInv, CurrentRuns
  <2> QED
    BY <1>0, <2>1, <2>2, PcKeeps
<1> QED
  BY <1>1, <1>2, <1>3 DEF TickInterrupt

-----------------------------------------------------------------------------
(* The steps of a thread *)

\* Outside the calls about another thread there is nothing to know.
LEMMA SoundOutside ==
    ASSUME NEW x, NEW p, p.at \notin MidCall, p.at # "free"
    PROVE  Sound(x, p)
BY Points DEF Sound, ResumePoint

\* A step of thread t that ends a call, or is outside the calls about another one
LEMMA LeaveKeeps ==
    ASSUME ThreadsInv, NEW t \in User, NEW at \in PcAt, NEW arg \in Thread,
           at \notin MidCall, at \notin {"free", "take_sched"},
           pc[t].at \notin DelPoint, Goto(t, at, arg),
           Good(k', Deleting), k'.lock <= MaxNest, isr' \in Isr, free' \subseteq free,
           CurrentRuns',
           NEW S \in SUBSET Thread, Spares(k, k', S),
           \A v \in Thread \ {t} : pc[v].arg \in S => Sound(k', pc[v]),
           \A u \in S : k'.stat[u] # "CLOSE" \/ u = t,
           \A u \in S : u \notin free',
           Delays = {} => \A u \in S : ~Armed(k', u),
           \A u \in S : k.stat[u] = "CLOSE" /\ k'.stat[u] # "CLOSE" => u \in free
    PROVE  ThreadsInv' /\ ClosedKept
<1>1. t \in Thread /\ t # Idle /\ Idle \in Thread
  BY KernelAssumption DEF User
<1>2. CallsApart' /\ Deleting' = Deleting
  BY LeavesCall
<1>3. /\ pc' \in [Thread -> [at : PcAt, arg : Thread]]
      /\ pc'[t].at = at /\ \A u \in Thread \ {t} : pc'[u] = pc[u]
  BY <1>1, GotoPc
<1>4. Sound(k', pc'[t])
  BY <1>3, SoundOutside
<1>5. \A v \in Thread : pc[v].arg \in S \/ pc'[v] # pc[v] => Sound(k', pc'[v])
  BY <1>3, <1>4
<1>6. \A u \in Thread : u \in S \/ pc'[u] # pc[u] =>
         k'.stat[u] # "CLOSE" \/ pc'[u].at \notin MidCall
  BY <1>3
<1>7. pc'[Idle] = pc[Idle]
  BY <1>1, <1>3
<1>8. Good(k', Deleting')
  BY <1>2
<1> QED
  BY <1>2, <1>3, <1>5, <1>6, <1>7, <1>8, StepKeeps

\* The points that the steps lead to
LEMMA StepPoints ==
    /\ {"run", "sched", "sleep_sched", "exit_sched", "slept", "exited"} \subseteq PcAt
    /\ \A at \in {"run", "sched", "sleep_sched", "exit_sched", "slept", "exited"} :
            at \notin MidCall /\ at \notin {"free", "take_sched"}
BY DEF PcAt, MidCall, After

\* The call of rt_schedule that ends a kernel call
LEMMA CallScheduleKeeps ==
    ASSUME ThreadsInv, NEW t \in User, CallSchedule(t), free' = free
    PROVE  ThreadsInv' /\ ClosedKept
<1>1. /\ Good(k, Deleting) /\ Idle \notin Deleting /\ k.lock <= MaxNest /\ isr \in Isr
      /\ t \in Thread /\ pc[t].arg \in Thread
  BY InvFacts DEF User
<1>2. /\ k.cur = t /\ k' = rt_schedule(k) /\ isr' = isr /\ pc[t].at \in DOMAIN After
      /\ Goto(t, After[pc[t].at], pc[t].arg)
  BY DEF CallSchedule
<1>3. /\ Good(k', Deleting)
      /\ MaySwitch(k) => k'.stat[k'.cur] = "RUNNING"
      /\ ~MaySwitch(k) => k' = k
      /\ k'.lock = k.lock
  BY <1>1, <1>2, ScheduleGood
<1>4. k'.stat[k'.cur] = "RUNNING"
  <2>1. k.stat[k.cur] # "RUNNING" => k.lock = 0
    BY DEF ThreadsInv, CurrentRuns
  <2> QED
    BY <1>1, <1>3, <2>1, SomebodyRuns
<1>5. pc[t].at # "take_sched"
  BY <1>1 DEF ThreadsInv, CallsApart
<1>6. After[pc[t].at] \in {"run", "slept", "exited"}
  BY <1>2, <1>5 DEF After
<1>7. PICK at : at = After[pc[t].at]
  OBVIOUS
<1>8. /\ at \in PcAt /\ at \notin MidCall /\ at \notin {"free", "take_sched"}
      /\ Goto(t, at, pc[t].arg)
  BY <1>2, <1>6, <1>7, StepPoints
<1>9. pc[t].at \notin DelPoint
  BY <1>2, Points
<1>10. Spares(k, k', {})
  BY <1>1, <1>2, ScheduleSpares
<1>11. CurrentRuns'
  BY <1>4 DEF CurrentRuns
<1> QED
  BY <1>1, <1>2, <1>3, <1>8, <1>9, <1>10, <1>11, LeaveKeeps

\* A call that begins in the code of the thread finds it RUNNING.
LEMMA CallerRuns ==
    ASSUME ThreadsInv, NEW t \in User, k.cur = t,
           pc[t].at \notin {"sched", "sleep_sched", "exit_sched"}
    PROVE  /\ t \in Thread /\ t # Idle /\ k.stat[t] = "RUNNING"
           /\ t \notin free /\ t \notin Deleting /\ Apart(k, t)
           /\ \A v \in Thread : pc[v].arg = t =>
                /\ pc[v].at \notin {"resume", "insert", "free"} \cup DelPoint
                /\ pc[v].at = "resume_check" => Delays = {}
<1>1. t \in Thread /\ t # Idle
  BY DEF User
<1>2. k.stat[t] = "RUNNING"
  BY <1>1, Runs
<1>3. t \notin free /\ t \notin Deleting /\ Apart(k, t)
  BY <1>1, <1>2, RunningFacts
<1> QED
  BY <1>1, <1>2, <1>3 DEF ThreadsInv, Sound, Gone

\* rt_thread_sleep returns.
LEMMA SleptKeeps ==
    ASSUME ThreadsInv, NEW t \in User, Slept(t), free' = free
    PROVE  ThreadsInv' /\ ClosedKept
<1>1. Good(k, Deleting) /\ k.lock <= MaxNest /\ isr \in Isr /\ k \in Kstate
  BY InvFacts
<1>2. PICK e : e = IF k.err[t] = "ETIMEOUT" THEN "EOK" ELSE k.err[t]
  OBVIOUS
<1>3. /\ k.cur = t /\ pc[t].at = "slept" /\ isr' = isr /\ Goto(t, "run", t)
      /\ k' = SetErr(k, t, e)
  BY <1>2 DEF Slept, Is, SetErr
<1>4. t \in Thread /\ k.stat[t] = "RUNNING" /\ e \in Error
  BY <1>1, <1>2, <1>3, CallerRuns DEF Kstate, Error
<1>5. /\ Good(k', Deleting)
      /\ k'.cur = k.cur /\ k'.stat = k.stat /\ k'.q = k.q
      /\ k'.tlist = k.tlist /\ k'.lock = k.lock
  BY <1>1, <1>3, <1>4, SetErrGood
<1>6. Spares(k, k', {}) /\ CurrentRuns'
  BY <1>3, <1>4, <1>5, SameSpares DEF CurrentRuns
<1>7. pc[t].at \notin DelPoint
  BY <1>3 DEF DelPoint
<1> QED
  BY <1>1, <1>3, <1>4, <1>5, <1>6, <1>7, StepPoints, LeaveKeeps

\* The current thread gives up the processor: what calls know of it stays true.
LEMMA SelfSound ==
    ASSUME ThreadsInv, NEW t \in User, k.cur = t, pc[t].at = "run",
           Delays = {} => ~Armed(k', t),
           k'.stat[t] = "CLOSE" => "exit" \in Ops, Disciplined,
           NEW v \in Thread, pc[v].arg = t
    PROVE  Sound(k', pc[v])
<1>1. /\ pc[v].at \notin {"resume", "insert", "free"} \cup DelPoint
      /\ pc[v].at = "resume_check" => Delays = {}
  BY CallerRuns
<1>2. pc[v].at = "suspend" => t \in User /\ "suspend_other" \in Ops
  BY DEF ThreadsInv, Sound
<1> QED
  BY <1>1, <1>2 DEF Sound, ResumePoint, Disciplined

\* The current thread is taken away from the scheduler, and moves on to the call
\* of rt_schedule.
LEMMA SelfKeeps ==
    ASSUME ThreadsInv, Disciplined, NEW t \in User, k.cur = t, pc[t].at = "run", k.lock = 0,
           NEW at \in {"sched", "sleep_sched", "exit_sched"}, Goto(t, at, t),
           Good(k', Deleting), ActsOn(k, k', t), k'.lock = k.lock, isr' = isr, free' = free,
           Delays = {} => ~Armed(k', t), k'.stat[t] = "CLOSE" => "exit" \in Ops
    PROVE  ThreadsInv' /\ ClosedKept
<1>1. /\ t \in Thread /\ t # Idle /\ k.stat[t] = "RUNNING" /\ t \notin free
      /\ isr \in Isr /\ k.lock <= MaxNest
  BY CallerRuns, InvFacts
<1>2. at \in PcAt /\ at \notin MidCall /\ at \notin {"free", "take_sched"}
  BY StepPoints
<1>3. pc[t].at \notin DelPoint
  BY DEF DelPoint
<1>4. Spares(k, k', {t}) /\ k'.cur = t /\ {t} \in SUBSET Thread
  BY <1>1, ActsOnSpares DEF ActsOn
<1>5. pc'[t].at = at
  BY <1>1, <1>2, GotoPc
<1>6. CurrentRuns'
  BY <1>4, <1>5 DEF CurrentRuns
<1>7. \A v \in Thread \ {t} : pc[v].arg \in {t} => Sound(k', pc[v])
  BY SelfSound
<1> QED
  BY <1>1, <1>2, <1>3, <1>4, <1>6, <1>7, LeaveKeeps

\* rt_thread_suspend of the current thread
LEMMA SuspendIs ==
    ASSUME NEW t, k.stat[t] \in {"READY", "RUNNING"},
           NEW v, v = rt_schedule_remove_thread(k, t),
           NEW w, w = SetStat(v, t, "SUSPEND")
    PROVE  rt_thread_suspend(k, t) = TimerStop(w, t)
BY DEF rt_thread_suspend, SetStat

\* rt_thread_suspend of the thread itself
LEMMA SuspendSelfKeeps ==
    ASSUME ThreadsInv, Disciplined, NEW t \in User, SuspendSelf(t)
    PROVE  ThreadsInv' /\ ClosedKept
<1>1. /\ k.cur = t /\ pc[t].at = "run" /\ k.lock = 0 /\ isr' = isr /\ free' = free
      /\ k' = rt_thread_suspend(k, t) /\ Goto(t, "sched", t)
  BY DEF SuspendSelf, Calls, Is
<1>2. t \in Thread /\ t # Idle /\ k.stat[t] = "RUNNING" /\ Good(k, Deleting)
  BY <1>1, CallerRuns, InvFacts
<1>3. PICK v : v = rt_schedule_remove_thread(k, t)
  OBVIOUS
<1>4. PICK w : w = SetStat(v, t, "SUSPEND")
  OBVIOUS
<1>5. k' = TimerStop(w, t)
  BY <1>1, <1>2, <1>3, <1>4, SuspendIs
<1>6. /\ Good(k', Deleting) /\ ActsOn(k, k', t) /\ Apart(k', t)
      /\ k'.stat[t] = "SUSPEND" /\ k'.lock = k.lock
  BY <1>2, <1>3, <1>4, <1>5, TakeOutGood
<1>7. ~Armed(k', t) /\ k'.stat[t] # "CLOSE"
  BY <1>6 DEF Apart
<1> QED
  BY <1>1, <1>6, <1>7, SelfKeeps

\* rt_thread_sleep puts the caller to sleep.
LEMMA SleepKeeps ==
    ASSUME ThreadsInv, Disciplined, NEW t \in User, NEW ticks \in Delays, Sleep(t, ticks),
           free' = free
    PROVE  ThreadsInv' /\ ClosedKept
<1>1. /\ k.cur = t /\ pc[t].at = "run" /\ k.lock = 0 /\ isr' = isr
      /\ k' = TimerStart(rt_thread_suspend(k, t), t, ticks) /\ Goto(t, "sleep_sched", t)
  BY DEF Sleep, Calls, Is
<1>2. t \in Thread /\ t # Idle /\ k.stat[t] = "RUNNING" /\ Good(k, Deleting)
  BY <1>1, CallerRuns, InvFacts
<1>3. PICK v : v = rt_schedule_remove_thread(k, t)
  OBVIOUS
<1>4. PICK w : w = SetStat(v, t, "SUSPEND")
  OBVIOUS
<1>5. PICK s : s = TimerStop(w, t)
  OBVIOUS
<1>6. k' = TimerStart(s, t, ticks) /\ ticks \in Nat
  BY <1>1, <1>2, <1>3, <1>4, <1>5, SuspendIs, SystemAssumption
<1>7. Good(s, Deleting) /\ ActsOn(k, s, t) /\ s.stat[t] = "SUSPEND" /\ s.lock = k.lock
  BY <1>2, <1>3, <1>4, <1>5, TakeOutGood
<1>8. PICK r : r = TimerStop(s, t)
  OBVIOUS
<1>9. Good(k', Deleting) /\ k'.stat = s.stat /\ k'.lock = s.lock
  BY <1>2, <1>6, <1>7, <1>8, TimerStartGood
<1>10. ActsOn(s, k', t)
  BY <1>2, <1>6, <1>7, TimerStartActs
<1>11. ActsOn(k, k', t)
  BY <1>7, <1>10, ActsOnTrans
<1>12. Delays # {} /\ k'.stat[t] # "CLOSE" /\ k'.lock = k.lock
  BY <1>7, <1>9
<1> QED
  BY <1>1, <1>9, <1>11, <1>12, SelfKeeps

\* rt_thread_exit
LEMMA ExitKeeps ==
    ASSUME ThreadsInv, Disciplined, NEW t \in User, Exit(t)
    PROVE  ThreadsInv' /\ ClosedKept
<1>1. /\ k.cur = t /\ pc[t].at = "run" /\ k.lock = 0 /\ isr' = isr /\ free' = free
      /\ "exit" \in Ops /\ Goto(t, "exit_sched", t)
  BY DEF Exit, Calls, Is
<1>2. t \in Thread /\ t # Idle /\ Apart(k, t) /\ Good(k, Deleting)
  BY <1>1, CallerRuns, InvFacts
<1>3. PICK v : v = rt_schedule_remove_thread(k, t)
  OBVIOUS
<1>4. PICK w : w = SetStat(v, t, "CLOSE")
  OBVIOUS
<1>5. PICK r : r = TimerStop(w, t)
  OBVIOUS
<1>6. k' = Bury(r, t)
  BY <1>3, <1>4, <1>5 DEF Exit, Bury, SetStat
<1>7. ~Armed(k, t)
  BY <1>2 DEF Apart
<1>8. /\ Good(r, Deleting) /\ ActsOn(k, r, t) /\ Apart(r, t)
      /\ r.stat[t] = "CLOSE" /\ r.lock = k.lock
  BY <1>2, <1>3, <1>4, <1>5, <1>7, TakeOutGood
<1>9. /\ Good(k', Deleting) /\ ActsOn(r, k', t)
      /\ k'.stat = r.stat /\ k'.tlist = r.tlist /\ k'.lock = r.lock
  BY <1>2, <1>6, <1>8, BuryGood DEF Apart
<1>10. ActsOn(k, k', t) /\ ~Armed(k', t) /\ k'.lock = k.lock
  BY <1>8, <1>9, ActsOnTrans DEF Apart, Armed
<1> QED
  BY <1>1, <1>9, <1>10, SelfKeeps

\* rt_thread_yield
LEMMA YieldKeeps ==
    ASSUME ThreadsInv, NEW t \in User, Yield(t)
    PROVE  ThreadsInv' /\ ClosedKept
<1>1. /\ k.cur = t /\ pc[t].at = "run" /\ isr' = isr /\ free' = free /\ pc' = pc
      /\ k' = rt_schedule(k)
  BY DEF Yield, Calls, Is
<1>2. /\ k.stat[t] = "RUNNING" /\ Good(k, Deleting) /\ k.lock <= MaxNest /\ isr \in Isr
      /\ {} \in SUBSET Thread
  BY <1>1, CallerRuns, InvFacts
<1>3. /\ Good(k', Deleting)
      /\ MaySwitch(k) => k'.stat[k'.cur] = "RUNNING"
      /\ ~MaySwitch(k) => k' = k
      /\ k'.lock = k.lock
  BY <1>1, <1>2, ScheduleGood
<1>4. Spares(k, k', {})
  BY <1>1, <1>2, ScheduleSpares
<1>5. CurrentRuns'
  BY <1>1, <1>2, <1>3 DEF CurrentRuns
<1> QED
  BY <1>1, <1>2, <1>3, <1>4, <1>5, PcKeeps

\* rt_thread_control changes a priority.
LEMMA ControlKeeps ==
    ASSUME ThreadsInv, NEW t \in User, NEW u \in Thread, NEW p \in Prio, Control(t, u, p)
    PROVE  ThreadsInv' /\ ClosedKept
<1>1. /\ k.cur = t /\ pc[t].at = "run" /\ isr' = isr /\ free' = free /\ pc' = pc
      /\ u \notin Busy /\ k' = ChangePriority(k, u, p)
  BY DEF Control, Calls, Is
<1>2. /\ k.stat[t] = "RUNNING" /\ Good(k, Deleting) /\ k.lock <= MaxNest /\ isr \in Isr
      /\ {} \in SUBSET Thread /\ t \in Thread
  BY <1>1, CallerRuns, InvFacts
<1>3. u \notin Deleting
  BY <1>1, BusyIs, DeletingIs, Points
<1>4. PICK v : v = rt_schedule_remove_thread(k, u)
  OBVIOUS
<1>5. PICK w : w = SetPrio(v, u, p)
  OBVIOUS
<1>6. /\ Good(k', Deleting) /\ (\A r \in Thread : k'.stat[r] = k.stat[r])
      /\ k'.cur = k.cur /\ k'.lock = k.lock
  BY <1>1, <1>2, <1>4, <1>5, ChangePriorityGood
<1>7. Spares(k, k', {})
  BY <1>1, <1>2, <1>3, ChangePrioritySpares
<1>8. CurrentRuns'
  BY <1>1, <1>2, <1>6 DEF CurrentRuns
<1> QED
  BY <1>1, <1>2, <1>6, <1>7, <1>8, PcKeeps

\* A change of rt_scheduler_lock_nest alone
LEMMA SetLockGood ==
    ASSUME NEW x, NEW X, Good(x, X), NEW nest \in Nat, NEW y, y = [x EXCEPT !.lock = nest]
    PROVE  /\ Good(y, X) /\ y.lock = nest
           /\ y.cur = x.cur /\ y.stat = x.stat /\ y.q = x.q /\ y.tlist = x.tlist
<1>1. x \in Kstate /\ Flat(x, X)
  BY DEF Good
<1>2. /\ y \in Kstate /\ y.lock = nest /\ y.cur = x.cur /\ y.stat = x.stat /\ y.q = x.q
      /\ y.tlist = x.tlist /\ y.prio = x.prio /\ y.group = x.group
  BY <1>1 DEF Kstate
<1>3. Flat(y, X)
  BY <1>1, <1>2 DEF Flat, Linked, Armed
<1> QED
  BY <1>2, <1>3 DEF Good

\* rt_enter_critical
LEMMA EnterCriticalKeeps ==
    ASSUME ThreadsInv, NEW t \in User, EnterCritical(t)
    PROVE  ThreadsInv' /\ ClosedKept
<1>1. /\ k.cur = t /\ pc[t].at = "run" /\ isr' = isr /\ free' = free /\ pc' = pc
      /\ k.lock < MaxNest /\ k' = [k EXCEPT !.lock = k.lock + 1]
  BY DEF EnterCritical, Calls, Is
<1>2. /\ k.stat[t] = "RUNNING" /\ Good(k, Deleting) /\ k.lock \in Nat /\ isr \in Isr
      /\ {} \in SUBSET Thread /\ MaxNest \in Nat
  BY <1>1, CallerRuns, InvFacts, ThreadsAssumption
<1>3. k.lock + 1 \in Nat /\ k.lock + 1 <= MaxNest
  BY <1>1, <1>2
<1>4. /\ Good(k', Deleting) /\ k'.lock = k.lock + 1
      /\ k'.cur = k.cur /\ k'.stat = k.stat /\ k'.q = k.q /\ k'.tlist = k.tlist
  BY <1>1, <1>2, <1>3, SetLockGood
<1>5. Spares(k, k', {}) /\ CurrentRuns'
  BY <1>1, <1>2, <1>4, SameSpares DEF CurrentRuns
<1> QED
  BY <1>1, <1>2, <1>3, <1>4, <1>5, PcKeeps

\* rt_exit_critical up to its call of rt_schedule
LEMMA ExitCriticalKeeps ==
    ASSUME ThreadsInv, NEW t \in User, ExitCritical(t)
    PROVE  ThreadsInv' /\ ClosedKept
<1>1. PICK nest : nest = IF k.lock > 1 THEN k.lock - 1 ELSE 0
  OBVIOUS
<1>2. PICK at : at = IF k.lock > 1 THEN "run" ELSE "sched"
  OBVIOUS
<1>3. /\ k.cur = t /\ pc[t].at = "run" /\ isr' = isr /\ free' = free
      /\ k' = [k EXCEPT !.lock = nest] /\ Goto(t, at, t)
  BY <1>1, <1>2 DEF ExitCritical, Calls, Is
<1>4. /\ k.stat[t] = "RUNNING" /\ Good(k, Deleting) /\ k.lock \in Nat /\ isr \in Isr
      /\ {} \in SUBSET Thread /\ MaxNest \in Nat /\ k.lock <= MaxNest /\ t \in Thread
  BY <1>3, CallerRuns, InvFacts, ThreadsAssumption
<1>5. nest \in Nat /\ nest <= MaxNest
  BY <1>1, <1>4
<1>6. /\ Good(k', Deleting) /\ k'.lock = nest
      /\ k'.cur = k.cur /\ k'.stat = k.stat /\ k'.q = k.q /\ k'.tlist = k.tlist
  BY <1>3, <1>4, <1>5, SetLockGood
<1>7. Spares(k, k', {}) /\ CurrentRuns'
  BY <1>3, <1>4, <1>6, SameSpares DEF CurrentRuns
<1>8. at \in {"run", "sched"} /\ pc[t].at \notin DelPoint
  BY <1>2, <1>3 DEF DelPoint
<1>9. at \in PcAt /\ at \notin MidCall /\ at \notin {"free", "take_sched"}
  BY <1>8, StepPoints
<1> QED
  BY <1>3, <1>4, <1>5, <1>6, <1>7, <1>8, <1>9, LeaveKeeps

\* rt_thread_create: the kernel state
LEMMA CreateGood ==
    ASSUME NEW x, NEW X, Good(x, X), NEW u \in Thread, u # Idle, Apart(x, u), NEW p \in Prio,
           NEW s, s = SetStat(x, u, "INIT"), NEW r, r = SetPrio(s, u, p),
           NEW e, e = SetErr(r, u, "EOK"), NEW y, y = SetClock(e, e.tick, u, Slice)
    PROVE  /\ Good(y, X) /\ ActsOn(x, y, u) /\ Apart(y, u)
           /\ y.stat[u] = "INIT" /\ y.lock = x.lock
<1>1. Good(x, Also(X, u)) /\ x \in Kstate
  BY GoodMore DEF Also, Good
<1>2. (\A l \in Lists : ~Linked(x, u, l)) /\ ~Armed(x, u) /\ "INIT" \in Stat
  BY DEF Apart, Stat
<1>3. /\ Good(s, X)
      /\ s.q = x.q /\ s.tlist = x.tlist /\ s.cur = x.cur /\ s.lock = x.lock
      /\ \A v \in Thread : s.stat[v] = IF v = u THEN "INIT" ELSE x.stat[v]
  BY <1>1, <1>2, SetStatGood
<1>4. s.stat[u] # "READY" /\ \A l \in Prio : ~Linked(s, u, l)
  BY <1>2, <1>3 DEF Linked, Lists
<1>5. /\ Good(r, X)
      /\ r.cur = s.cur /\ r.stat = s.stat /\ r.q = s.q /\ r.tlist = s.tlist /\ r.lock = s.lock
  BY <1>3, <1>4, SetPrioGood
<1>6. "EOK" \in Error /\ Slice \in 1 .. Slice
  BY KernelAssumption DEF Error
<1>7. /\ Good(e, X)
      /\ e.cur = r.cur /\ e.stat = r.stat /\ e.q = r.q /\ e.tlist = r.tlist /\ e.lock = r.lock
  BY <1>5, <1>6, SetErrGood
<1>8. e.tick \in Tick
  BY <1>7 DEF Good, Kstate
<1>9. /\ Good(y, X)
       /\ y.cur = e.cur /\ y.stat = e.stat /\ y.q = e.q /\ y.tlist = e.tlist /\ y.lock = e.lock
  BY <1>6, <1>7, <1>8, SetClockGood
<1>10. ActsOn(x, y, u)
  BY <1>3, <1>5, <1>7, <1>9 DEF ActsOn, Linked, Armed
<1>11. Apart(y, u)
  BY <1>2, <1>3, <1>5, <1>7, <1>9 DEF Apart, Linked, Armed
<1> QED
  BY <1>3, <1>5, <1>7, <1>9, <1>10, <1>11

\* rt_thread_create
LEMMA CreateKeeps ==
    ASSUME ThreadsInv, NEW t \in User, NEW u \in Thread, Create(t, u)
    PROVE  ThreadsInv' /\ ClosedKept
<1>1. /\ k.cur = t /\ pc[t].at = "run" /\ isr' = isr /\ free' = free \ {u} /\ u \in free
      /\ k' = [k EXCEPT !.stat[u] = "INIT", !.prio[u] = InitPrio[u],
                        !.err[u] = "EOK", !.slice[u] = Slice]
      /\ Goto(u, "run", u)
  BY DEF Create, Calls, Is, Goto
<1>2. /\ k.stat[t] = "RUNNING" /\ Good(k, Deleting) /\ isr \in Isr /\ k.lock <= MaxNest
      /\ k.stat[Idle] \in {"READY", "RUNNING"} /\ t \in Thread
  BY <1>1, CallerRuns, InvFacts
<1>3. /\ Gone(k, u) /\ pc[u].at \notin MidCall /\ u \in User /\ InitPrio[u] \in Prio
      /\ Apart(k, u) /\ k.stat[u] = "CLOSE" /\ u # k.cur
  BY <1>1, <1>2, SystemAssumption DEF ThreadsInv, Gone, User
<1>4. PICK s : s = SetStat(k, u, "INIT")
  OBVIOUS
<1>5. PICK r : r = SetPrio(s, u, InitPrio[u])
  OBVIOUS
<1>6. PICK e : e = SetErr(r, u, "EOK")
  OBVIOUS
<1>7. /\ Good(k', Deleting) /\ ActsOn(k, k', u) /\ Apart(k', u)
      /\ k'.stat[u] = "INIT" /\ k'.lock = k.lock
  <2>1. k' = SetClock(e, e.tick, u, Slice)
    <3>1. k \in Kstate
      BY <1>2 DEF Good
    <3>2. e = [k EXCEPT !.stat[u] = "INIT", !.prio[u] = InitPrio[u], !.err[u] = "EOK"]
      BY <1>4, <1>5, <1>6, <3>1 DEF SetErr, SetPrio, SetStat, Kstate
    <3> QED
      BY <1>1, <3>1, <3>2 DEF SetClock, Kstate
  <2>2. u # Idle
    BY <1>3 DEF User
  <2> QED
    BY <1>2, <1>3, <1>4, <1>5, <1>6, <2>1, <2>2, CreateGood
<1>8. Spares(k, k', {u}) /\ CurrentRuns' /\ ~Armed(k', u)
  BY <1>1, <1>2, <1>3, <1>7, ActsOnSpares DEF CurrentRuns, ActsOn, Apart
<1>9. \A v \in Thread \ {u} : pc[v].arg \in {u} => Sound(k', pc[v])
  <2> SUFFICES ASSUME NEW v \in Thread, pc[v].arg = u PROVE Sound(k', pc[v])
    OBVIOUS
  <2>1. Sound(k, pc[v])
    BY DEF ThreadsInv
  <2>2. pc[v].at # "free"
    BY <1>1 DEF ThreadsInv, CallsApart
  <2>3. /\ pc[v].at \notin {"resume", "insert", "suspend"} \cup DelPoint
        /\ pc[v].at = "resume_check" => Delays = {}
    BY <1>3, <2>1 DEF Sound
  <2> QED
    BY <1>8, <2>2, <2>3 DEF Sound, ResumePoint
<1>10. pc[u].at \notin DelPoint
  BY <1>3, Points
<1> QED
  BY <1>1, <1>2, <1>3, <1>7, <1>8, <1>9, <1>10, StepPoints, LeaveKeeps

-----------------------------------------------------------------------------
(* The calls of a thread about another one *)

\* Thread t starts such a call, after a change of at most the other thread.
LEMMA EnterKeeps ==
    ASSUME ThreadsInv, NEW t \in User, k.cur = t, pc[t].at = "run",
           NEW at \in MidCall, at \notin DelPoint, NEW u \in Thread, u \notin Busy,
           at = "suspend" => u # t, Goto(t, at, u), isr' = isr, free' = free,
           Good(k', Deleting), k'.lock = k.lock, k'.cur = k.cur, k'.stat[t] = "RUNNING",
           NEW S \in SUBSET {u}, Spares(k, k', S),
           \A v \in S : k.stat[v] # "CLOSE" /\ k'.stat[v] # "CLOSE" /\ ~Armed(k', v),
           Sound(k', [at |-> at, arg |-> u])
    PROVE  ThreadsInv' /\ ClosedKept
<1>1. /\ t \in Thread /\ t # Idle /\ t \notin Deleting /\ isr \in Isr /\ k.lock <= MaxNest
      /\ Idle \in Thread
  BY CallerRuns, InvFacts
<1>2. CallsApart' /\ Deleting' = Deleting
  BY <1>1, EntersCall
<1>3. at \in PcAt
  BY DEF PcAt
<1>4. /\ pc' \in [Thread -> [at : PcAt, arg : Thread]]
      /\ pc'[t] = [at |-> at, arg |-> u] /\ \A v \in Thread \ {t} : pc'[v] = pc[v]
  BY <1>1, <1>3, GotoPc
<1>5. CurrentRuns'
  BY DEF CurrentRuns
<1>6. \A v \in Thread : pc[v].arg \in S \/ pc'[v] # pc[v] => Sound(k', pc'[v])
  <2> SUFFICES ASSUME NEW v \in Thread \ {t}, pc[v].arg \in S PROVE Sound(k', pc[v])
    BY <1>4
  <2>1. pc[v].at \notin MidCall
    BY BusyIs
  <2>2. pc[v].at # "free"
    BY DEF ThreadsInv, Sound, Gone
  <2> QED
    BY <2>1, <2>2, SoundOutside
<1>7. \A v \in Thread : v \in S \/ pc'[v] # pc[v] =>
         k'.stat[v] # "CLOSE" \/ pc'[v].at \notin MidCall
  BY <1>4
<1>8. \A v \in S : v \notin free'
  BY DEF ThreadsInv, Gone
<1>9. pc'[Idle] = pc[Idle] /\ Good(k', Deleting') /\ S \in SUBSET Thread
  BY <1>1, <1>2, <1>4
<1> QED
  BY <1>1, <1>2, <1>4, <1>5, <1>6, <1>7, <1>8, <1>9, StepKeeps

\* A direct call of rt_thread_resume
LEMMA ResumeKeeps ==
    ASSUME ThreadsInv, Disciplined, NEW t \in User, NEW u \in Thread, Resume(t, u)
    PROVE  ThreadsInv' /\ ClosedKept
<1>1. /\ k.cur = t /\ pc[t].at = "run" /\ isr' = isr /\ free' = free /\ k' = k
      /\ u \notin Busy /\ Goto(t, "resume_check", u) /\ "resume" \in Ops
  BY DEF Resume, Calls, Is
<1>2. /\ k.stat[t] = "RUNNING" /\ Good(k, Deleting)
      /\ "resume_check" \in MidCall /\ "resume_check" \notin DelPoint
  BY <1>1, CallerRuns, InvFacts DEF MidCall, DelPoint
<1>3. Delays = {} /\ ~Armed(k, u)
  BY <1>1 DEF Disciplined, ThreadsInv
<1>4. Sound(k', [at |-> "resume_check", arg |-> u])
  BY <1>1, <1>3 DEF Sound, ResumePoint, DelPoint
<1>5. Spares(k, k', {}) /\ {} \in SUBSET {u}
  BY <1>1, SameSpares
<1> QED
  BY <1>1, <1>2, <1>4, <1>5, EnterKeeps

\* rt_thread_suspend of another thread reads its state.
LEMMA SuspendOtherKeeps ==
    ASSUME ThreadsInv, NEW t \in User, NEW u \in Thread, SuspendOther(t, u)
    PROVE  ThreadsInv' /\ ClosedKept
<1>1. /\ k.cur = t /\ pc[t].at = "run" /\ isr' = isr /\ free' = free /\ k' = k
      /\ u \notin Busy /\ u \in User /\ u # t
      /\ Goto(t, "suspend", u) /\ "suspend_other" \in Ops
      /\ k.stat[u] \in {"READY", "RUNNING"}
  BY DEF SuspendOther, Calls, Is
<1>2. /\ k.stat[t] = "RUNNING" /\ Good(k, Deleting)
      /\ "suspend" \in MidCall /\ "suspend" \notin DelPoint
  BY <1>1, CallerRuns, InvFacts DEF MidCall, DelPoint
<1>3. Sound(k', [at |-> "suspend", arg |-> u])
  BY <1>1 DEF Sound, ResumePoint, DelPoint
<1>4. Spares(k, k', {}) /\ {} \in SUBSET {u}
  BY <1>1, SameSpares
<1> QED
  BY <1>1, <1>2, <1>3, <1>4, EnterKeeps

\* rt_thread_startup up to its call of rt_thread_resume
LEMMA StartupKeeps ==
    ASSUME ThreadsInv, NEW t \in User, NEW u \in Thread, Startup(t, u)
    PROVE  ThreadsInv' /\ ClosedKept
<1>1. /\ k.cur = t /\ pc[t].at = "run" /\ isr' = isr /\ free' = free
      /\ u \notin Busy /\ k.stat[u] = "INIT" /\ Goto(t, "resume_check", u)
  BY DEF Startup, Calls, Is
<1>2. /\ t \in Thread /\ k.stat[t] = "RUNNING" /\ Good(k, Deleting) /\ InitPrio[u] \in Prio
      /\ "resume_check" \in MidCall /\ "resume_check" \notin DelPoint
      /\ k.stat[Idle] \in {"READY", "RUNNING"}
  BY <1>1, CallerRuns, InvFacts, SystemAssumption DEF MidCall, DelPoint
<1>3. Apart(k, u) /\ u # Idle
  BY <1>1, <1>2, InitApart
<1>4. PICK r : r = SetPrio(k, u, InitPrio[u])
  OBVIOUS
<1>5. k' = SetStat(r, u, "SUSPEND")
  BY <1>2, <1>4 DEF Startup, SetStat, SetPrio, Good, Kstate
<1>6. k.stat[u] # "READY" /\ \A l \in Prio : ~Linked(k, u, l)
  BY <1>1, <1>3 DEF Apart, Lists
<1>7. /\ Good(r, Deleting)
      /\ r.cur = k.cur /\ r.stat = k.stat /\ r.q = k.q /\ r.tlist = k.tlist /\ r.lock = k.lock
  BY <1>2, <1>4, <1>6, SetPrioGood
<1>8. Good(r, Also(Deleting, u)) /\ \A l \in Lists : ~Linked(r, u, l)
  BY <1>3, <1>7, GoodMore DEF Also, Apart, Linked
<1>9. /\ Good(k', Deleting)
      /\ k'.q = r.q /\ k'.tlist = r.tlist /\ k'.cur = r.cur /\ k'.lock = r.lock
      /\ \A v \in Thread : k'.stat[v] = IF v = u THEN "SUSPEND" ELSE r.stat[v]
  BY <1>3, <1>5, <1>8, SetSuspendGood
<1>10. ActsOn(k, k', u)
  BY <1>7, <1>9 DEF ActsOn, Linked, Armed
<1>11. Spares(k, k', {u}) /\ ~Armed(k', u) /\ k'.stat[u] = "SUSPEND" /\ k'.stat[t] = "RUNNING"
  BY <1>1, <1>2, <1>3, <1>7, <1>9, <1>10, ActsOnSpares DEF Apart, Armed
<1>12. Sound(k', [at |-> "resume_check", arg |-> u])
  BY <1>11 DEF Sound, ResumePoint, DelPoint
<1> QED
  BY <1>1, <1>2, <1>7, <1>9, <1>11, <1>12, EnterKeeps

\* Of the calls about a thread, one is in the middle.
LEMMA OnlyCall ==
    ASSUME ThreadsInv, NEW t \in Thread, pc[t].at \in MidCall, k.stat[pc[t].arg] # "CLOSE",
           NEW v \in Thread, v # t, pc[v].arg = pc[t].arg, NEW x
    PROVE  Sound(x, pc[v])
<1>1. pc[v].at \notin MidCall
  BY DEF ThreadsInv, CallsApart
<1>2. pc[v].at # "free"
  BY DEF ThreadsInv, Sound, Gone
<1> QED
  BY <1>1, <1>2, SoundOutside

\* Thread t goes on with a call, after a change of at most the thread it is about.
LEMMA GoOnKeeps ==
    ASSUME ThreadsInv, NEW t \in User, k.cur = t, pc[t].at \in MidCall,
           NEW at \in MidCall, at \in DelPoint <=> pc[t].at \in DelPoint, at # "suspend",
           Goto(t, at, pc[t].arg), isr' = isr, free' = free,
           Good(k', Deleting), k'.lock = k.lock, k'.cur = k.cur, k'.stat[t] = "RUNNING",
           NEW S \in SUBSET {pc[t].arg}, Spares(k, k', S),
           \A v \in S : k.stat[v] # "CLOSE" /\ k'.stat[v] # "CLOSE" /\ ~Armed(k', v),
           Sound(k', [at |-> at, arg |-> pc[t].arg])
    PROVE  ThreadsInv' /\ ClosedKept
<1>1. /\ t \in Thread /\ t # Idle /\ isr \in Isr /\ k.lock <= MaxNest /\ Idle \in Thread
      /\ pc[t].arg \in Thread
  BY InvFacts DEF User
<1>2. CallsApart' /\ Deleting' = Deleting
  BY GoesOn
<1>3. at \in PcAt
  BY DEF PcAt
<1>4. /\ pc' \in [Thread -> [at : PcAt, arg : Thread]]
      /\ pc'[t] = [at |-> at, arg |-> pc[t].arg] /\ \A v \in Thread \ {t} : pc'[v] = pc[v]
  BY <1>1, <1>3, GotoPc
<1>5. CurrentRuns'
  BY DEF CurrentRuns
<1>6. \A v \in Thread : pc[v].arg \in S \/ pc'[v] # pc[v] => Sound(k', pc'[v])
  <2> SUFFICES ASSUME NEW v \in Thread \ {t}, pc[v].arg \in S PROVE Sound(k', pc[v])
    BY <1>4
  <2>1. pc[v].arg = pc[t].arg /\ k.stat[pc[t].arg] # "CLOSE"
    OBVIOUS
  <2> QED
    BY <1>1, <2>1, OnlyCall
<1>7. \A v \in Thread : v \in S \/ pc'[v] # pc[v] =>
         k'.stat[v] # "CLOSE" \/ pc'[v].at \notin MidCall
  BY <1>4
<1>8. \A v \in S : v \notin free'
  BY DEF ThreadsInv, Gone
<1>9. pc'[Idle] = pc[Idle] /\ Good(k', Deleting') /\ S \in SUBSET Thread
  BY <1>1, <1>2, <1>4
<1> QED
  BY <1>1, <1>2, <1>4, <1>5, <1>6, <1>7, <1>8, <1>9, StepKeeps

\* The caller in the middle of a call about thread pc[t].arg
LEMMA InCall ==
    ASSUME ThreadsInv, NEW t \in User, NEW at \in MidCall, Is(t, at)
    PROVE  /\ t \in Thread /\ k.cur = t /\ pc[t].at = at /\ k.stat[t] = "RUNNING"
           /\ pc[t].arg \in Thread /\ Sound(k, pc[t])
           /\ Good(k, Deleting) /\ isr \in Isr /\ k.lock <= MaxNest
<1>1. /\ k.cur = t /\ pc[t].at = at /\ t \in Thread /\ pc[t].arg \in Thread
      /\ Good(k, Deleting) /\ isr \in Isr /\ k.lock <= MaxNest
  BY InvFacts DEF Is, User
<1>2. at \notin {"sched", "sleep_sched", "exit_sched"}
  BY DEF MidCall
<1> QED
  BY <1>1, <1>2, CallerRuns DEF ThreadsInv

\* rt_thread_resume tests the state of the thread.
LEMMA ResumeCheckKeeps ==
    ASSUME ThreadsInv, NEW t \in User, ResumeCheck(t)
    PROVE  ThreadsInv' /\ ClosedKept
<1>1. /\ Is(t, "resume_check") /\ k' = k /\ isr' = isr /\ free' = free
      /\ IF k.stat[pc[t].arg] = "SUSPEND" THEN Goto(t, "resume", pc[t].arg)
         ELSE Goto(t, "sched", t)
  BY DEF ResumeCheck
<1>2. /\ "resume_check" \in MidCall /\ "resume" \in MidCall /\ "resume" # "suspend"
      /\ "resume_check" \notin DelPoint /\ "resume" \notin DelPoint
  BY DEF MidCall, DelPoint
<1>3. /\ t \in Thread /\ k.cur = t /\ pc[t].at = "resume_check" /\ k.stat[t] = "RUNNING"
      /\ pc[t].arg \in Thread /\ Sound(k, pc[t])
      /\ Good(k, Deleting) /\ isr \in Isr /\ k.lock <= MaxNest
  BY <1>1, <1>2, InCall
<1>4. Spares(k, k', {}) /\ {} \in SUBSET Thread /\ {} \in SUBSET {pc[t].arg}
  BY <1>1, SameSpares
<1>5. CASE k.stat[pc[t].arg] = "SUSPEND"
  <2>1. Sound(k', [at |-> "resume", arg |-> pc[t].arg])
    BY <1>1, <1>3, <1>5 DEF Sound, ResumePoint, DelPoint
  <2> QED
    BY <1>1, <1>2, <1>3, <1>4, <1>5, <2>1, GoOnKeeps
<1>6. CASE k.stat[pc[t].arg] # "SUSPEND"
  <2>1. CurrentRuns'
    BY <1>1, <1>3 DEF CurrentRuns
  <2> QED
    BY <1>1, <1>2, <1>3, <1>4, <1>6, <2>1, StepPoints, LeaveKeeps
<1> QED
  BY <1>5, <1>6

\* rt_thread_resume takes the thread off its list.
LEMMA ResumeWindowKeeps ==
    ASSUME ThreadsInv, NEW t \in User, ResumeWindow(t)
    PROVE  ThreadsInv' /\ ClosedKept
<1> DEFINE u == pc[t].arg
<1>1. /\ Is(t, "resume") /\ k' = ResumeUnlink(k, u) /\ isr' = isr /\ free' = free
      /\ Goto(t, "insert", u)
  BY DEF ResumeWindow
<1>2. /\ "resume" \in MidCall /\ "insert" \in MidCall /\ "insert" # "suspend"
      /\ "resume" \notin DelPoint /\ "insert" \notin DelPoint
  BY DEF MidCall, DelPoint
<1>3. /\ t \in Thread /\ k.cur = t /\ pc[t].at = "resume" /\ k.stat[t] = "RUNNING"
      /\ u \in Thread /\ Sound(k, pc[t]) /\ Good(k, Deleting)
  BY <1>1, <1>2, InCall
<1>4. k.stat[u] = "SUSPEND"
  BY <1>3 DEF Sound
<1> HIDE DEF u
<1>5. PICK v : v = Unlink(k, u)
  OBVIOUS
<1>6. k' = TimerStop(v, u)
  BY <1>1, <1>5 DEF ResumeUnlink
<1>7. /\ Good(v, Deleting) /\ (\A l \in Lists : ~Linked(v, u, l)) /\ ActsOn(k, v, u)
      /\ v.cur = k.cur /\ v.stat = k.stat /\ v.lock = k.lock
  BY <1>3, <1>4, <1>5, SuspendedNotReady, UnlinkGood, UnlinkActs
<1>8. /\ Good(k', Deleting) /\ ~Armed(k', u) /\ ActsOn(v, k', u)
      /\ k'.cur = v.cur /\ k'.stat = v.stat /\ k'.q = v.q /\ k'.lock = v.lock
  BY <1>3, <1>6, <1>7, TimerStopGood, TimerStopActs
<1>9. Apart(k', u) /\ Spares(k, k', {u})
  BY <1>7, <1>8, ActsOnTrans, ActsOnSpares DEF Apart, Linked
<1>10. Sound(k', [at |-> "insert", arg |-> u])
  BY <1>4, <1>7, <1>8, <1>9 DEF Sound, ResumePoint, DelPoint
<1> QED
  BY <1>1, <1>2, <1>3, <1>4, <1>7, <1>8, <1>9, <1>10, GoOnKeeps DEF u

\* rt_thread_resume makes the thread ready.
LEMMA ResumeInsertKeeps ==
    ASSUME ThreadsInv, NEW t \in User, ResumeInsert(t)
    PROVE  ThreadsInv' /\ ClosedKept
<1> DEFINE u == pc[t].arg
<1>1. /\ Is(t, "insert") /\ k' = rt_schedule_insert_thread(k, u)
      /\ isr' = isr /\ free' = free /\ Goto(t, "sched", t)
  BY DEF ResumeInsert
<1>2. "insert" \in MidCall /\ "insert" \notin DelPoint
  BY DEF MidCall, DelPoint
<1>3. /\ t \in Thread /\ k.cur = t /\ pc[t].at = "insert" /\ k.stat[t] = "RUNNING"
      /\ u \in Thread /\ Sound(k, pc[t])
      /\ Good(k, Deleting) /\ isr \in Isr /\ k.lock <= MaxNest
  BY <1>1, <1>2, InCall
<1>4. k.stat[u] = "SUSPEND" /\ Apart(k, u) /\ u # t
  BY <1>3 DEF Sound
<1>5. \A v \in Thread \ {t} : pc[v].arg \in {u} => Sound(k', pc[v])
  BY <1>2, <1>3, <1>4, OnlyCall
<1> HIDE DEF u
<1>6. (\A l \in Lists : ~Linked(k, u, l)) /\ ~Armed(k, u)
  BY <1>4 DEF Apart
<1>7. /\ Good(k', Deleting) /\ ActsOn(k, k', u) /\ ~Aside(k', u)
      /\ k'.cur = k.cur /\ k'.lock = k.lock
  BY <1>1, <1>3, <1>6, InsertGood, InsertActs, InsertNotAside
<1>8. Spares(k, k', {u}) /\ {u} \in SUBSET Thread /\ k'.stat[t] = "RUNNING"
  BY <1>3, <1>4, <1>7, ActsOnSpares DEF ActsOn
<1>9. k'.stat[u] # "CLOSE" /\ ~Armed(k', u)
  BY <1>3, <1>7, NotAside
<1>10. CurrentRuns' /\ u \notin free
  BY <1>3, <1>4, <1>7, <1>8 DEF CurrentRuns, ThreadsInv, Gone
<1> QED
  BY <1>1, <1>2, <1>3, <1>4, <1>5, <1>7, <1>8, <1>9, <1>10, StepPoints, LeaveKeeps

\* rt_thread_suspend takes the thread out of the ready table.
LEMMA SuspendWindowKeeps ==
    ASSUME ThreadsInv, NEW t \in User, SuspendWindow(t)
    PROVE  ThreadsInv' /\ ClosedKept
<1> DEFINE u == pc[t].arg
<1>1. /\ Is(t, "suspend") /\ isr' = isr /\ free' = free /\ Goto(t, "run", t)
      /\ k' = TimerStop([rt_schedule_remove_thread(k, u) EXCEPT !.stat[u] = "SUSPEND"], u)
  BY DEF SuspendWindow
<1>2. "suspend" \in MidCall /\ "suspend" \notin DelPoint
  BY DEF MidCall, DelPoint
<1>3. /\ t \in Thread /\ k.cur = t /\ pc[t].at = "suspend" /\ k.stat[t] = "RUNNING"
      /\ u \in Thread /\ Sound(k, pc[t])
      /\ Good(k, Deleting) /\ isr \in Isr /\ k.lock <= MaxNest
  BY <1>1, <1>2, InCall
<1>4. u # t /\ u # Idle /\ k.stat[u] # "CLOSE"
  BY <1>3 DEF Sound, ThreadsInv, CallsApart, User
<1>5. \A v \in Thread \ {t} : pc[v].arg \in {u} => Sound(k', pc[v])
  BY <1>2, <1>3, <1>4, OnlyCall
<1> HIDE DEF u
<1>6. PICK v : v = rt_schedule_remove_thread(k, u)
  OBVIOUS
<1>7. PICK w : w = SetStat(v, u, "SUSPEND")
  OBVIOUS
<1>8. k' = TimerStop(w, u)
  BY <1>1, <1>6, <1>7 DEF SetStat
<1>9. /\ Good(k', Deleting) /\ ActsOn(k, k', u) /\ Apart(k', u)
      /\ k'.stat[u] = "SUSPEND" /\ k'.lock = k.lock
  BY <1>3, <1>4, <1>6, <1>7, <1>8, TakeOutGood
<1>10. Spares(k, k', {u}) /\ {u} \in SUBSET Thread /\ k'.stat[t] = "RUNNING" /\ k'.cur = t
  BY <1>3, <1>4, <1>9, ActsOnSpares DEF ActsOn
<1>11. CurrentRuns' /\ u \notin free /\ ~Armed(k', u)
  BY <1>4, <1>9, <1>10 DEF CurrentRuns, ThreadsInv, Gone, Apart
<1> QED
  BY <1>1, <1>2, <1>3, <1>4, <1>5, <1>9, <1>10, <1>11, StepPoints, LeaveKeeps

-----------------------------------------------------------------------------
(* rt_thread_delete and the idle thread *)

\* Thread t starts to delete a thread that nobody else's call is about.
LEMMA EntersDelete ==
    ASSUME ThreadsInv, NEW t \in User, NEW u \in Thread, u # t, pc[t].at = "run",
           u \notin Busy, t \notin Deleting, pc[u].at \notin MidCall,
           Goto(t, "del_timer", u)
    PROVE  CallsApart' /\ Deleting' = Also(Deleting, u)
<1>1. t \in Thread /\ t # Idle /\ "del_timer" \in PcAt /\ "del_timer" \in DelPoint
  BY DEF User, PcAt, MidCall, DelPoint
<1>2. /\ pc'[t].at = "del_timer" /\ pc'[t].arg = u
      /\ \A v \in Thread \ {t} : pc'[v] = pc[v]
  BY <1>1, GotoPc, ZenonT(60)
<1>3. pc[t].at \notin MidCall /\ pc[t].at \notin DelPoint
  BY Points
<1>4. \A v : v \in Deleting' <=> v \in Also(Deleting, u)
  BY <1>1, <1>2, <1>3, DeletingIs DEF Also
<1>5. CallsApart /\ Idle \in Thread
  BY KernelAssumption DEF ThreadsInv
<1>6. \A v \in Thread : pc[v].at \in DelPoint => pc[v].arg # t
  BY DeletingIs
<1>7. \A v \in Thread : pc[v].at \in MidCall => pc[v].arg # u
  BY BusyIs
<1>8. CallsApart'
  <2>1. pc'[Idle].at \in {"run", "free"}
    BY <1>1, <1>2, <1>5 DEF CallsApart
  <2>2. \A v \in Thread : pc'[v].at # "take_sched" /\ (pc'[v].at = "free" => v = Idle)
    BY <1>1, <1>2, <1>5 DEF CallsApart
  <2>3. \A v, w \in Thread :
          pc'[v].at \in MidCall /\ pc'[w].at \in MidCall /\ pc'[v].arg = pc'[w].arg => v = w
    BY <1>2, <1>5, <1>7 DEF CallsApart
  <2>4. \A v \in Thread : pc'[v].at \in DelPoint => pc'[pc'[v].arg].at \notin MidCall
    BY <1>1, <1>2, <1>5, <1>6, InvFacts DEF CallsApart
  <2>5. \A v \in Thread : pc'[v].at = "suspend" => pc'[v].arg # v
    BY <1>1, <1>2, <1>5 DEF CallsApart
  <2> QED
    BY <2>1, <2>2, <2>3, <2>4, <2>5 DEF CallsApart
<1> QED
  BY <1>4, <1>8

\* The first window of rt_thread_delete
LEMMA DeleteKeeps ==
    ASSUME ThreadsInv, Disciplined, NEW t \in User, NEW u \in Thread, Delete(t, u)
    PROVE  ThreadsInv' /\ ClosedKept
<1>1. /\ k.cur = t /\ pc[t].at = "run" /\ isr' = isr /\ free' = free
      /\ u \in User /\ u # t /\ u \notin Busy /\ k.stat[u] # "CLOSE"
      /\ pc[u].at \notin MidCall /\ ~Armed(k, u) /\ Goto(t, "del_timer", u)
      /\ k' = IF k.stat[u] # "INIT" THEN rt_schedule_remove_thread(k, u) ELSE k
  BY DEF Delete, Calls, Is, Disciplined
<1>2. /\ t \in Thread /\ t # Idle /\ k.stat[t] = "RUNNING" /\ t \notin Deleting
      /\ Good(k, Deleting) /\ isr \in Isr /\ k.lock <= MaxNest /\ Idle \in Thread
  BY <1>1, CallerRuns, InvFacts
<1>3. CallsApart' /\ Deleting' = Also(Deleting, u)
  BY <1>1, <1>2, EntersDelete
<1>4. /\ Good(k', Deleting') /\ ActsOn(k, k', u) /\ Apart(k', u)
      /\ k'.stat = k.stat /\ k'.lock = k.lock
  <2>1. CASE k.stat[u] = "INIT"
    <3>1. k' = k /\ Apart(k', u)
      BY <1>1, <1>2, <2>1, InitApart
    <3>2. Good(k', Deleting')
      BY <1>2, <1>3, <3>1, GoodMore DEF Also
    <3> QED
      BY <3>1, <3>2, SameSpares
  <2>2. CASE k.stat[u] # "INIT"
    <3>1. k' = rt_schedule_remove_thread(k, u)
      BY <1>1, <2>2
    <3>2. /\ Good(k', Also(Deleting, u))
          /\ \A l \in Lists : ~Linked(k', u, l)
          /\ Armed(k', u) <=> Armed(k, u)
          /\ k'.stat = k.stat /\ k'.lock = k.lock
      BY <1>2, <3>1, RemoveGood
    <3>3. ActsOn(k, k', u)
      BY <1>2, <3>1, UnlinkActs
    <3> QED
      BY <1>1, <1>3, <3>2, <3>3 DEF Apart
  <2> QED
    BY <2>1, <2>2
<1>5. k.stat[u] \in {"INIT", "READY", "SUSPEND"}
  BY <1>1, <1>2 DEF Good, Kstate, Flat, Stat
<1>6. "del_timer" \in PcAt /\ "del_timer" \in DelPoint
  BY DEF PcAt, MidCall, DelPoint
<1>7. /\ pc' \in [Thread -> [at : PcAt, arg : Thread]]
      /\ pc'[t] = [at |-> "del_timer", arg |-> u] /\ \A v \in Thread \ {t} : pc'[v] = pc[v]
  BY <1>1, <1>2, <1>6, GotoPc
<1>8. k'.cur = t /\ Spares(k, k', {u}) /\ ~Armed(k', u)
  BY <1>1, <1>4, ActsOnSpares DEF ActsOn, Apart
<1>9. Sound(k', [at |-> "del_timer", arg |-> u])
  BY <1>1, <1>4, <1>5, <1>8 DEF Sound, ResumePoint
<1>10. \A v \in Thread : pc[v].arg \in {u} \/ pc'[v] # pc[v] => Sound(k', pc'[v])
  <2> SUFFICES ASSUME NEW v \in Thread \ {t}, pc[v].arg = u PROVE Sound(k', pc[v])
    BY <1>7, <1>9
  <2>1. pc[v].at \notin MidCall
    BY <1>1, BusyIs
  <2>2. pc[v].at # "free"
    BY <1>1 DEF ThreadsInv, Sound, Gone
  <2> QED
    BY <2>1, <2>2, SoundOutside
<1>11. \A v \in Thread : v \in {u} \/ pc'[v] # pc[v] =>
          k'.stat[v] # "CLOSE" \/ pc'[v].at \notin MidCall
  BY <1>1, <1>2, <1>4, <1>7
<1>12. CurrentRuns' /\ u \notin free /\ pc'[Idle] = pc[Idle] /\ {u} \in SUBSET Thread
  BY <1>1, <1>2, <1>4, <1>7, <1>8 DEF CurrentRuns, ThreadsInv, Gone
<1> QED
  BY <1>1, <1>2, <1>3, <1>4, <1>7, <1>8, <1>10, <1>11, <1>12, StepKeeps

\* The second window: the timer is detached.
LEMMA DeleteTimerKeeps ==
    ASSUME ThreadsInv, NEW t \in User, DeleteTimer(t)
    PROVE  ThreadsInv' /\ ClosedKept
<1> DEFINE u == pc[t].arg
<1>1. /\ Is(t, "del_timer") /\ k' = TimerStop(k, u) /\ isr' = isr /\ free' = free
      /\ Goto(t, "del_close", u)
  BY DEF DeleteTimer
<1>2. /\ "del_timer" \in MidCall /\ "del_close" \in MidCall /\ "del_close" # "suspend"
      /\ "del_timer" \in DelPoint /\ "del_close" \in DelPoint
  BY DEF MidCall, DelPoint
<1>3. /\ t \in Thread /\ k.cur = t /\ pc[t].at = "del_timer" /\ k.stat[t] = "RUNNING"
      /\ u \in Thread /\ Sound(k, pc[t]) /\ Good(k, Deleting)
  BY <1>1, <1>2, InCall
<1>4. /\ u \in User /\ Apart(k, u) /\ k.cur # u
      /\ k.stat[u] \in {"INIT", "READY", "SUSPEND"}
  BY <1>2, <1>3 DEF Sound
<1> HIDE DEF u
<1>5. /\ Good(k', Deleting) /\ ~Armed(k', u) /\ ActsOn(k, k', u)
      /\ k'.cur = k.cur /\ k'.stat = k.stat /\ k'.q = k.q /\ k'.lock = k.lock
  BY <1>1, <1>3, TimerStopGood, TimerStopActs
<1>6. Apart(k', u) /\ Spares(k, k', {u})
  BY <1>4, <1>5, ActsOnSpares DEF Apart, Linked
<1>7. Sound(k', [at |-> "del_close", arg |-> u])
  BY <1>4, <1>5, <1>6 DEF Sound, ResumePoint
<1> QED
  BY <1>1, <1>2, <1>3, <1>4, <1>5, <1>6, <1>7, GoOnKeeps DEF u

\* Thread t is done with the thread it deletes.
LEMMA LeavesDelete ==
    ASSUME ThreadsInv, NEW t \in User, pc[t].at = "del_close", Goto(t, "run", t)
    PROVE  CallsApart' /\ Deleting = Also(Deleting', pc[t].arg)
<1>1. /\ t \in Thread /\ t # Idle /\ "run" \in PcAt /\ "run" \notin MidCall
      /\ "run" \notin DelPoint /\ "del_close" \in DelPoint /\ "del_close" \in MidCall
  BY DEF User, PcAt, MidCall, DelPoint
<1>2. /\ pc'[t].at = "run" /\ \A v \in Thread \ {t} : pc'[v] = pc[v]
  BY <1>1, GotoPc
<1>3. CallsApart /\ Idle \in Thread
  BY KernelAssumption DEF ThreadsInv
<1>4. \A v : v \in Deleting <=> v \in Also(Deleting', pc[t].arg)
  BY <1>1, <1>2, DeletingIs DEF Also
<1>5. CallsApart'
  <2>1. pc'[Idle].at \in {"run", "free"}
    BY <1>1, <1>2, <1>3 DEF CallsApart
  <2>2. \A v \in Thread : pc'[v].at # "take_sched" /\ (pc'[v].at = "free" => v = Idle)
    BY <1>1, <1>2, <1>3 DEF CallsApart
  <2>3. \A v, w \in Thread :
          pc'[v].at \in MidCall /\ pc'[w].at \in MidCall /\ pc'[v].arg = pc'[w].arg => v = w
    BY <1>1, <1>2, <1>3 DEF CallsApart
  <2>4. \A v \in Thread : pc'[v].at \in DelPoint => pc'[pc'[v].arg].at \notin MidCall
    BY <1>1, <1>2, <1>3, InvFacts DEF CallsApart
  <2>5. \A v \in Thread : pc'[v].at = "suspend" => pc'[v].arg # v
    BY <1>2, <1>3 DEF CallsApart
  <2> QED
    BY <2>1, <2>2, <2>3, <2>4, <2>5 DEF CallsApart
<1> QED
  BY <1>4, <1>5

\* The third window: the thread is closed and handed to the idle thread.
LEMMA DeleteCloseKeeps ==
    ASSUME ThreadsInv, NEW t \in User, DeleteClose(t)
    PROVE  ThreadsInv' /\ ClosedKept
<1> DEFINE u == pc[t].arg
<1>1. /\ Is(t, "del_close") /\ isr' = isr /\ free' = free /\ Goto(t, "run", t)
      /\ k' = [k EXCEPT !.stat[u] = "CLOSE", !.q[Defunct] = <<u>> \o @]
  BY DEF DeleteClose
<1>2. "del_close" \in MidCall /\ "del_close" \in DelPoint
  BY DEF MidCall, DelPoint
<1>3. /\ t \in Thread /\ k.cur = t /\ pc[t].at = "del_close" /\ k.stat[t] = "RUNNING"
      /\ u \in Thread /\ Sound(k, pc[t])
      /\ Good(k, Deleting) /\ isr \in Isr /\ k.lock <= MaxNest
  BY <1>1, <1>2, InCall
<1>4. /\ u \in User /\ Apart(k, u) /\ u # t /\ u # Idle
      /\ k.stat[u] \in {"INIT", "READY", "SUSPEND"}
  BY <1>2, <1>3 DEF Sound, User
<1>5. /\ CallsApart' /\ Deleting = Also(Deleting', u)
      /\ pc[u].at \notin MidCall
  BY <1>1, <1>2, <1>3, LeavesDelete DEF ThreadsInv, CallsApart
<1>6. \A v \in Thread \ {t} : pc[v].arg \in {u} => Sound(k', pc[v])
  BY <1>2, <1>3, <1>4, OnlyCall
<1>7. /\ pc' \in [Thread -> [at : PcAt, arg : Thread]]
      /\ pc'[t].at = "run" /\ \A v \in Thread \ {t} : pc'[v] = pc[v]
  BY <1>1, <1>3, StepPoints, GotoPc
<1> HIDE DEF u
<1>8. PICK w : w = SetStat(k, u, "CLOSE")
  OBVIOUS
<1>9. k' = Bury(w, u)
  BY <1>1, <1>3, <1>8 DEF SetStat, Bury, Good, Kstate
<1>10. "CLOSE" \in Stat /\ (\A l \in Lists : ~Linked(k, u, l)) /\ ~Armed(k, u)
  BY <1>4 DEF Stat, Apart
<1>11. Good(k, Also(Deleting', u))
  BY <1>3, <1>5
<1>12. /\ Good(w, Deleting')
       /\ w.q = k.q /\ w.tlist = k.tlist /\ w.cur = k.cur /\ w.lock = k.lock
       /\ \A v \in Thread : w.stat[v] = IF v = u THEN "CLOSE" ELSE k.stat[v]
  BY <1>3, <1>4, <1>8, <1>10, <1>11, SetStatGood
<1>13. ActsOn(k, w, u) /\ \A l \in Lists : ~Linked(w, u, l)
  BY <1>3, <1>8, <1>10, <1>12, SetStatActs DEF Good, Linked
<1>14. /\ Good(k', Deleting') /\ ActsOn(w, k', u)
       /\ k'.cur = w.cur /\ k'.stat = w.stat /\ k'.tlist = w.tlist /\ k'.lock = w.lock
  BY <1>3, <1>9, <1>12, <1>13, BuryGood
<1>15. Spares(k, k', {u}) /\ ~Armed(k', u) /\ k'.stat[t] = "RUNNING"
  BY <1>3, <1>4, <1>10, <1>12, <1>13, <1>14, ActsOnTrans, ActsOnSpares DEF Armed
<1>16. /\ CurrentRuns' /\ u \notin free /\ {u} \in SUBSET Thread
       /\ Idle \in Thread /\ t # Idle
  BY <1>3, <1>4, <1>12, <1>14, <1>15, KernelAssumption DEF CurrentRuns, ThreadsInv, Gone, User
<1>17. Sound(k', pc'[t])
  BY <1>7, Points, SoundOutside
<1>18. \A v \in Thread : pc[v].arg \in {u} \/ pc'[v] # pc[v] => Sound(k', pc'[v])
  BY <1>6, <1>7, <1>17
<1>19. \A v \in Thread : v \in {u} \/ pc'[v] # pc[v] =>
          k'.stat[v] # "CLOSE" \/ pc'[v].at \notin MidCall
  BY <1>4, <1>5, <1>7, Points
<1>20. k'.stat[u] = "CLOSE" /\ pc'[Idle] = pc[Idle]
  BY <1>3, <1>7, <1>12, <1>14, <1>16
<1> QED
  BY <1>1, <1>3, <1>4, <1>5, <1>7, <1>12, <1>14, <1>15, <1>16, <1>18, <1>19, <1>20, StepKeeps

\* A thread out of the kernel's reach stays so when rt_schedule runs.
LEMMA GoneStays ==
    ASSUME NEW x, NEW X, Good(x, X), NEW u \in Thread, Gone(x, u), NEW y, y = rt_schedule(x)
    PROVE  Gone(y, u)
<1>1. LeftAlone(x, y, u)
  BY ScheduleSpares DEF Spares
<1>2. Aside(x, u)
  BY DEF Aside, Gone, Apart, Lists
<1> HIDE DEF Aside
<1> QED
  BY <1>1, <1>2 DEF LeftAlone, Gone, Apart

\* The idle thread takes a thread off the defunct list.
LEMMA IdleReapKeeps ==
    ASSUME ThreadsInv, IdleReap
    PROVE  ThreadsInv' /\ ClosedKept
<1>1. PICK u : u = Head(k.q[Defunct])
  OBVIOUS
<1>2. PICK w : w = Unlink(k, u)
  OBVIOUS
<1>3. /\ k.cur = Idle /\ pc[Idle].at = "run" /\ k.q[Defunct] # << >>
      /\ k' = rt_schedule(w) /\ Goto(Idle, "free", u) /\ isr' = isr /\ free' = free
  BY <1>1, <1>2 DEF IdleReap, Is
<1>4. /\ Good(k, Deleting) /\ k \in Kstate /\ Idle \in Thread /\ isr \in Isr
      /\ k.lock <= MaxNest /\ Flat(k, Deleting) /\ Defunct \in Lists
  BY InvFacts DEF Lists
<1>5. k.stat[Idle] = "RUNNING"
  BY <1>3, <1>4, Runs
<1>6. u \in Thread /\ Linked(k, u, Defunct)
  BY <1>1, <1>3, <1>4, HeadLinked
<1>7. k.stat[u] = "CLOSE" /\ u # Idle
  BY <1>4, <1>5, <1>6 DEF Flat
<1>8. \A p \in Prio : ~Linked(k, u, p)
  BY <1>4, <1>6, <1>7 DEF Flat
<1>9. /\ Good(w, Deleting) /\ (\A l \in Lists : ~Linked(w, u, l)) /\ ActsOn(k, w, u)
      /\ (Armed(w, u) <=> Armed(k, u))
      /\ w.cur = k.cur /\ w.stat = k.stat /\ w.lock = k.lock
  BY <1>2, <1>4, <1>6, <1>8, UnlinkGood, UnlinkActs
<1>10. Gone(w, u)
  BY <1>3, <1>4, <1>6, <1>7, <1>9 DEF Gone, Apart, Flat
<1>11. /\ Good(k', Deleting)
       /\ MaySwitch(w) => k'.stat[k'.cur] = "RUNNING"
       /\ ~MaySwitch(w) => k' = w
       /\ k'.lock = w.lock
  BY <1>3, <1>9, ScheduleGood
<1>12. k'.stat[k'.cur] = "RUNNING"
  BY <1>3, <1>5, <1>9, <1>11
<1>13. Gone(k', u)
  BY <1>3, <1>6, <1>9, <1>10, GoneStays
<1>14. Spares(k, k', {u})
  <2>1. Spares(k, w, {u})
    BY <1>9, ActsOnSpares
  <2>2. Spares(w, k', {u})
    BY <1>3, <1>9, ScheduleSpares, SparesMore
  <2> QED
    BY <2>1, <2>2, SparesTrans
<1>15. CallsApart' /\ Deleting' = Deleting
  BY <1>3, <1>6, IdleGoes
<1>16. "free" \in PcAt
  BY DEF PcAt
<1>17. /\ pc' \in [Thread -> [at : PcAt, arg : Thread]]
       /\ pc'[Idle] = [at |-> "free", arg |-> u] /\ \A v \in Thread \ {Idle} : pc'[v] = pc[v]
  BY <1>3, <1>4, <1>6, <1>16, GotoPc
<1>18. \A v \in Thread : pc[v].arg \in {u} \/ pc'[v] # pc[v] => Sound(k', pc'[v])
  <2>1. Sound(k', [at |-> "free", arg |-> u])
    BY <1>13 DEF Sound, ResumePoint, DelPoint
  <2> SUFFICES ASSUME NEW v \in Thread \ {Idle}, pc[v].arg = u PROVE Sound(k', pc[v])
    BY <1>17, <2>1
  <2>2. pc[v].at # "free"
    BY DEF ThreadsInv, CallsApart
  <2>3. Sound(k, pc[v])
    BY DEF ThreadsInv
  <2>4. /\ pc[v].at \notin {"resume", "insert", "suspend"} \cup DelPoint
        /\ pc[v].at = "resume_check" => Delays = {}
    BY <1>7, <2>3 DEF Sound
  <2>5. ~Armed(k', u)
    BY <1>13 DEF Gone, Apart
  <2> QED
    BY <2>2, <2>4, <2>5 DEF Sound, ResumePoint
<1>19. pc[u].at \notin MidCall /\ u \notin free
  BY <1>4, <1>6, <1>7 DEF ThreadsInv, Gone, Apart
<1>20. \A v \in Thread : v \in {u} \/ pc'[v] # pc[v] =>
          k'.stat[v] # "CLOSE" \/ pc'[v].at \notin MidCall
  BY <1>7, <1>17, <1>19, Points
<1>21. CurrentRuns' /\ {u} \in SUBSET Thread /\ k'.lock <= MaxNest
  BY <1>4, <1>6, <1>9, <1>11, <1>12 DEF CurrentRuns
<1>22. /\ k'.stat[u] = "CLOSE" /\ ~Armed(k', u) /\ pc'[Idle].arg \notin free'
       /\ Good(k', Deleting')
  BY <1>3, <1>11, <1>13, <1>15, <1>17, <1>19 DEF Gone, Apart
<1> QED
  BY <1>3, <1>4, <1>14, <1>15, <1>17, <1>18, <1>19, <1>20, <1>21, <1>22, StepKeeps

\* The idle thread frees the object and the stack of the thread it has reaped.
LEMMA IdleFreeKeeps ==
    ASSUME ThreadsInv, IdleFree
    PROVE  ThreadsInv' /\ ClosedKept
<1> DEFINE u == pc[Idle].arg
<1>1. /\ k.cur = Idle /\ pc[Idle].at = "free" /\ free' = free \cup {u}
      /\ Goto(Idle, "run", Idle) /\ k' = k /\ isr' = isr
  BY DEF IdleFree, Is
<1>2. /\ Idle \in Thread /\ u \in Thread /\ Good(k, Deleting) /\ isr \in Isr
      /\ k.lock <= MaxNest /\ free \subseteq Thread
  BY InvFacts
<1>3. Gone(k, u)
  BY <1>1, <1>2 DEF ThreadsInv, Sound
<1>4. CallsApart' /\ Deleting' = Deleting
  BY <1>1, <1>2, IdleGoes
<1>5. /\ pc' \in [Thread -> [at : PcAt, arg : Thread]]
      /\ pc'[Idle].at = "run" /\ \A v \in Thread \ {Idle} : pc'[v] = pc[v]
  BY <1>1, <1>2, StepPoints, GotoPc
<1> HIDE DEF u
<1>6. ThreadsTypeOK' /\ Good(k', Deleting')
  BY <1>1, <1>2, <1>4, <1>5 DEF ThreadsTypeOK, Good, PcAt
<1>7. k.stat[Idle] = "RUNNING"
  BY <1>1, <1>2, Runs
<1>8. CurrentRuns'
  BY <1>1, <1>7 DEF CurrentRuns
<1>9. \A v \in Thread : Sound(k', pc'[v])
  <2>1. Sound(k', pc'[Idle])
    BY <1>5, Points, SoundOutside
  <2> QED
    BY <1>1, <1>5, <2>1 DEF ThreadsInv
<1>10. \A v \in Thread : k'.stat[v] = "CLOSE" => pc'[v].at \notin MidCall
  BY <1>1, <1>5, Points DEF ThreadsInv
<1>11. \A v \in free' : Gone(k', v)
  BY <1>1, <1>3 DEF ThreadsInv
<1>12. Delays = {} => \A v \in Thread : ~Armed(k', v)
  BY <1>1 DEF ThreadsInv
<1>13. pc'[Idle].at # "free"
  BY <1>5
<1>14. ClosedKept
  BY <1>1 DEF ClosedKept
<1> QED
  BY <1>4, <1>6, <1>8, <1>9, <1>10, <1>11, <1>12, <1>13, <1>14 DEF ThreadsInv

\* An interrupt handler resumes a thread.
LEMMA IsrResumeKeeps ==
    ASSUME ThreadsInv, Disciplined, NEW u \in Thread, IsrResume(u)
    PROVE  ThreadsInv' /\ ClosedKept
<1>1. PICK r : r = rt_thread_resume(k, u)
  OBVIOUS
<1>2. /\ k.stat[u] = "SUSPEND" /\ u \notin Busy /\ k' = rt_schedule(r)
      /\ isr' = isr /\ pc' = pc /\ free' = free
  BY <1>1 DEF IsrResume, Disciplined
<1>3. /\ Good(k, Deleting) /\ Idle \notin Deleting /\ isr \in Isr /\ k.lock <= MaxNest
      /\ k.cur \in Thread
  BY InvFacts
<1>4. PICK v : v = Unlink(k, u)
  OBVIOUS
<1>5. PICK w : w = TimerStop(v, u)
  OBVIOUS
<1>6. /\ Good(r, Deleting) /\ r.cur = k.cur /\ r.lock = k.lock
      /\ \A x \in Thread :
            r.stat[x] = IF x # u THEN k.stat[x] ELSE IF u = k.cur THEN "RUNNING" ELSE "READY"
  BY <1>1, <1>2, <1>3, <1>4, <1>5, ResumeGood
<1>7. ActsOn(k, r, u) /\ ~Aside(r, u)
  BY <1>1, <1>2, <1>3, ResumeActs
<1>8. /\ Good(k', Deleting)
      /\ MaySwitch(r) => k'.stat[k'.cur] = "RUNNING"
      /\ ~MaySwitch(r) => k' = r
      /\ k'.lock = r.lock
  BY <1>2, <1>6, ScheduleGood
<1>9. Spares(r, k', {})
  BY <1>2, <1>6, ScheduleSpares
<1>10. Spares(k, k', {u})
  <2>1. Spares(k, r, {u}) /\ Spares(r, k', {u})
    BY <1>7, <1>9, ActsOnSpares, SparesMore
  <2> QED
    BY <2>1, SparesTrans
<1>11. ~Aside(k', u)
  BY <1>7, <1>9 DEF Spares, LeftAlone
<1>12. k'.stat[k'.cur] = "RUNNING"
  <2>1. k.stat[k.cur] # "RUNNING" => k.lock = 0
    BY DEF ThreadsInv, CurrentRuns
  <2>2. CASE MaySwitch(r)
    BY <1>8, <2>2
  <2>3. CASE ~MaySwitch(r) /\ r.lock = 0
    BY <1>3, <1>6, <1>8, <2>3, SomebodyRuns
  <2>4. CASE ~MaySwitch(r) /\ r.lock # 0
    BY <1>2, <1>3, <1>6, <1>8, <2>1, <2>4
  <2> QED
    BY <2>2, <2>3, <2>4
<1>13. \A x \in Thread : pc[x].arg \in {u} => Sound(k', pc[x])
  <2> SUFFICES ASSUME NEW x \in Thread, pc[x].arg = u PROVE Sound(k', pc[x])
    OBVIOUS
  <2>1. pc[x].at \notin MidCall
    BY <1>2, BusyIs
  <2>2. pc[x].at # "free"
    BY <1>2 DEF ThreadsInv, Sound, Gone
  <2> QED
    BY <2>1, <2>2, SoundOutside
<1>14. CurrentRuns' /\ k'.lock <= MaxNest /\ {u} \in SUBSET Thread
  BY <1>3, <1>6, <1>8, <1>12 DEF CurrentRuns
<1>15. \A x \in {u} : k.stat[x] # "CLOSE" /\ ~Aside(k', x)
  BY <1>2, <1>11
<1> QED
  BY <1>2, <1>3, <1>8, <1>10, <1>13, <1>14, <1>15, PcKeeps

-----------------------------------------------------------------------------
(* The specification *)

\* The state in which the scheduler starts satisfies the invariant.
LEMMA ThreadsInit ==
    ASSUME Init
    PROVE  ThreadsInv
<1>1. /\ k = Booted(Live, InitPrio) /\ isr = "none" /\ free = Thread \ Live
      /\ pc = [t \in Thread |-> [at |-> "run", arg |-> t]]
  BY DEF Init, SystemInit
<1>2. /\ Live \subseteq Thread /\ Idle \in Live /\ MaxNest \in Nat /\ Idle \in Thread
      /\ MayBoot(Live, InitPrio)
  BY ThreadsAssumption, SystemAssumption DEF MayBoot
<1>3. /\ Good(k, {})
      /\ k.stat[k.cur] = "RUNNING" /\ k.lock = 0 /\ k.tlist = << >>
      /\ \A u \in Thread : \A o \in Obj : ~Linked(k, u, o)
      /\ \A u \in Thread : ~Linked(k, u, Defunct)
      /\ \A u \in Thread : k.stat[u] = "CLOSE" <=> u \notin Live
  BY <1>1, <1>2, BootGood
<1>4. /\ pc \in [Thread -> [at : PcAt, arg : Thread]]
      /\ \A t \in Thread : pc[t].at = "run"
  <2>1. "run" \in PcAt
    BY DEF PcAt
  <2> QED
    BY <1>1, <2>1
<1>5. "run" \notin MidCall /\ "run" \notin DelPoint /\ "run" \notin {"suspend", "free", "take_sched"}
  BY Points
<1>6. Deleting = {}
  BY <1>4, <1>5, DeletingIs
<1>7. ThreadsTypeOK
  BY <1>1, <1>2, <1>3, <1>4 DEF ThreadsTypeOK, Good, PcAt, Isr
<1>8. CurrentRuns
  BY <1>3 DEF CurrentRuns
<1>9. CallsApart
  BY <1>2, <1>4, <1>5 DEF CallsApart
<1>10. \A t \in Thread : Sound(k, pc[t])
  BY <1>4, <1>5, SoundOutside
<1>11. \A u \in Thread : ~Armed(k, u)
  BY <1>3 DEF Armed, ToSet
<1>12. \A u \in free : Gone(k, u)
  <2> SUFFICES ASSUME NEW u \in Thread, u \notin Live PROVE Gone(k, u)
    BY <1>1
  <2>1. k.stat[u] = "CLOSE"
    BY <1>3
  <2>2. \A p \in Prio : ~Linked(k, u, p)
    BY <1>3, <2>1 DEF Good, Flat
  <2> QED
    BY <1>3, <1>11, <2>1, <2>2 DEF Gone, Apart, Lists
<1> QED
  BY <1>2, <1>3, <1>4, <1>5, <1>6, <1>7, <1>8, <1>9, <1>10, <1>11, <1>12 DEF ThreadsInv

\* Every step preserves the invariant and keeps closed threads closed.
LEMMA ThreadsNext ==
    ASSUME ThreadsInv, Disciplined, Next
    PROVE  ThreadsInv' /\ ClosedKept
<1>1. CASE SystemStep /\ UNCHANGED free
  BY <1>1, TickInterruptKeeps, CallScheduleKeeps, SleptKeeps, SleepKeeps DEF SystemStep
<1>2. CASE \E u \in Thread : IsrResume(u)
  BY <1>2, IsrResumeKeeps
<1>3. CASE IdleReap \/ IdleFree
  BY <1>3, IdleReapKeeps, IdleFreeKeeps
<1>4. ASSUME NEW t \in User, NEW u \in Thread,
             \/ Create(t, u) \/ Startup(t, u) \/ Resume(t, u)
             \/ SuspendOther(t, u) \/ Delete(t, u)
             \/ \E p \in Prio : Control(t, u, p)
      PROVE  ThreadsInv' /\ ClosedKept
  BY <1>4, CreateKeeps, StartupKeeps, ResumeKeeps, SuspendOtherKeeps, DeleteKeeps, ControlKeeps
<1>5. ASSUME NEW t \in User,
             \/ ResumeCheck(t) \/ ResumeWindow(t) \/ ResumeInsert(t)
             \/ SuspendSelf(t) \/ SuspendWindow(t)
             \/ Yield(t) \/ Exit(t) \/ DeleteTimer(t) \/ DeleteClose(t)
             \/ EnterCritical(t) \/ ExitCritical(t)
      PROVE  ThreadsInv' /\ ClosedKept
  BY <1>5, ResumeCheckKeeps, ResumeWindowKeeps, ResumeInsertKeeps, SuspendSelfKeeps,
     SuspendWindowKeeps, YieldKeeps, ExitKeeps, DeleteTimerKeeps, DeleteCloseKeeps,
     EnterCriticalKeeps, ExitCriticalKeeps
<1> QED
  BY <1>1, <1>2, <1>3, <1>4, <1>5 DEF Next

\* A step that changes nothing
LEMMA ThreadsStutter ==
    ASSUME ThreadsInv, UNCHANGED vars
    PROVE  ThreadsInv' /\ ClosedKept
<1>1. k' = k /\ isr' = isr /\ pc' = pc /\ free' = free
  BY DEF vars
<1>2. /\ Good(k, Deleting) /\ {} \in SUBSET Thread /\ isr \in Isr /\ k.lock <= MaxNest
      /\ Spares(k, k', {}) /\ CurrentRuns'
  BY <1>1, InvFacts, SameSpares DEF ThreadsInv, CurrentRuns
<1> QED
  BY <1>1, <1>2, PcKeeps

\* The inductive invariant holds for callers that avoid the races Disciplined names.
THEOREM ThreadsInvariance ==
    ASSUME Disciplined
    PROVE  Spec => []ThreadsInv
<1>1. Init => ThreadsInv
  BY ThreadsInit
<1>2. ThreadsInv /\ [Next]_vars => ThreadsInv'
  BY ThreadsNext, ThreadsStutter
<1> QED
  BY <1>1, <1>2, PTL DEF Spec

\* The ready table, the suspend and defunct lists, the states, the timers and the
\* priority bitmap agree in every state, in the middle of rt_thread_delete,
\* rt_thread_suspend and rt_thread_resume and in every interrupt too.
THEOREM ThreadsStayConsistent ==
    ASSUME Disciplined
    PROVE  Spec => []ThreadsConsistent
<1>1. ThreadsInv => ThreadsConsistent
  BY InvFacts, FlatIff DEF ThreadsInv, ThreadsConsistent, KernelConsistent
<1> QED
  BY <1>1, ThreadsInvariance, PTL

\* The same agreement by itself, for threads that suspend each other as well
THEOREM KernelStaysConsistent ==
    ASSUME Disciplined
    PROVE  Spec => []KernelConsistent
<1>1. ThreadsInv => KernelConsistent
  BY InvFacts, FlatIff DEF ThreadsInv, KernelConsistent
<1> QED
  BY <1>1, ThreadsInvariance, PTL

\* Once the idle thread has freed a thread, the scheduler, the lists and the timers
\* do not lead to it any more.
THEOREM FreedIsUnreachable ==
    ASSUME Disciplined
    PROVE  Spec => []FreedUnreachable
<1>1. ThreadsInv => FreedUnreachable
  BY DEF ThreadsInv, FreedUnreachable, Gone, Apart
<1> QED
  BY <1>1, ThreadsInvariance, PTL

\* A thread that exited or was deleted is not started, resumed or scheduled again
\* before rt_thread_create reuses its memory.
THEOREM ClosedForGood ==
    ASSUME Disciplined
    PROVE  Spec => ClosedStaysClosed
<1>1. ThreadsInv /\ [Next]_vars => ClosedKept
  BY ThreadsNext, ThreadsStutter
<1>2. ThreadsInv /\ [Next]_vars =>
        [\A u \in Thread : k.stat[u] = "CLOSE" /\ k'.stat[u] # "CLOSE" => u \in free]_vars
  BY <1>1 DEF ClosedKept
<1> QED
  BY <1>2, ThreadsInvariance, PTL DEF Spec, ClosedStaysClosed

-----------------------------------------------------------------------------
(* The timers *)

\* While the tick handler runs, the timers are in order as seen from the tick before:
\* the ones that are due now are still at the head of the list.
TimersInOrder == DueInOrder(k, IF isr = "timer_check" THEN TickDiff(k.tick, 1) ELSE k.tick)

\* A step that starts no timer and is not one of the clock
LEMMA TimersUntouched ==
    ASSUME ThreadsInv, ThreadsInv', TimersInOrder, isr' = isr, FewerTimers(k, k')
    PROVE  TimersInOrder'
<1>1. k \in Kstate /\ k' \in Kstate /\ k'.tick = k.tick
  BY DEF ThreadsInv, ThreadsTypeOK, FewerTimers
<1> QED
  BY <1>1, FewerInOrder DEF TimersInOrder

\* The timers in the steps of SysTick_Handler
LEMMA TickInOrder ==
    ASSUME TickMod > 4, ThreadsInv, ThreadsInv', TimersInOrder, TickInterrupt
    PROVE  TimersInOrder'
<1>0. Good(k, Deleting) /\ k.tick \in Tick
  BY InvFacts DEF Kstate
<1>1. CASE TickIncrease
  <2>1. isr = "none" /\ k' = rt_tick_increase(k) /\ isr' = "timer_check"
    BY <1>1 DEF TickIncrease
  <2>2. k'.tlist = k.tlist /\ k'.timeout = k.timeout /\ k'.tick = (k.tick + 1) % TickMod
    BY <1>0, <2>1, TickTimers
  <2>3. TickDiff(k'.tick, 1) = k.tick
    BY <1>0, <2>2, TickBefore
  <2>4. DueInOrder(k', k.tick)
    BY <2>1, <2>2 DEF TimersInOrder, DueInOrder, Armed
  <2> QED
    BY <2>1, <2>3, <2>4 DEF TimersInOrder
<1>2. CASE TimerExpires
  <2>1. PICK t : t = Head(k.tlist)
    OBVIOUS
  <2>2. PICK s : s = TimerStop(k, t)
    OBVIOUS
  <2>3. k.tlist # << >> /\ k' = rt_thread_timeout(s, t) /\ isr' = isr
    BY <1>2, <2>1, <2>2 DEF TimerExpires, HeadExpired
  <2>4. FewerTimers(k, k')
    BY <1>0, <2>1, <2>2, <2>3, ExpireFewer
  <2> QED
    BY <2>3, <2>4, TimersUntouched
<1>3. CASE TickReturn
  <2>1. isr = "timer_check" /\ ~HeadExpired(k) /\ isr' = "none" /\ k' = k
    BY <1>3 DEF TickReturn
  <2>2. DueInOrder(k, k.tick)
    BY <1>0, <2>1, CheckedInOrder DEF TimersInOrder
  <2> QED
    BY <2>1, <2>2 DEF TimersInOrder
<1> QED
  BY <1>1, <1>2, <1>3 DEF TickInterrupt

\* The timer of one thread is stopped.
LEMMA StopsTimer ==
    ASSUME ThreadsInv, NEW u \in Thread, k'.tick = k.tick,
           k'.tlist = RemoveFirst(k.tlist, u), k'.timeout = [k.timeout EXCEPT ![u] = 0]
    PROVE  FewerTimers(k, k')
<1>1. k.tlist \in Seq(Thread) /\ IsInjective(k.tlist) /\ k.timeout \in [Thread -> Tick]
  BY InvFacts DEF Kstate, Flat
<1>2. ToSet(k'.tlist) = ToSet(k.tlist) \ {u} /\ KeepsOrder(k.tlist, k'.tlist)
  BY <1>1, RemoveFirstList, RemoveFirstOrder
<1> QED
  BY <1>1, <1>2 DEF FewerTimers, Armed

\* rt_thread_sleep arms the timer of its thread
LEMMA SleepInOrder ==
    ASSUME ThreadsInv, TimersInOrder, NEW t \in User, NEW ticks \in Delays, Sleep(t, ticks)
    PROVE  TimersInOrder'
<1>1. /\ isr = "none" /\ k.cur = t /\ pc[t].at = "run" /\ isr' = isr
      /\ k' = TimerStart(rt_thread_suspend(k, t), t, ticks)
  BY DEF Sleep, Calls, Is
<1>2. /\ t \in Thread /\ t # Idle /\ k.stat[t] = "RUNNING" /\ Good(k, Deleting)
      /\ ticks \in 0 .. HalfTick - 1
  BY <1>1, CallerRuns, InvFacts, SystemAssumption
<1>3. PICK v : v = rt_schedule_remove_thread(k, t)
  OBVIOUS
<1>4. PICK w : w = SetStat(v, t, "SUSPEND")
  OBVIOUS
<1>5. PICK s : s = TimerStop(w, t)
  OBVIOUS
<1>6. k' = TimerStart(s, t, ticks)
  BY <1>1, <1>2, <1>3, <1>4, <1>5, SuspendIs
<1>7. Good(s, Deleting) /\ s.stat[t] = "SUSPEND" /\ ActsOn(k, s, t)
  BY <1>2, <1>3, <1>4, <1>5, TakeOutGood
<1>8. FewerTimers(k, s)
  <2>1. k \in Kstate /\ k.tlist \in Seq(Thread) /\ IsInjective(k.tlist)
        /\ k.timeout \in [Thread -> Tick]
    BY <1>2 DEF Good, Flat, Kstate
  <2>2. /\ s.tick = k.tick /\ s.tlist = RemoveFirst(k.tlist, t)
        /\ s.timeout = [k.timeout EXCEPT ![t] = 0]
    BY <1>3, <1>4, <1>5, <2>1 DEF rt_schedule_remove_thread, Unlink, SetStat, TimerStop, Kstate
  <2>3. ToSet(s.tlist) = ToSet(k.tlist) \ {t} /\ KeepsOrder(k.tlist, s.tlist)
    BY <2>1, <2>2, RemoveFirstList, RemoveFirstOrder
  <2> QED
    BY <2>1, <2>2, <2>3 DEF FewerTimers, Armed
<1>9. DueInOrder(s, s.tick)
  BY <1>1, <1>2, <1>7, <1>8, FewerInOrder DEF TimersInOrder, Good, FewerTimers
<1>10. DueInOrder(k', k'.tick)
  BY <1>2, <1>6, <1>7, <1>9, TimerStartInOrder
<1> QED
  BY <1>1, <1>10 DEF TimersInOrder

\* The other steps start no timer.
LEMMA NoTimerStarted ==
    ASSUME ThreadsInv, NEW t \in User, NEW u \in Thread,
           \/ Create(t, u) \/ Startup(t, u) \/ Resume(t, u)
           \/ SuspendOther(t, u) \/ Delete(t, u)
           \/ \E p \in Prio : Control(t, u, p)
           \/ ResumeCheck(t) \/ ResumeInsert(t)
           \/ DeleteClose(t) \/ EnterCritical(t) \/ ExitCritical(t)
           \/ Slept(t)
    PROVE  isr' = isr /\ FewerTimers(k, k')
<1>1. k \in Kstate
  BY InvFacts
<1>2. SameTimers(k, k)
  BY DEF SameTimers
<1>3. CASE Resume(t, u) \/ SuspendOther(t, u) \/ ResumeCheck(t)
  BY <1>2, <1>3, SameFewer DEF Resume, SuspendOther, ResumeCheck
<1>4. CASE Create(t, u) \/ Startup(t, u) \/ DeleteClose(t) \/ EnterCritical(t)
           \/ ExitCritical(t) \/ Slept(t)
  <2>1. SameTimers(k, k') /\ isr' = isr
    BY <1>1, <1>4 DEF SameTimers, Kstate, Create, Startup, DeleteClose, EnterCritical,
                      ExitCritical, Slept
  <2> QED
    BY <2>1, SameFewer
<1>5. CASE Delete(t, u) \/ ResumeInsert(t)
  <2>1. SameTimers(k, k') /\ isr' = isr
    BY <1>1, <1>2, <1>5, ReadyTableSameTimers DEF Delete, ResumeInsert
  <2> QED
    BY <2>1, SameFewer
<1>6. ASSUME NEW p \in Prio, Control(t, u, p)
      PROVE  SameTimers(k, k') /\ isr' = isr
  BY <1>1, <1>6 DEF Control, ChangePriority, rt_schedule_insert_thread,
                    rt_schedule_remove_thread, Unlink, SameTimers, Kstate
<1> QED
  BY <1>3, <1>4, <1>5, <1>6, SameFewer

\* The steps that stop the timer of a thread
LEMMA TimerStopped ==
    ASSUME ThreadsInv, NEW t \in User,
           \/ ResumeWindow(t) \/ SuspendSelf(t) \/ SuspendWindow(t)
           \/ Exit(t) \/ DeleteTimer(t)
    PROVE  isr' = isr /\ FewerTimers(k, k')
<1>1. k \in Kstate /\ pc[t].arg \in Thread /\ t \in Thread
  BY InvFacts DEF User
<1>2. CASE ResumeWindow(t) \/ DeleteTimer(t) \/ SuspendWindow(t)
  <2>1. /\ isr' = isr /\ k'.tick = k.tick /\ k'.tlist = RemoveFirst(k.tlist, pc[t].arg)
        /\ k'.timeout = [k.timeout EXCEPT ![pc[t].arg] = 0]
    BY <1>1, <1>2 DEF ResumeWindow, DeleteTimer, SuspendWindow, ResumeUnlink, TimerStop,
                      rt_schedule_remove_thread, Unlink, Kstate
  <2> QED
    BY <1>1, <2>1, StopsTimer
<1>3. CASE Exit(t) \/ SuspendSelf(t)
  <2>1. k.stat[t] \in {"READY", "RUNNING"}
    BY <1>1, <1>3, CallerRuns DEF Exit, SuspendSelf, Calls, Is
  <2>2. /\ isr' = isr /\ k'.tick = k.tick /\ k'.tlist = RemoveFirst(k.tlist, t)
        /\ k'.timeout = [k.timeout EXCEPT ![t] = 0]
    BY <1>1, <1>3, <2>1 DEF Exit, SuspendSelf, rt_thread_suspend, TimerStop,
                      rt_schedule_remove_thread, Unlink, Kstate
  <2> QED
    BY <1>1, <2>2, StopsTimer
<1> QED
  BY <1>2, <1>3

\* The steps that run rt_schedule
LEMMA TimersScheduled ==
    ASSUME ThreadsInv,
           \/ \E t \in User : CallSchedule(t) \/ Yield(t)
           \/ IdleReap
           \/ \E u \in Thread : IsrResume(u)
    PROVE  isr' = isr /\ FewerTimers(k, k')
<1>1. k \in Kstate /\ Good(k, Deleting)
  BY InvFacts
<1>2. CASE \E t \in User : CallSchedule(t) \/ Yield(t)
  <2>1. isr' = isr /\ k' = rt_schedule(k)
    BY <1>2 DEF CallSchedule, Yield
  <2> QED
    BY <1>1, <2>1, ScheduleSameTimers, SameFewer
<1>3. CASE IdleReap
  <2>1. PICK u : u = Head(k.q[Defunct])
    OBVIOUS
  <2>2. PICK w : w = Unlink(k, u)
    OBVIOUS
  <2>3. k.q[Defunct] # << >> /\ k' = rt_schedule(w) /\ isr' = isr
    BY <1>3, <2>1, <2>2 DEF IdleReap
  <2>4. u \in Thread /\ Linked(k, u, Defunct)
    BY <1>1, <2>1, <2>3, HeadLinked DEF Lists
  <2>5. \A p \in Prio : ~Linked(k, u, p)
    BY <1>1, <2>4 DEF Good, Flat
  <2>6. w \in Kstate /\ SameTimers(k, w)
    BY <1>1, <2>2, <2>4, <2>5, UnlinkGood, ReadyTableSameTimers DEF Good
  <2>7. SameTimers(w, k')
    BY <2>3, <2>6, ScheduleSameTimers
  <2> QED
    BY <2>3, <2>6, <2>7, SameFewer, FewerTrans
<1>4. ASSUME NEW u \in Thread, IsrResume(u)
      PROVE  isr' = isr /\ FewerTimers(k, k')
  <2>1. PICK r : r = rt_thread_resume(k, u)
    OBVIOUS
  <2>2. k.stat[u] = "SUSPEND" /\ k' = rt_schedule(r) /\ isr' = isr
    BY <1>4, <2>1 DEF IsrResume
  <2>3. Good(r, Deleting) /\ FewerTimers(k, r)
    BY <1>1, <2>1, <2>2, ResumeGood, ResumeFewer
  <2>4. SameTimers(r, k')
    BY <2>2, <2>3, ScheduleSameTimers DEF Good
  <2> QED
    BY <2>2, <2>3, <2>4, SameFewer, FewerTrans
<1> QED
  BY <1>2, <1>3, <1>4

\* Every step keeps the timers in order.
LEMMA TimersNext ==
    ASSUME TickMod > 4, Disciplined, ThreadsInv, ThreadsInv', TimersInOrder, Next
    PROVE  TimersInOrder'
<1>1. CASE SystemStep /\ UNCHANGED free
  <2>1. CASE TickInterrupt
    BY <2>1, TickInOrder
  <2>2. ASSUME NEW t \in User, CallSchedule(t) \/ Slept(t) \/ \E d \in Delays : Sleep(t, d)
        PROVE  TimersInOrder'
    <3>1. t \in Thread
      BY DEF User
    <3> QED
      BY <2>2, <3>1, TimersScheduled, NoTimerStarted, SleepInOrder, TimersUntouched
  <2> QED
    BY <1>1, <2>1, <2>2 DEF SystemStep
<1>2. CASE \E u \in Thread : IsrResume(u)
  BY <1>2, TimersScheduled, TimersUntouched
<1>3. CASE IdleReap
  BY <1>3, TimersScheduled, TimersUntouched
<1>4. CASE IdleFree
  BY <1>4, SameFewer, TimersUntouched DEF IdleFree, SameTimers
<1>5. ASSUME NEW t \in User, NEW u \in Thread,
             \/ Create(t, u) \/ Startup(t, u) \/ Resume(t, u)
             \/ SuspendOther(t, u) \/ Delete(t, u)
             \/ \E p \in Prio : Control(t, u, p)
      PROVE  TimersInOrder'
  BY <1>5, NoTimerStarted, TimersUntouched
<1>6. ASSUME NEW t \in User,
             \/ ResumeCheck(t) \/ ResumeWindow(t) \/ ResumeInsert(t)
             \/ SuspendSelf(t) \/ SuspendWindow(t)
             \/ Yield(t) \/ Exit(t) \/ DeleteTimer(t) \/ DeleteClose(t)
             \/ EnterCritical(t) \/ ExitCritical(t)
      PROVE  TimersInOrder'
  <2>1. t \in Thread
    BY DEF User
  <2> QED
    BY <1>6, <2>1, NoTimerStarted, TimerStopped, TimersScheduled, TimersUntouched
<1> QED
  BY <1>1, <1>2, <1>3, <1>4, <1>5, <1>6 DEF Next

\* No timer is overdue outside the tick handler and the list is sorted across a wrap
\* of rt_tick, so that rt_timer_check may stop at the first timer that is not due.
\* A tick of two bits is too narrow: half of its range is one tick, and a timer
\* started with a delay of 0 is never found expired.
THEOREM TimersAreReady ==
    ASSUME Disciplined, TickMod > 4
    PROVE  Spec => []TimersReady
<1>1. Init => TimersInOrder
  <2> SUFFICES ASSUME Init PROVE TimersInOrder
    OBVIOUS
  <2>1. k.tlist = << >>
    <3>1. MayBoot(Live, InitPrio) /\ Idle \in Live
      BY ThreadsAssumption, SystemAssumption DEF MayBoot
    <3> QED
      BY <3>1, BootGood DEF Init, SystemInit
  <2> QED
    BY <2>1 DEF TimersInOrder, DueInOrder, Armed, ToSet
<1>2. ThreadsInv /\ ThreadsInv' /\ TimersInOrder /\ [Next]_vars => TimersInOrder'
  BY TimersNext DEF vars, TimersInOrder
<1>3. TimersInOrder => TimersReady
  BY DEF TimersInOrder, TimersReady, NoTimerOverdue, TimersSorted, DueInOrder
<1> QED
  BY <1>1, <1>2, <1>3, ThreadsInvariance, PTL DEF Spec

-----------------------------------------------------------------------------
(* Preemption *)

\* What preemption asks of the callers beside Disciplined: rt_thread_control does not
\* reschedule, and a thread suspended in the middle of rt_thread_delete leaves its
\* victim READY without a place in the ready table.
Preemptible ==
    /\ "control" \notin Ops
    /\ ~("suspend_other" \in Ops /\ "delete" \in Ops)

Active == {"READY", "RUNNING"}

\* A thread that deletes another one is ready to go on, and at least as urgent as a
\* victim that was READY, unless it locked the scheduler before.
DeleterAhead(d) ==
    pc[d].at \in DelPoint =>
        /\ "delete" \in Ops
        /\ k.stat[d] \in Active
        /\ k.stat[pc[d].arg] = "READY" =>
                k.prio[d] <= k.prio[pc[d].arg] \/ (k.lock > 0 /\ k.cur = d)

\* No READY thread outside rt_thread_delete is more urgent than the current one.
CurrentAhead == k.lock = 0 /\ pc[k.cur].at \notin DOMAIN After => Urgent(k, Deleting)

\* The inductive invariant.  Preemptive alone says nothing of a victim that waits,
\* READY and unlinked, while its deleter is preempted.
Ahead ==
    /\ k.prio = InitPrio
    /\ CurrentAhead
    /\ \A d \in Thread : DeleterAhead(d)

\* A thread in the middle of rt_thread_delete is no victim, and its victim is another
\* thread, aside and not current.
LEMMA DeleterFacts ==
    ASSUME ThreadsInv, NEW d \in Thread, pc[d].at \in DelPoint
    PROVE  /\ d \notin Deleting /\ pc[d].arg \in Deleting /\ pc[d].arg \in Thread
           /\ pc[d].arg # d /\ pc[d].arg # k.cur /\ Aside(k, pc[d].arg)
           /\ pc[pc[d].arg].at \notin DelPoint
           /\ k.stat[pc[d].arg] # "CLOSE" /\ ~Armed(k, pc[d].arg)
<1>1. pc[d].at \in MidCall /\ CallsApart /\ Sound(k, pc[d]) /\ pc[d].arg \in Thread
  BY Points, InvFacts DEF ThreadsInv
<1>2. \A v \in Thread : pc[v].at \in DelPoint => pc[pc[v].arg].at \notin MidCall
  BY <1>1 DEF CallsApart
<1>3. d \notin Deleting /\ pc[d].arg \in Deleting /\ pc[d].arg # d
      /\ pc[pc[d].arg].at \notin DelPoint
  BY <1>1, <1>2, DeletingIs, Points
<1>4. /\ Apart(k, pc[d].arg) /\ k.cur # pc[d].arg
      /\ k.stat[pc[d].arg] \in {"INIT", "READY", "SUSPEND"}
  BY <1>1 DEF Sound
<1> QED
  BY <1>1, <1>3, <1>4 DEF Apart, Aside, Lists

\* Two deletions are not of the same thread.
LEMMA DeletersApart ==
    ASSUME ThreadsInv, NEW d \in Thread, pc[d].at \in DelPoint,
           NEW e \in Thread, pc[e].at \in DelPoint, pc[d].arg = pc[e].arg
    PROVE  d = e
BY Points DEF ThreadsInv, CallsApart

\* How a step that starts no deletion is shown to keep the invariant
LEMMA AheadKept ==
    ASSUME Ahead, k'.prio = k.prio, CurrentAhead',
           \A d \in Thread : pc'[d].at \in DelPoint =>
                /\ pc[d].at \in DelPoint /\ pc'[d].arg = pc[d].arg
                /\ k'.stat[d] \in Active
                /\ k'.stat[pc[d].arg] = k.stat[pc[d].arg]
                /\ k.lock > 0 /\ k.cur = d => k'.lock > 0 /\ k'.cur = d
    PROVE  Ahead'
BY DEF Ahead, DeleterAhead

\* rt_schedule and the interrupt handlers
LEMMA HandlerAhead ==
    ASSUME ThreadsInv, ThreadsInv', Ahead, k'.prio = k.prio, k'.lock = k.lock,
           \A d \in Thread : pc'[d].at \in DelPoint => pc'[d] = pc[d],
           NEW S \in SUBSET Thread, Spares(k, k', S),
           \A u \in S : k.stat[u] \notin Active /\ u \notin Deleting,
           k.lock > 0 => k'.cur = k.cur, CurrentAhead'
    PROVE  Ahead'
<1> SUFFICES ASSUME NEW d \in Thread, pc'[d].at \in DelPoint
             PROVE  /\ pc[d].at \in DelPoint /\ pc'[d].arg = pc[d].arg
                    /\ k'.stat[d] \in Active
                    /\ k'.stat[pc[d].arg] = k.stat[pc[d].arg]
                    /\ k.lock > 0 /\ k.cur = d => k'.lock > 0 /\ k'.cur = d
  BY AheadKept
<1>1. pc'[d] = pc[d] /\ k.stat[d] \in Active
  BY DEF Ahead, DeleterAhead
<1>2. /\ d \notin Deleting /\ pc[d].arg \in Deleting /\ pc[d].arg \in Thread
      /\ Aside(k, pc[d].arg)
  BY <1>1, DeleterFacts
<1>3. LeftAlone(k, k', d) /\ LeftAlone(k, k', pc[d].arg)
  BY <1>1, <1>2 DEF Spares
<1>4. Good(k, Deleting) /\ Good(k', Deleting')
  BY DEF ThreadsInv
<1>5. ~Aside(k, d)
  BY <1>1, <1>2, <1>4 DEF Good, Flat, Aside, Active, Kstate
<1>6. k'.stat[d] \in Active
  BY <1>3, <1>4, <1>5, NotAside DEF LeftAlone, Active
<1> QED
  BY <1>1, <1>2, <1>3, <1>6 DEF LeftAlone

\* A step of the current thread outside rt_thread_delete
LEMMA CallerAhead ==
    ASSUME ThreadsInv, Ahead, NEW t \in Thread, k.cur = t, pc[t].at \notin DelPoint,
           pc'[t].at \notin DelPoint,
           \A v \in Thread \ {t} : pc'[v] = pc[v] \/ pc'[v].at \notin DelPoint,
           k'.prio = k.prio,
           \A v \in Thread \ {t} : k'.stat[v] = k.stat[v]
                                   \/ (v \notin Deleting /\ k.stat[v] \notin Active),
           CurrentAhead'
    PROVE  Ahead'
<1> SUFFICES ASSUME NEW d \in Thread, pc'[d].at \in DelPoint
             PROVE  /\ pc[d].at \in DelPoint /\ pc'[d].arg = pc[d].arg
                    /\ k'.stat[d] \in Active
                    /\ k'.stat[pc[d].arg] = k.stat[pc[d].arg]
                    /\ k.lock > 0 /\ k.cur = d => k'.lock > 0 /\ k'.cur = d
  BY AheadKept
<1>1. d # t /\ pc'[d] = pc[d] /\ k.stat[d] \in Active
  BY DEF Ahead, DeleterAhead
<1>2. pc[d].arg \in Deleting /\ pc[d].arg \in Thread /\ pc[d].arg # t
  BY <1>1, DeleterFacts
<1> QED
  BY <1>1, <1>2

\* The current thread goes on and no other thread becomes READY.
LEMMA StaysAhead ==
    ASSUME Ahead, k'.cur = k.cur, pc[k.cur].at \notin DOMAIN After, k'.lock = k.lock,
           k'.prio = k.prio,
           \A u \in Thread : k'.stat[u] = "READY" /\ u \notin Deleting' =>
                                k.stat[u] = "READY" /\ u \notin Deleting
    PROVE  CurrentAhead'
BY DEF Ahead, CurrentAhead, Urgent

\* The current thread is about to call rt_schedule.
LEMMA SchedAhead ==
    ASSUME pc'[k'.cur].at \in {"sched", "sleep_sched", "exit_sched"}
    PROVE  CurrentAhead'
BY DEF CurrentAhead, After

\* rt_schedule picks the most urgent thread, with the scheduler unlocked.
LEMMA SwitchAhead ==
    ASSUME NEW x, Good(x, Deleting), k' = rt_schedule(x), Deleting' = Deleting
    PROVE  CurrentAhead'
<1>1. k'.lock = x.lock
  BY ScheduleGood
<1>2. x.lock = 0 => Urgent(k', Deleting)
  BY ScheduleUrgent
<1> QED
  BY <1>1, <1>2 DEF CurrentAhead

\* The tick interrupt
LEMMA TickAhead ==
    ASSUME ThreadsInv, ThreadsInv', Ahead, TickInterrupt
    PROVE  Ahead'
<1>0. /\ Good(k, Deleting) /\ pc' = pc /\ {} \in SUBSET Thread /\ k.lock \in Nat
      /\ Deleting' = Deleting
  BY InvFacts, SamePc DEF TickInterrupt
<1>1. CASE TickIncrease
  <2>1. k' = rt_tick_increase(k)
    BY <1>1 DEF TickIncrease
  <2>2. k'.prio = k.prio /\ k'.lock = k.lock /\ Spares(k, k', {})
    BY <1>0, <2>1, TickGood, TickSpares
  <2>3. k.lock > 0 => k'.cur = k.cur
    BY <1>0, <2>1, TickLocked
  <2>4. k.lock = 0 => Urgent(k', Deleting) \/ (k'.cur = k.cur /\ k'.stat = k.stat)
    BY <1>0, <2>1, TickUrgent
  <2>5. CurrentAhead'
    BY <1>0, <2>2, <2>4 DEF Ahead, CurrentAhead, Urgent
  <2> QED
    BY <1>0, <2>2, <2>3, <2>5, HandlerAhead
<1>2. CASE TimerExpires
  <2>1. PICK t : t = Head(k.tlist)
    OBVIOUS
  <2>2. PICK s : s = TimerStop(k, t)
    OBVIOUS
  <2>3. k.tlist # << >> /\ k' = rt_thread_timeout(s, t)
    BY <1>2, <2>1, <2>2 DEF TimerExpires, HeadExpired
  <2>4. k'.prio = k.prio /\ k'.lock = k.lock
    BY <1>0, <2>1, <2>2, <2>3, ExpireGood
  <2>5. t \in Thread /\ Armed(k, t) /\ Spares(k, k', {t})
    BY <1>0, <2>1, <2>2, <2>3, ExpireSpares
  <2>6. k.lock > 0 => k'.cur = k.cur
    BY <1>0, <2>1, <2>2, <2>3, ExpireLocked
  <2>7. k.lock = 0 => Urgent(k', Deleting)
    BY <1>0, <2>1, <2>2, <2>3, ExpireUrgent
  <2>8. CurrentAhead'
    BY <1>0, <2>4, <2>7 DEF CurrentAhead
  <2>9. k.stat[t] \notin Active /\ t \notin Deleting
    BY <1>0, <2>5, DeletingIs, DeleterFacts DEF Good, Flat, Active
  <2> QED
    BY <1>0, <2>4, <2>5, <2>6, <2>8, <2>9, HandlerAhead
<1>3. CASE TickReturn
  BY <1>0, <1>3 DEF TickReturn, Ahead, CurrentAhead, DeleterAhead
<1> QED
  BY <1>1, <1>2, <1>3 DEF TickInterrupt

\* The steps that run rt_schedule and leave the states of the threads to it
LEMMA ScheduleAhead ==
    ASSUME ThreadsInv, ThreadsInv', Ahead, Disciplined,
           \/ \E t \in User : CallSchedule(t) \/ Yield(t)
           \/ IdleReap
           \/ \E u \in Thread : IsrResume(u)
    PROVE  Ahead'
<1>0. Good(k, Deleting) /\ k.lock \in Nat /\ {} \in SUBSET Thread /\ Idle \in Thread
  BY InvFacts
<1>1. ASSUME NEW t \in User, CallSchedule(t) \/ Yield(t)
      PROVE  Ahead'
  <2>1. /\ k' = rt_schedule(k) /\ t \in Thread /\ pc[t].at \notin DelPoint
        /\ pc' = pc \/ (Goto(t, After[pc[t].at], pc[t].arg) /\ pc[t].at \in DOMAIN After)
    BY <1>1, Points DEF CallSchedule, Yield, Calls, Is, User
  <2>2. /\ Deleting' = Deleting
        /\ \A d \in Thread : pc'[d].at \in DelPoint => pc'[d] = pc[d]
    <3>1. CASE pc' = pc
      BY <3>1, SamePc
    <3>2. CASE pc' # pc
      <4>1. Goto(t, After[pc[t].at], pc[t].arg) /\ pc[t].at \in DOMAIN After
        BY <2>1, <3>2
      <4>2. pc[t].at # "take_sched" /\ pc[t].arg \in Thread
        BY <2>1, InvFacts DEF ThreadsInv, CallsApart
      <4>3. PICK at : at = After[pc[t].at]
        OBVIOUS
      <4>4. at \in {"run", "slept", "exited"}
        BY <4>1, <4>2, <4>3 DEF After
      <4>5. at \in PcAt /\ at \notin MidCall /\ at \notin {"free", "take_sched"}
        BY <4>4, StepPoints
      <4>6. Deleting' = Deleting
        BY <1>1, <2>1, <4>1, <4>2, <4>3, <4>5, LeavesCall
      <4>7. pc'[t].at = at /\ \A v \in Thread \ {t} : pc'[v] = pc[v]
        BY <2>1, <4>1, <4>2, <4>3, <4>5, GotoPc
      <4> QED
        BY <4>5, <4>6, <4>7, Points
    <3> QED
      BY <3>1, <3>2
  <2>3. /\ k'.prio = k.prio /\ k'.lock = k.lock /\ Spares(k, k', {})
        /\ k.lock > 0 => k'.cur = k.cur
    <3>1. k'.prio = k.prio /\ k'.lock = k.lock
      BY <1>0, <2>1, ScheduleGood
    <3>2. k.lock > 0 => k' = k
      BY <2>1, ScheduleLocked
    <3>3. Spares(k, k', {})
      BY <1>0, <2>1, ScheduleSpares
    <3> QED
      BY <3>1, <3>2, <3>3
  <2>4. CurrentAhead'
    BY <1>0, <2>1, <2>2, SwitchAhead
  <2> QED
    BY <1>0, <2>2, <2>3, <2>4, HandlerAhead
<1>2. CASE IdleReap
  <2>1. PICK u : u = Head(k.q[Defunct])
    OBVIOUS
  <2>2. PICK w : w = Unlink(k, u)
    OBVIOUS
  <2>3. /\ k.q[Defunct] # << >> /\ k' = rt_schedule(w) /\ Goto(Idle, "free", u)
        /\ pc[Idle].at = "run"
    BY <1>2, <2>1, <2>2 DEF IdleReap, Is
  <2>4. u \in Thread /\ Linked(k, u, Defunct)
    BY <1>0, <2>1, <2>3, HeadLinked DEF Lists, Good
  <2>5. k.stat[u] = "CLOSE" /\ \A p \in Prio : ~Linked(k, u, p)
    BY <1>0, <2>4 DEF Good, Flat
  <2>6. /\ Good(w, Deleting) /\ ActsOn(k, w, u)
        /\ w.cur = k.cur /\ w.prio = k.prio /\ w.lock = k.lock
    BY <1>0, <2>2, <2>4, <2>5, UnlinkGood, UnlinkActs
  <2>7. k'.prio = k.prio /\ k'.lock = k.lock /\ (k.lock > 0 => k'.cur = k.cur)
    <3>1. Good(k', Deleting) /\ k'.lock = w.lock /\ k'.prio = w.prio
      <4>1. Good(w, Deleting) /\ k' = rt_schedule(w)
        BY <2>3, <2>6
      <4> QED
        BY ONLY <4>1, ScheduleGood
    <3>2. w.lock > 0 => k' = w
      BY <2>3, ScheduleLocked
    <3> QED
      BY <2>6, <3>1, <3>2
  <2>8. Spares(k, k', {u})
    <3>1. Spares(k, w, {u}) /\ Spares(w, k', {u})
      BY <2>3, <2>6, ActsOnSpares, ScheduleSpares, SparesMore
    <3> QED
      BY <3>1, SparesTrans
  <2>9. pc'[Idle].at = "free" /\ \A v \in Thread \ {Idle} : pc'[v] = pc[v]
    <3>1. "free" \in PcAt
      BY DEF PcAt
    <3> QED
      BY <1>0, <2>3, <2>4, <3>1, GotoPc
  <2>10. /\ Deleting' = Deleting
         /\ \A d \in Thread : pc'[d].at \in DelPoint => pc'[d] = pc[d]
    <3>1. "free" \notin DelPoint /\ "run" \notin DelPoint
      BY DEF DelPoint
    <3>2. \A d \in Thread : pc'[d].at \in DelPoint => pc'[d] = pc[d]
      BY <2>9, <3>1
    <3>3. \A d \in Thread : pc[d].at \in DelPoint => pc'[d] = pc[d]
      BY <2>3, <2>9, <3>1
    <3>4. \A x : x \in Deleting' <=> x \in Deleting
      BY <3>2, <3>3, DeletingIs
    <3> QED
      BY <3>2, <3>4
  <2>11. CurrentAhead'
    BY <2>3, <2>6, <2>10, SwitchAhead
  <2>12. k.stat[u] \notin Active /\ u \notin Deleting
    BY <2>5, DeletingIs, DeleterFacts DEF Active
  <2> QED
    BY <2>4, <2>7, <2>8, <2>10, <2>11, <2>12, HandlerAhead
<1>3. ASSUME NEW u \in Thread, IsrResume(u)
      PROVE  Ahead'
  <2>1. PICK r : r = rt_thread_resume(k, u)
    OBVIOUS
  <2>2. k.stat[u] = "SUSPEND" /\ u \notin Busy /\ k' = rt_schedule(r) /\ pc' = pc
    BY <1>3, <2>1 DEF IsrResume, Disciplined
  <2>3. PICK v : v = Unlink(k, u)
    OBVIOUS
  <2>4. PICK w : w = TimerStop(v, u)
    OBVIOUS
  <2>5. Good(r, Deleting) /\ r.cur = k.cur /\ r.prio = k.prio /\ r.lock = k.lock
    BY <1>0, <2>1, <2>2, <2>3, <2>4, ResumeGood
  <2>6. k'.prio = k.prio /\ k'.lock = k.lock /\ (k.lock > 0 => k'.cur = k.cur)
    <3>1. k'.prio = r.prio /\ k'.lock = r.lock
      BY <2>2, <2>5, ScheduleGood
    <3>2. r.lock > 0 => k' = r
      BY <2>2, ScheduleLocked
    <3> QED
      BY <2>5, <3>1, <3>2
  <2>7. Spares(k, k', {u})
    <3>1. ActsOn(k, r, u)
      BY <1>0, <2>1, <2>2, ResumeActs
    <3>2. Spares(k, r, {u}) /\ Spares(r, k', {u})
      BY <2>2, <2>5, <3>1, ActsOnSpares, ScheduleSpares, SparesMore
    <3> QED
      BY <3>2, SparesTrans
  <2>8. Deleting' = Deleting
    BY <2>2, SamePc
  <2>9. CurrentAhead'
    BY <2>2, <2>5, <2>8, SwitchAhead
  <2>10. k.stat[u] \notin Active /\ u \notin Deleting
    BY <2>2, BusyIs, DeletingIs, Points DEF Active
  <2> QED
    BY <2>2, <2>6, <2>7, <2>9, <2>10, HandlerAhead
<1> QED
  BY <1>1, <1>2, <1>3

\* The current thread gives up the processor, or makes another thread ready, and goes
\* on to the call of rt_schedule.
LEMMA GiveUpAhead ==
    ASSUME ThreadsInv, Ahead, NEW t \in User,
           \/ SuspendSelf(t) \/ Exit(t) \/ (\E ticks \in Delays : Sleep(t, ticks))
           \/ ResumeInsert(t)
    PROVE  Ahead'
<1>1. /\ t \in Thread /\ k.cur = t /\ pc[t].at \in {"run", "insert"} /\ k \in Kstate
      /\ pc[t].arg \in Thread
  BY InvFacts DEF SuspendSelf, Exit, Sleep, ResumeInsert, Calls, Is, User
<1>2. pc[t].at \notin DelPoint
  BY <1>1 DEF DelPoint
<1>3. /\ k'.cur = k.cur /\ k'.prio = k.prio
      /\ pc[t].at = "run" => \A v \in Thread \ {t} : k'.stat[v] = k.stat[v]
      /\ pc[t].at = "insert" => \A v \in Thread \ {pc[t].arg} : k'.stat[v] = k.stat[v]
  <2>1. CASE SuspendSelf(t)
    BY <1>1, <2>1 DEF SuspendSelf, Calls, Is, rt_thread_suspend, TimerStop,
                      rt_schedule_remove_thread, Unlink, Kstate
  <2>2. CASE Exit(t)
    <3>1. PICK r : r = TimerStop([rt_schedule_remove_thread(k, t) EXCEPT !.stat[t] = "CLOSE"], t)
      OBVIOUS
    <3>2. /\ r.cur = k.cur /\ r.prio = k.prio /\ r.stat = [k.stat EXCEPT ![t] = "CLOSE"]
          /\ DOMAIN r = DOMAIN k
      BY <1>1, <3>1 DEF TimerStop, rt_schedule_remove_thread, Unlink, Kstate
    <3>3. pc[t].at = "run" /\ k' = Bury(r, t)
      BY <2>2, <3>1 DEF Exit, Calls, Is, Bury
    <3>4. k'.cur = r.cur /\ k'.prio = r.prio /\ k'.stat = r.stat
      BY <1>1, <3>2, <3>3 DEF Bury, Kstate
    <3>5. k.stat \in [Thread -> Stat]
      BY <1>1 DEF Kstate
    <3> QED
      BY <3>2, <3>3, <3>4, <3>5
  <2>3. ASSUME NEW ticks \in Delays, Sleep(t, ticks)
        PROVE  /\ k'.cur = k.cur /\ k'.prio = k.prio /\ pc[t].at = "run"
               /\ \A v \in Thread \ {t} : k'.stat[v] = k.stat[v]
    BY <1>1, <2>3, ZenonT(60) DEF Sleep, Calls, Is, rt_thread_suspend, TimerStart, TimerStop,
                      rt_schedule_remove_thread, Unlink, Kstate
  <2>4. CASE ResumeInsert(t)
    BY <1>1, <2>4 DEF ResumeInsert, Is, rt_schedule_insert_thread, Kstate
  <2> QED
    BY <2>1, <2>3, <2>4, <2>2
<1>4. PICK at \in {"sched", "sleep_sched", "exit_sched"} : Goto(t, at, t)
  BY DEF SuspendSelf, Exit, Sleep, ResumeInsert
<1>5. pc'[t].at = at /\ (\A v \in Thread \ {t} : pc'[v] = pc[v]) /\ at \notin DelPoint
  <2>1. at \in PcAt /\ at \notin DelPoint
    BY StepPoints DEF DelPoint
  <2> QED
    BY <1>1, <1>4, <2>1, GotoPc
<1>6. CurrentAhead'
  BY <1>1, <1>3, <1>4, <1>5, SchedAhead
<1>7. pc[t].at = "insert" => k.stat[pc[t].arg] \notin Active /\ pc[t].arg \notin Deleting
  <2> SUFFICES ASSUME pc[t].at = "insert"
               PROVE  k.stat[pc[t].arg] \notin Active /\ pc[t].arg \notin Deleting
    OBVIOUS
  <2>1. k.stat[pc[t].arg] = "SUSPEND" /\ pc[t].at \in MidCall
    BY <1>1 DEF ThreadsInv, Sound, MidCall
  <2>2. pc[t].arg \notin Deleting
    BY <1>1, <1>2, <2>1, DeletingIs, Points DEF ThreadsInv, CallsApart
  <2> QED
    BY <2>1, <2>2 DEF Active
<1>8. \A v \in Thread \ {t} : k'.stat[v] = k.stat[v]
                             \/ (v \notin Deleting /\ k.stat[v] \notin Active)
  BY <1>1, <1>3, <1>7
<1> QED
  BY <1>1, <1>2, <1>3, <1>5, <1>6, <1>8, CallerAhead

\* The scheduler lock: rt_exit_critical goes on to the call of rt_schedule.
LEMMA CriticalAhead ==
    ASSUME ThreadsInv, Ahead, NEW t \in User, EnterCritical(t) \/ ExitCritical(t)
    PROVE  Ahead'
<1>1. /\ t \in Thread /\ k.cur = t /\ pc[t].at = "run" /\ k \in Kstate /\ k.lock \in Nat
  BY InvFacts DEF EnterCritical, ExitCritical, Calls, Is, User
<1>2. "run" \notin DelPoint /\ "sched" \notin DelPoint /\ {"run", "sched"} \subseteq PcAt
  BY StepPoints DEF DelPoint
<1>3. k'.cur = k.cur /\ k'.prio = k.prio /\ k'.stat = k.stat
  BY <1>1 DEF EnterCritical, ExitCritical, Kstate
<1>4. CASE EnterCritical(t)
  <2>1. k'.lock = k.lock + 1 /\ pc' = pc
    BY <1>1, <1>4 DEF EnterCritical, Kstate
  <2>2. CurrentAhead'
    BY <1>1, <2>1 DEF CurrentAhead
  <2> QED
    BY <1>1, <1>2, <1>3, <2>1, <2>2, CallerAhead
<1>5. CASE ExitCritical(t)
  <2>1. /\ k'.lock = IF k.lock > 1 THEN k.lock - 1 ELSE 0
        /\ Goto(t, IF k.lock > 1 THEN "run" ELSE "sched", t)
    BY <1>1, <1>5 DEF ExitCritical, Kstate
  <2>2. /\ pc'[t].at = IF k.lock > 1 THEN "run" ELSE "sched"
        /\ \A v \in Thread \ {t} : pc'[v] = pc[v]
    BY <1>1, <1>2, <2>1, GotoPc
  <2>3. CurrentAhead'
    <3>1. CASE k.lock > 1
      BY <1>1, <2>1, <3>1 DEF CurrentAhead
    <3>2. CASE ~(k.lock > 1)
      BY <1>1, <1>3, <2>2, <3>2, SchedAhead
    <3> QED
      BY <3>1, <3>2
  <2> QED
    BY <1>1, <1>2, <1>3, <2>2, <2>3, CallerAhead
<1> QED
  BY <1>4, <1>5

\* The other steps of a thread outside rt_thread_delete make no thread ready.
LEMMA RunAhead ==
    ASSUME ThreadsInv, Ahead, Preemptible, NEW t \in User, NEW u \in Thread,
           \/ Slept(t) \/ Create(t, u) \/ Startup(t, u) \/ Resume(t, u)
           \/ SuspendOther(t, u) \/ ResumeCheck(t) \/ ResumeWindow(t)
    PROVE  Ahead'
<1>1. /\ t \in Thread /\ k.cur = t /\ pc[t].at \in {"run", "slept", "resume_check", "resume"}
      /\ k \in Kstate /\ pc[t].arg \in Thread
  BY InvFacts DEF Slept, Create, Startup, Resume, SuspendOther, ResumeCheck, ResumeWindow,
                  Calls, Is, User
<1>2. pc[t].at \notin DelPoint /\ pc[t].at \notin DOMAIN After
  BY <1>1 DEF DelPoint, After
<1>3. \A v \in free \cup {v \in Thread : k.stat[v] = "INIT" /\ v \notin Busy} :
        v # t /\ v \notin Deleting /\ k.stat[v] \in {"INIT", "CLOSE"}
  <2>1. k.stat[t] = "RUNNING"
    BY <1>1, Runs
  <2>2. \A v \in free : k.stat[v] = "CLOSE" /\ v \in Thread
    BY InvFacts DEF ThreadsInv, Gone
  <2>3. \A v \in Deleting : v \in Busy /\ k.stat[v] # "CLOSE"
    BY DeletingIs, BusyIs, DeleterFacts, Points
  <2> QED
    BY <2>1, <2>2, <2>3
<1>4. CASE Create(t, u) \/ Startup(t, u)
  <2>1. u # t /\ u \notin Deleting /\ k.stat[u] \in {"INIT", "CLOSE"}
    BY <1>3, <1>4 DEF Create, Startup
  <2>2. /\ k'.cur = k.cur /\ k'.lock = k.lock /\ k'.stat[u] \in {"INIT", "SUSPEND"}
        /\ k'.prio = [k.prio EXCEPT ![u] = InitPrio[u]]
        /\ \A v \in Thread \ {u} : k'.stat[v] = k.stat[v]
    <3>1. CASE Create(t, u)
      BY <1>1, <3>1 DEF Create, Kstate
    <3>2. CASE Startup(t, u)
      BY <1>1, <3>2 DEF Startup, Kstate
    <3> QED
      BY <1>4, <3>1, <3>2
  <2>3. k'.prio = k.prio
    BY <2>2, SystemAssumption DEF Ahead
  <2>4. \A v \in Thread : pc'[v] = pc[v] \/ pc'[v].at \in {"run", "resume_check"}
    <3>1. "run" \in PcAt /\ "resume_check" \in PcAt
      BY DEF PcAt, MidCall
    <3>2. Goto(u, "run", u) \/ Goto(t, "resume_check", u)
      BY <1>4 DEF Create, Startup, Goto
    <3> QED
      BY <1>1, <3>1, <3>2, GotoPc
  <2>5. Deleting' = Deleting
    <3>1. "run" \notin DelPoint /\ "resume_check" \notin DelPoint
      BY DEF DelPoint
    <3>2. Goto(u, "run", u) \/ Goto(t, "resume_check", u)
      BY <1>4 DEF Create, Startup, Goto
    <3>3. "run" \in PcAt /\ "resume_check" \in PcAt
      BY DEF PcAt, MidCall
    <3>4. (\A v \in Thread \ {u} : pc'[v] = pc[v]) \/ \A v \in Thread \ {t} : pc'[v] = pc[v]
      BY <1>1, <3>2, <3>3, GotoPc
    <3>5. pc[u].at \notin DelPoint
      <4>1. pc[u].at \in DelPoint => k.stat[u] \in Active
        BY DEF Ahead, DeleterAhead
      <4> QED
        BY <2>1, <4>1 DEF Active
    <3>6. \A v \in Thread : /\ pc'[v].at \in DelPoint <=> pc[v].at \in DelPoint
                            /\ pc[v].at \in DelPoint => pc'[v] = pc[v]
      BY <1>2, <2>4, <3>1, <3>4, <3>5
    <3>7. \A x : x \in Deleting' <=> x \in Deleting
      BY <3>6, DeletingIs
    <3> QED
      BY <3>7
  <2>6. CurrentAhead'
    BY <1>1, <1>2, <2>2, <2>3, <2>5, StaysAhead
  <2>7. \A v \in Thread : pc'[v] = pc[v] \/ pc'[v].at \notin DelPoint
    BY <2>4 DEF DelPoint
  <2>8. \A v \in Thread \ {t} : k'.stat[v] = k.stat[v]
                               \/ (v \notin Deleting /\ k.stat[v] \notin Active)
    BY <2>1, <2>2 DEF Active
  <2> QED
    BY <1>1, <1>2, <2>3, <2>6, <2>7, <2>8, CallerAhead
<1>5. CASE \/ Slept(t) \/ Resume(t, u) \/ SuspendOther(t, u) \/ ResumeCheck(t) \/ ResumeWindow(t)
  <2>1. k'.cur = k.cur /\ k'.lock = k.lock /\ k'.prio = k.prio /\ k'.stat = k.stat
    BY <1>1, <1>5 DEF Slept, Resume, SuspendOther, ResumeCheck, ResumeWindow, ResumeUnlink,
                      TimerStop, Unlink, Kstate
  <2>2. PICK at \in {"run", "resume_check", "suspend", "resume", "insert", "sched"},
             arg \in Thread : Goto(t, at, arg)
    BY <1>1, <1>5 DEF Slept, Resume, SuspendOther, ResumeCheck, ResumeWindow
  <2>3. at \in PcAt /\ at \notin DelPoint
    BY DEF PcAt, MidCall, After, DelPoint
  <2>4. pc'[t].at = at /\ \A v \in Thread \ {t} : pc'[v] = pc[v]
    BY <1>1, <2>2, <2>3, GotoPc
  <2>5. \A x : x \in Deleting' <=> x \in Deleting
    BY <1>1, <1>2, <2>3, <2>4, DeletingIs
  <2>6. CurrentAhead'
    BY <1>1, <1>2, <2>1, <2>5, StaysAhead
  <2> QED
    BY <1>1, <1>2, <2>1, <2>3, <2>4, <2>6, CallerAhead
<1> QED
  BY <1>4, <1>5

\* rt_thread_suspend of another thread, which happens where no thread is deleted
LEMMA SuspendWindowAhead ==
    ASSUME ThreadsInv, Ahead, Preemptible, NEW t \in User, SuspendWindow(t)
    PROVE  Ahead'
<1>1. /\ t \in Thread /\ k.cur = t /\ pc[t].at = "suspend" /\ Goto(t, "run", t)
      /\ k \in Kstate /\ pc[t].arg \in Thread
  BY InvFacts DEF SuspendWindow, Is, User
<1>2. "run" \notin DelPoint /\ "suspend" \notin DelPoint /\ "suspend" \notin DOMAIN After
  BY DEF DelPoint, After
<1>3. /\ k'.cur = k.cur /\ k'.prio = k.prio /\ k'.lock = k.lock
      /\ k'.stat = [k.stat EXCEPT ![pc[t].arg] = "SUSPEND"]
  BY <1>1 DEF SuspendWindow, TimerStop, rt_schedule_remove_thread, Unlink, Kstate
<1>4. pc'[t].at = "run" /\ \A v \in Thread \ {t} : pc'[v] = pc[v]
  BY <1>1, StepPoints, GotoPc
<1>5. \A d \in Thread : pc[d].at \notin DelPoint
  <2>1. "suspend_other" \in Ops
    BY <1>1 DEF ThreadsInv, Sound
  <2> QED
    BY <2>1 DEF Ahead, DeleterAhead, Preemptible
<1>6. \A d \in Thread : pc'[d].at \notin DelPoint
  BY <1>2, <1>4, <1>5
<1>7. \A x : x \notin Deleting /\ x \notin Deleting'
  BY <1>5, <1>6, DeletingIs
<1>8. k.stat \in [Thread -> Stat]
  BY <1>1 DEF Kstate
<1>9. CurrentAhead'
  BY <1>1, <1>2, <1>3, <1>7, <1>8, StaysAhead
<1> QED
  BY <1>3, <1>6, <1>9, AheadKept

\* The first window of rt_thread_delete: the caller is current, so that it is at least
\* as urgent as its victim or has locked the scheduler.
LEMMA DeleteAhead ==
    ASSUME ThreadsInv, Ahead, NEW t \in User, NEW u \in Thread, Delete(t, u)
    PROVE  Ahead'
<1>1. /\ t \in Thread /\ k.cur = t /\ pc[t].at = "run" /\ k \in Kstate /\ k.lock \in Nat
      /\ "delete" \in Ops /\ u \notin Busy /\ u # t /\ Goto(t, "del_timer", u)
      /\ pc[u].at \notin MidCall /\ k.stat[t] = "RUNNING" /\ t \notin Deleting
  BY InvFacts, CallerRuns DEF Delete, Calls, Is, User
<1>2. /\ "run" \notin DelPoint /\ "run" \notin DOMAIN After /\ "del_timer" \in PcAt
      /\ "del_timer" \in DelPoint
  BY DEF DelPoint, After, PcAt, MidCall
<1>3. k'.cur = k.cur /\ k'.prio = k.prio /\ k'.lock = k.lock /\ k'.stat = k.stat
  BY <1>1 DEF Delete, rt_schedule_remove_thread, Unlink, Kstate
<1>4. /\ pc'[t].at = "del_timer" /\ pc'[t].arg = u
      /\ \A v \in Thread \ {t} : pc'[v] = pc[v]
  BY <1>1, <1>2, GotoPc
<1>5. Deleting' = Also(Deleting, u)
  BY <1>1, EntersDelete
<1>6. u \notin Deleting
  BY <1>1, BusyIs, DeletingIs, Points
<1>7. CurrentAhead'
  BY <1>1, <1>2, <1>3, <1>5, StaysAhead DEF Also
<1>8. ASSUME NEW d \in Thread, d # t PROVE DeleterAhead(d)'
  <2>1. pc'[d] = pc[d] /\ DeleterAhead(d)
    BY <1>4, <1>8 DEF Ahead
  <2> QED
    BY <1>3, <2>1 DEF DeleterAhead
<1>9. DeleterAhead(t)'
  <2>1. k.lock = 0 /\ k.stat[u] = "READY" => k.prio[t] <= k.prio[u]
    BY <1>1, <1>2, <1>6 DEF Ahead, CurrentAhead, Urgent
  <2>2. k.lock = 0 \/ k.lock > 0
    BY <1>1
  <2> QED
    BY <1>1, <1>3, <1>4, <2>1, <2>2 DEF DeleterAhead, Active
<1>10. \A d \in Thread : DeleterAhead(d)'
  BY <1>8, <1>9
<1> QED
  BY <1>3, <1>7, <1>10 DEF Ahead

\* The second and the third window of rt_thread_delete
LEMMA DeleteOnAhead ==
    ASSUME ThreadsInv, Ahead, NEW t \in User, DeleteTimer(t) \/ DeleteClose(t)
    PROVE  Ahead'
<1> DEFINE u == pc[t].arg
<1>1. /\ t \in Thread /\ k.cur = t /\ pc[t].at \in DelPoint /\ k \in Kstate /\ u \in Thread
      /\ k.stat \in [Thread -> Stat]
  BY InvFacts DEF DeleteTimer, DeleteClose, Is, User, DelPoint
<1>2. u \in Deleting /\ u # t /\ pc[u].at \notin DelPoint /\ pc[t].at \notin DOMAIN After
  BY <1>1, DeleterFacts DEF DelPoint, After
<1>3. /\ k'.cur = k.cur /\ k'.prio = k.prio /\ k'.lock = k.lock
      /\ DeleteTimer(t) => k'.stat = k.stat
      /\ DeleteClose(t) => k'.stat = [k.stat EXCEPT ![u] = "CLOSE"]
  BY <1>1 DEF DeleteTimer, DeleteClose, TimerStop, Kstate
<1>4. CASE DeleteTimer(t)
  <2>1. Goto(t, "del_close", u) /\ "del_close" \in PcAt /\ "del_close" \in DelPoint
    BY <1>4 DEF DeleteTimer, PcAt, MidCall, DelPoint
  <2>2. /\ pc'[t].at = "del_close" /\ pc'[t].arg = u
        /\ \A v \in Thread \ {t} : pc'[v] = pc[v]
    BY <1>1, <2>1, GotoPc
  <2>3. \A x : x \in Deleting' <=> x \in Deleting
    BY <1>1, <2>1, <2>2, DeletingIs
  <2>4. CurrentAhead'
    BY <1>1, <1>2, <1>3, <1>4, <2>3, StaysAhead
  <2>5. \A d \in Thread : pc'[d].at \in DelPoint =>
            pc[d].at \in DelPoint /\ pc'[d].arg = pc[d].arg
    BY <1>1, <2>2
  <2>6. \A d \in Thread : pc[d].at \in DelPoint => k.stat[d] \in Active
    BY DEF Ahead, DeleterAhead
  <2> QED
    BY <1>3, <1>4, <2>4, <2>5, <2>6, AheadKept
<1>5. CASE DeleteClose(t)
  <2>1. Goto(t, "run", t) /\ "run" \in PcAt /\ "run" \notin DelPoint
    BY <1>5, StepPoints DEF DeleteClose, DelPoint
  <2>2. pc'[t].at = "run" /\ \A v \in Thread \ {t} : pc'[v] = pc[v]
    BY <1>1, <2>1, GotoPc
  <2>3. \A d \in Thread : pc'[d].at \in DelPoint =>
            /\ pc[d].at \in DelPoint /\ pc'[d] = pc[d] /\ d # t /\ d # u /\ pc[d].arg # u
    BY <1>1, <1>2, <2>1, <2>2, DeletersApart
  <2>4. \A x : x \in Deleting /\ x # u => x \in Deleting'
    BY <1>1, <2>2, DeletingIs
  <2>5. k'.stat[u] = "CLOSE" /\ \A v \in Thread : v # u => k'.stat[v] = k.stat[v]
    BY <1>1, <1>3, <1>5
  <2>6. CurrentAhead'
    BY <1>1, <1>2, <1>3, <2>4, <2>5, StaysAhead
  <2>7. \A d \in Thread : pc[d].at \in DelPoint => k.stat[d] \in Active /\ pc[d].arg \in Thread
    BY InvFacts DEF Ahead, DeleterAhead
  <2> QED
    BY <1>3, <2>3, <2>5, <2>6, <2>7, AheadKept
<1> QED
  BY <1>4, <1>5

\* Every step keeps the invariant.
LEMMA AheadNext ==
    ASSUME Disciplined, Preemptible, ThreadsInv, ThreadsInv', Ahead, Next
    PROVE  Ahead'
<1>1. CASE SystemStep /\ UNCHANGED free
  <2>1. CASE TickInterrupt
    BY <2>1, TickAhead
  <2>2. ASSUME NEW t \in User, CallSchedule(t) \/ Slept(t) \/ \E d \in Delays : Sleep(t, d)
        PROVE  Ahead'
    <3>1. t \in Thread
      BY DEF User
    <3> QED
      BY <2>2, <3>1, ScheduleAhead, RunAhead, GiveUpAhead
  <2> QED
    BY <1>1, <2>1, <2>2 DEF SystemStep
<1>2. CASE (\E u \in Thread : IsrResume(u)) \/ IdleReap
  BY <1>2, ScheduleAhead
<1>3. CASE IdleFree
  <2>1. k' = k /\ Goto(Idle, "run", Idle) /\ pc[Idle].at = "free" /\ k.cur = Idle
        /\ Idle \in Thread /\ "run" \in PcAt
    BY <1>3, InvFacts, StepPoints DEF IdleFree, Is
  <2>2. "run" \notin DelPoint /\ "free" \notin DelPoint /\ "free" \notin DOMAIN After
    BY DEF DelPoint, After
  <2>3. pc'[Idle].at = "run" /\ \A v \in Thread \ {Idle} : pc'[v] = pc[v]
    BY <2>1, GotoPc
  <2>4. \A x : x \in Deleting' <=> x \in Deleting
    BY <2>1, <2>2, <2>3, DeletingIs
  <2>5. CurrentAhead'
    BY <2>1, <2>2, <2>4, StaysAhead
  <2> QED
    BY <2>1, <2>2, <2>3, <2>5, CallerAhead
<1>4. ASSUME NEW t \in User, NEW u \in Thread,
             \/ Create(t, u) \/ Startup(t, u) \/ Resume(t, u)
             \/ SuspendOther(t, u) \/ Delete(t, u)
             \/ \E p \in Prio : Control(t, u, p)
      PROVE  Ahead'
  <2>1. \A p \in Prio : ~Control(t, u, p)
    BY DEF Control, Calls, Preemptible
  <2> QED
    BY <1>4, <2>1, RunAhead, DeleteAhead
<1>5. ASSUME NEW t \in User,
             \/ ResumeCheck(t) \/ ResumeWindow(t) \/ ResumeInsert(t)
             \/ SuspendSelf(t) \/ SuspendWindow(t)
             \/ Yield(t) \/ Exit(t) \/ DeleteTimer(t) \/ DeleteClose(t)
             \/ EnterCritical(t) \/ ExitCritical(t)
      PROVE  Ahead'
  <2>1. t \in Thread
    BY DEF User
  <2> QED
    BY <1>5, <2>1, RunAhead, GiveUpAhead, SuspendWindowAhead, ScheduleAhead, DeleteOnAhead,
       CriticalAhead
<1> QED
  BY <1>1, <1>2, <1>3, <1>4, <1>5 DEF Next

\* Full preemption, in the middle of rt_thread_delete too: with the scheduler unlocked,
\* a thread that is not about to call rt_schedule is at least as urgent as every READY
\* thread, a victim of rt_thread_delete that is no longer in the ready table included.
THEOREM ThreadsArePreemptive ==
    ASSUME Disciplined, Preemptible
    PROVE  Spec => []Preemptive
<1>1. Init => Ahead
  <2> SUFFICES ASSUME Init PROVE Ahead
    OBVIOUS
  <2>1. k.prio = InitPrio /\ Urgent(k, {})
    <3>1. MayBoot(Live, InitPrio) /\ Idle \in Live
      BY ThreadsAssumption, SystemAssumption DEF MayBoot
    <3> QED
      BY <3>1, BootGood DEF Init, SystemInit
  <2>2. \A t \in Thread : pc[t].at = "run"
    BY DEF Init, SystemInit
  <2> QED
    BY <2>1, <2>2 DEF Ahead, CurrentAhead, DeleterAhead, DelPoint, Urgent
<1>2. ThreadsInv /\ ThreadsInv' /\ Ahead /\ [Next]_vars => Ahead'
  <2>1. ASSUME ThreadsInv, Ahead, UNCHANGED vars PROVE Ahead'
    <3>1. k' = k /\ pc' = pc /\ Deleting' = Deleting
      BY <2>1, SamePc DEF vars
    <3> QED
      BY <2>1, <3>1 DEF Ahead, CurrentAhead, DeleterAhead
  <2> QED
    BY <2>1, AheadNext
<1>3. ThreadsInv /\ Ahead => Preemptive
  <2> SUFFICES ASSUME ThreadsInv, Ahead, k.lock = 0, pc[k.cur].at \notin DOMAIN After,
                      NEW v \in Thread, k.stat[v] = "READY"
               PROVE  k.prio[k.cur] <= k.prio[v]
    BY DEF Preemptive
  <2>1. Urgent(k, Deleting) /\ k.cur \in Thread /\ k.prio \in [Thread -> Prio] /\ Prio \subseteq Int
        /\ \A u \in Thread : k.stat[u] = "RUNNING" => u = k.cur
    BY InvFacts DEF Ahead, CurrentAhead, Kstate, Prio, Flat
  <2>2. CASE v \notin Deleting
    BY <2>1, <2>2 DEF Urgent
  <2>3. CASE v \in Deleting
    <3>1. PICK d \in Thread : pc[d].at \in DelPoint /\ pc[d].arg = v
      BY <2>3, DeletingIs
    <3>2. k.stat[d] \in Active /\ k.prio[d] <= k.prio[v]
      BY <3>1 DEF Ahead, DeleterAhead
    <3>3. d \notin Deleting
      BY <3>1, DeleterFacts
    <3>4. k.prio[k.cur] \in Int /\ k.prio[d] \in Int /\ k.prio[v] \in Int
      BY <2>1
    <3>5. k.prio[k.cur] <= k.prio[d]
      <4>1. CASE k.stat[d] = "READY"
        BY <2>1, <3>3, <4>1 DEF Urgent
      <4>2. CASE k.stat[d] = "RUNNING"
        BY <2>1, <3>4, <4>2
      <4> QED
        BY <3>2, <4>1, <4>2 DEF Active
    <3> QED
      BY <3>2, <3>4, <3>5
  <2> QED
    BY <2>2, <2>3
<1> QED
  BY <1>1, <1>2, <1>3, ThreadsInvariance, PTL DEF Spec
=============================================================================
