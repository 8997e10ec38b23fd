---------------------------- MODULE TimersProofs ----------------------------
(***************************************************************************)
(* Timers that threads and timeout functions start, stop and change: the   *)
(* timer list stays exact, a stopped timer stays stopped, and a timer      *)
(* expires in the tick in which its time has passed.                       *)
(***************************************************************************)
EXTENDS Timers, KernelProofs

TmType == [tick : Tick, tlist : Seq(Timer), timeout : [Timer -> Tick]]

\* As seen from tick, the tick `at` comes in d ticks, or came -d ticks ago, which is
\* near enough for the unsigned comparisons of timer.c.
Near(tick, at, d) ==
    /\ d \in Int /\ -MaxLag <= d /\ d + MaxLag < HalfTick /\ MaxLag < HalfTick
    /\ TickDiff(at, tick) = d % TickMod

\* Timer u expires in d ticks.
Due(x, u, d) == Near(x.tick, x.timeout[u], d)

\* The timer list x.tlist, with the time d[u] left of each timer in it
ListGood(x, d) ==
    /\ x \in TmType /\ d \in [Timer -> Int]
    /\ IsInjective(x.tlist) /\ Rising(x.tlist, d)
    /\ \A u \in ToSet(x.tlist) : Due(x, u, d[u])

\* A timer in the list is initialised, wanted and known to be running; a tick has passed
\* in the window of rt_timer_start at most MaxLag times.
Listed ==
    \A u \in ToSet(tm.tlist) :
        /\ u \notin gone /\ u \notin stopped /\ (u \in active \/ u \in Busy)
        /\ ~isr => due[u] >= 1 - MaxLag

\* What a thread in the middle of a call knows of its timer although the tick
\* handler may run: one that is being started or is stopped is not in the list, and a
\* flag word that was read without ACTIVATED belongs to a timer that does not run.
CallGood(t) ==
    /\ pc[t].at = "run" => pc[t].arg = Null
    /\ pc[t].at # "run" => pc[t].arg \in Timer /\ pc[t].arg \notin gone
    /\ (pc[t].at \in {"start_tick", "start_link", "stop_clear"}
            \/ (pc[t].at = "mode" /\ ~pc[t].saw)) => ~InList(pc[t].arg) /\ pc[t].arg # cb.of
    /\ pc[t].at \in {"start_tick", "start_link"} => pc[t].arg \notin stopped
    /\ pc[t].at = "start_link" =>
            /\ Due(tm, pc[t].arg, due[pc[t].arg])
            /\ period[pc[t].arg] - MaxLag <= due[pc[t].arg]

CallsApart ==
    \A s, t \in Thread : pc[s].at # "run" /\ pc[s].arg = pc[t].arg => s = t

\* During a timeout function its timer is in the list only if the function started
\* it, a periodic timer, and it is not activated if the function stopped it.
CallbackGood ==
    /\ cb.of = Null => cb = NoCallback
    /\ cb.of # Null =>
            /\ isr /\ cb.of \notin gone
            /\ InList(cb.of) => cb.done /\ cb.of \in periodic /\ cb.of \in active
            /\ cb.of \in stopped => cb.of \notin active

PeriodsGood == \A u \in Timer : u \notin gone => period[u] \in Periods

\* The inductive invariant.  That a stopped timer is not in the list rests on the flag
\* ACTIVATED, which rt_timer_stop, rt_timer_check and rt_timer_control write in windows of
\* their own; that the list is sorted rests on how far apart its timers can be.
TimersInv ==
    /\ TimersTypeOK
    /\ ListGood(tm, due)
    /\ Listed
    /\ \A t \in Thread : CallGood(t)
    /\ CallsApart
    /\ CallbackGood
    /\ PeriodsGood

-----------------------------------------------------------------------------
(* Times left, modulo the width of the tick *)

\* A time left of less than half the range, and its representation as a tick
LEMMA NearIs ==
    ASSUME NEW d \in Int, -HalfTick < d, d < HalfTick
    PROVE  d % TickMod = IF 0 <= d THEN d ELSE d + TickMod
<1>1. TickMod \in Nat /\ TickMod >= 4 /\ HalfTick \in Nat /\ 2 * HalfTick <= TickMod - 1
  BY KernelAssumption, HalfTickSpec
<1>2. CASE 0 <= d
  <2>1. d \in 0 .. TickMod - 1
    BY <1>1, <1>2
  <2> QED
    BY <1>1, <1>2, <2>1
<1>3. CASE d < 0
  <2>1. PICK z \in 0 .. TickMod - 1 : z = d + TickMod
    BY <1>1, <1>3
  <2>2. (z - TickMod) % TickMod = z /\ z - TickMod = d
    BY <1>1, <2>1
  <2> QED
    BY <1>1, <1>3, <2>1, <2>2
<1> QED
  BY <1>2, <1>3

\* The time left is near zero.
LEMMA DueNear ==
    ASSUME NEW x, NEW u, NEW d, Due(x, u, d)
    PROVE  /\ d \in Int /\ -HalfTick < d /\ d < HalfTick
           /\ TickDiff(x.timeout[u], x.tick) = IF 0 <= d THEN d ELSE d + TickMod
<1>1. MaxLag \in Nat /\ HalfTick \in Nat
  BY TimersAssumption, HalfTickSpec
<1>2. d \in Int /\ -HalfTick < d /\ d < HalfTick
  BY <1>1 DEF Due, Near
<1> QED
  BY <1>2, NearIs DEF Due, Near

\* rt_tick wraps to 0.
LEMMA NextTickIs ==
    ASSUME NEW x \in Tick
    PROVE  NextTick(x) \in Tick /\ NextTick(x) = IF x + 1 < TickMod THEN x + 1 ELSE 0
<1>1. TickMod \in Nat /\ TickMod >= 4 /\ x \in Nat /\ x < TickMod
  BY KernelAssumption DEF Tick
<1>2. CASE x + 1 < TickMod
  BY <1>1, <1>2 DEF NextTick, Tick
<1>3. CASE x + 1 = TickMod
  BY <1>1, <1>3 DEF NextTick, Tick
<1> QED
  BY <1>1, <1>2, <1>3

\* A tick later there is one tick less left.
LEMMA DueLater ==
    ASSUME NEW x \in TmType, NEW u \in Timer, NEW d, Due(x, u, d), 1 - MaxLag <= d,
           NEW n, n.timeout = x.timeout, n.tick = NextTick(x.tick)
    PROVE  Due(n, u, d - 1)
<1>1. x.tick \in Tick /\ x.timeout[u] \in Tick /\ d \in Int /\ MaxLag \in Nat
  BY TimersAssumption DEF TmType, Due, Near
<1>2. TickMod \in Nat /\ TickMod >= 4 /\ HalfTick \in Nat /\ 2 * HalfTick <= TickMod - 1
  BY KernelAssumption, HalfTickSpec
<1>3. n.tick \in Tick /\ n.tick = IF x.tick + 1 < TickMod THEN x.tick + 1 ELSE 0
  BY <1>1, NextTickIs
<1>4. -MaxLag <= d - 1 /\ d - 1 + MaxLag < HalfTick /\ MaxLag < HalfTick
  BY <1>1, <1>2 DEF Due, Near
<1>5. TickDiff(n.timeout[u], n.tick) = (d - 1) % TickMod
  <2>1. (d - 1) % TickMod = IF 0 <= d - 1 THEN d - 1 ELSE d - 1 + TickMod
    BY <1>1, <1>2, <1>4, NearIs
  <2>2. TickDiff(x.timeout[u], x.tick) = IF 0 <= d THEN d ELSE d + TickMod
    BY DueNear
  <2>3. /\ TickDiff(x.timeout[u], x.tick) = IF x.tick <= x.timeout[u]
                THEN x.timeout[u] - x.tick ELSE x.timeout[u] - x.tick + TickMod
        /\ TickDiff(x.timeout[u], n.tick) = IF n.tick <= x.timeout[u]
                THEN x.timeout[u] - n.tick ELSE x.timeout[u] - n.tick + TickMod
    BY <1>1, <1>3, TickDiffIs
  <2>4. x.tick \in 0 .. TickMod - 1 /\ x.timeout[u] \in 0 .. TickMod - 1
    BY <1>1 DEF Tick
  <2>5. d \in Int /\ -HalfTick < d - 1 /\ d < HalfTick
    BY <1>1, <1>2, <1>4, DueNear
  <2>6. TickDiff(x.timeout[u], n.tick) = IF 0 <= d - 1 THEN d - 1 ELSE d - 1 + TickMod
    BY <1>2, <1>3, <2>2, <2>3, <2>4, <2>5
  <2> QED
    BY <2>1, <2>6
<1> QED
  BY <1>1, <1>4, <1>5 DEF Due, Near

\* rt_timer_check finds a timer expired exactly when its time has passed.
LEMMA DueExpired ==
    ASSUME NEW x \in TmType, NEW u \in Timer, NEW d, Due(x, u, d)
    PROVE  TickDiff(x.tick, x.timeout[u]) < HalfTick <=> d <= 0
<1>1. /\ d \in Int /\ -HalfTick < d /\ d < HalfTick
      /\ TickDiff(x.timeout[u], x.tick) = IF 0 <= d THEN d ELSE d + TickMod
  BY DueNear
<1>2. x.tick \in Tick /\ x.timeout[u] \in Tick
  BY DEF TmType
<1>3. /\ TickDiff(x.timeout[u], x.tick) = IF x.tick <= x.timeout[u]
                THEN x.timeout[u] - x.tick ELSE x.timeout[u] - x.tick + TickMod
      /\ TickDiff(x.tick, x.timeout[u]) = IF x.timeout[u] <= x.tick
                THEN x.tick - x.timeout[u] ELSE x.tick - x.timeout[u] + TickMod
  BY <1>2, TickDiffIs
<1>4. /\ HalfTick \in Nat /\ 2 * HalfTick <= TickMod - 1
      /\ TickMod \in Nat /\ x.tick \in 0 .. TickMod - 1 /\ x.timeout[u] \in 0 .. TickMod - 1
  BY <1>2, HalfTickSpec, KernelAssumption DEF Tick
<1> QED
  BY <1>1, <1>3, <1>4

\* rt_timer_start compares two expiry ticks by their unsigned difference, and finds
\* which of the timers is later.
LEMMA DueCompare ==
    ASSUME NEW x \in TmType, NEW u \in Timer, NEW d, Due(x, u, d),
           NEW at \in Tick, NEW e, Near(x.tick, at, e)
    PROVE  (TickDiff(x.timeout[u], at) # 0 /\ TickDiff(x.timeout[u], at) < HalfTick) <=> e < d
<1>1. /\ d \in Int /\ -HalfTick < d /\ d < HalfTick
      /\ TickDiff(x.timeout[u], x.tick) = IF 0 <= d THEN d ELSE d + TickMod
  BY DueNear
<1>2. x.tick \in Tick /\ x.timeout[u] \in Tick
  BY DEF TmType
<1>3. /\ HalfTick \in Nat /\ 2 * HalfTick <= TickMod - 1 /\ MaxLag \in Nat
      /\ TickMod \in Nat /\ x.tick \in 0 .. TickMod - 1 /\ x.timeout[u] \in 0 .. TickMod - 1
      /\ at \in 0 .. TickMod - 1
  BY <1>2, HalfTickSpec, KernelAssumption, TimersAssumption DEF Tick
<1>4. /\ e \in Int /\ MaxLag < HalfTick /\ -MaxLag <= d /\ d + MaxLag < HalfTick
      /\ -MaxLag <= e /\ e + MaxLag < HalfTick
  BY DEF Due, Near
<1>5. TickDiff(at, x.tick) = IF 0 <= e THEN e ELSE e + TickMod
  BY <1>3, <1>4, NearIs DEF Near
<1>6. /\ TickDiff(x.timeout[u], x.tick) = IF x.tick <= x.timeout[u]
                THEN x.timeout[u] - x.tick ELSE x.timeout[u] - x.tick + TickMod
      /\ TickDiff(at, x.tick) = IF x.tick <= at THEN at - x.tick ELSE at - x.tick + TickMod
      /\ TickDiff(x.timeout[u], at) = IF at <= x.timeout[u]
                THEN x.timeout[u] - at ELSE x.timeout[u] - at + TickMod
  BY <1>2, TickDiffIs
<1> QED
  BY <1>1, <1>3, <1>4, <1>5, <1>6

\* The periods that rt_timer_start accepts
LEMMA PeriodRange ==
    ASSUME NEW n \in Periods
    PROVE  n \in Nat /\ 1 <= n /\ n + MaxLag < HalfTick /\ MaxLag < HalfTick
<1>1. n \in 1 .. HalfTick - 1 /\ n + MaxLag < HalfTick /\ MaxLag \in Nat /\ HalfTick \in Nat
  BY TimersAssumption, HalfTickSpec
<1> QED
  BY <1>1

\* timeout_tick as rt_timer_start computes it is the period ahead.
LEMMA DueFresh ==
    ASSUME NEW x \in Tick, NEW n \in Periods, NEW at, at = (x + n) % TickMod
    PROVE  at \in Tick /\ Near(x, at, n) /\ n \in Nat /\ 1 <= n
<1>1. n \in 1 .. HalfTick - 1 /\ n + MaxLag < HalfTick /\ MaxLag \in Nat /\ HalfTick \in Nat
  BY TimersAssumption, HalfTickSpec
<1>2. at \in Tick /\ TickDiff(at, x) = n
  BY <1>1, TickPlus
<1>3. n % TickMod = n
  BY <1>1, NearIs
<1> QED
  BY <1>1, <1>2, <1>3 DEF Near

-----------------------------------------------------------------------------
(* The timer list *)

\* Times that are kept for the timers in the list
LEMMA ListSame ==
    ASSUME NEW x, NEW d, ListGood(x, d), NEW e \in [Timer -> Int],
           \A u \in ToSet(x.tlist) : e[u] = d[u]
    PROVE  ListGood(x, e)
<1>1. x.tlist \in Seq(Timer)
  BY DEF ListGood, TmType
<1>2. \A i \in 1 .. Len(x.tlist) : x.tlist[i] \in ToSet(x.tlist)
  BY <1>1 DEF ToSet
<1>3. Rising(x.tlist, e)
  BY <1>2 DEF ListGood, Rising
<1> QED
  BY <1>3 DEF ListGood

\* _rt_timer_remove takes one timer away.
LEMMA ListStop ==
    ASSUME NEW x, NEW d, ListGood(x, d), NEW u \in Timer, NEW n, n = TimerStop(x, u)
    PROVE  /\ ListGood(n, d) /\ n.tick = x.tick
           /\ ToSet(n.tlist) = ToSet(x.tlist) \ {u}
           /\ \A v \in Timer : v # u => n.timeout[v] = x.timeout[v]
<1>1. x \in TmType /\ x.tlist \in Seq(Timer) /\ x.timeout \in [Timer -> Tick] /\ x.tick \in Tick
  BY DEF ListGood, TmType
<1>2. /\ n.tick = x.tick /\ n.tlist = RemoveFirst(x.tlist, u)
      /\ n.timeout = [x.timeout EXCEPT ![u] = 0]
      /\ n \in [tick : Tick, tlist : {n.tlist}, timeout : {n.timeout}]
  BY <1>1 DEF TimerStop, TmType
<1>3. 0 \in Tick
  BY KernelAssumption DEF Tick
<1>4. /\ n.tlist \in Seq(Timer) /\ IsInjective(n.tlist)
      /\ ToSet(n.tlist) = ToSet(x.tlist) \ {u} /\ KeepsOrder(x.tlist, n.tlist)
  BY <1>1, <1>2, RemoveFirstList, RemoveFirstOrder DEF ListGood
<1>5. n \in TmType
  BY <1>1, <1>2, <1>3, <1>4 DEF TmType
<1>6. Rising(n.tlist, d)
  BY <1>4, RisingKept DEF ListGood
<1>7. ToSet(n.tlist) \subseteq Timer
  BY <1>4, ToSetType
<1>8. \A v \in Timer : v # u => n.timeout[v] = x.timeout[v]
  BY <1>1, <1>2
<1>9. \A v \in ToSet(n.tlist) : Due(n, v, d[v])
  BY <1>2, <1>4, <1>7, <1>8 DEF ListGood, Due
<1> QED
  BY <1>2, <1>4, <1>5, <1>6, <1>8, <1>9 DEF ListGood

\* The last window of rt_timer_start
LinkAt(x, u, at) ==
    [x EXCEPT !.timeout[u] = at, !.tlist = InsertAt(x.tlist, TimerPosition(x, at), u)]

\* rt_timer_start finds the place of a timer that is not in the list and expires in
\* e[u] ticks.
LEMMA ListLink ==
    ASSUME NEW x, NEW d, ListGood(x, d), NEW u \in Timer, u \notin ToSet(x.tlist),
           NEW at \in Tick, Near(x.tick, at, d[u]),
           NEW n, n = LinkAt(x, u, at)
    PROVE  ListGood(n, d) /\ n.tick = x.tick /\ ToSet(n.tlist) = ToSet(x.tlist) \cup {u}
<1>1. x \in TmType /\ x.tlist \in Seq(Timer) /\ x.timeout \in [Timer -> Tick] /\ x.tick \in Tick
  BY DEF ListGood, TmType
<1> DEFINE i == TimerPosition(x, at)
           J == {j \in 1 .. Len(x.tlist) : /\ TickDiff(x.timeout[x.tlist[j]], at) # 0
                                           /\ TickDiff(x.timeout[x.tlist[j]], at) < HalfTick}
<1>2. /\ n.tick = x.tick /\ n.tlist = InsertAt(x.tlist, i, u)
      /\ n.timeout = [x.timeout EXCEPT ![u] = at]
      /\ n \in [tick : Tick, tlist : {n.tlist}, timeout : {n.timeout}]
  BY <1>1 DEF TmType, LinkAt
<1>3. ToSet(x.tlist) \subseteq Timer /\ Rising(x.tlist, d) /\ d \in [Timer -> Int]
  BY <1>1, ToSetType DEF ListGood
<1>4. \A j \in 1 .. Len(x.tlist) : x.tlist[j] \in ToSet(x.tlist) /\ x.tlist[j] \in Timer
  BY <1>1 DEF ToSet
<1>5. ASSUME NEW j \in 1 .. Len(x.tlist)
      PROVE  (/\ TickDiff(x.timeout[x.tlist[j]], at) # 0
              /\ TickDiff(x.timeout[x.tlist[j]], at) < HalfTick) <=> d[u] < d[x.tlist[j]]
  <2>1. Due(x, x.tlist[j], d[x.tlist[j]])
    BY <1>4 DEF ListGood
  <2> QED
    BY <1>1, <1>4, <2>1, DueCompare
<1>6. \A j : j \in J <=> j \in 1 .. Len(x.tlist) /\ d[u] < d[x.tlist[j]]
  BY <1>5
<1>7. /\ J = {} => i = Len(x.tlist) + 1
      /\ J # {} => i = CHOOSE y \in J : \A j \in J : y <= j
  BY DEF TimerPosition
<1>8. J \subseteq Nat
  OBVIOUS
<1> HIDE DEF i, J
<1>9. J # {} => i \in J /\ \A j \in J : i <= j
  BY <1>7, <1>8, LeastSpec
<1>10. /\ i \in 1 .. Len(x.tlist) + 1
       /\ \A j \in 1 .. Len(x.tlist) : j < i => d[x.tlist[j]] <= d[u]
       /\ \A j \in 1 .. Len(x.tlist) : i <= j => d[u] <= d[x.tlist[j]]
  BY <1>1, <1>3, <1>6, <1>7, <1>9, PositionSpec
<1>11. Rising(n.tlist, d)
  <2>1. u \in Timer /\ d \in [Timer -> Int] /\ n.tlist = InsertAt(x.tlist, i, u)
    BY <1>2, <1>3
  <2> QED
    BY <1>1, <1>3, <1>10, <2>1, InsertRising
<1>12. /\ n.tlist \in Seq(Timer) /\ IsInjective(n.tlist)
       /\ ToSet(n.tlist) = ToSet(x.tlist) \cup {u}
  BY <1>1, <1>2, <1>10, InsertAtList DEF ListGood
<1>13. n \in TmType
  BY <1>1, <1>2, <1>12 DEF TmType
<1>14. \A v \in ToSet(x.tlist) : v # u /\ n.timeout[v] = x.timeout[v]
  BY <1>1, <1>2, <1>3
<1>15. \A v \in ToSet(x.tlist) : Due(n, v, d[v])
  BY <1>2, <1>14 DEF ListGood, Due
<1>16. Due(n, u, d[u])
  BY <1>1, <1>2 DEF Due
<1> QED
  BY <1>2, <1>11, <1>12, <1>13, <1>15, <1>16 DEF ListGood

\* A tick passes.
Ticked(x) == [x EXCEPT !.tick = NextTick(@)]

LEMMA ListTick ==
    ASSUME NEW x, NEW d, ListGood(x, d), NEW n, n = Ticked(x),
           \A u \in ToSet(x.tlist) : 1 - MaxLag <= d[u],
           NEW e \in [Timer -> Int], \A u \in ToSet(x.tlist) : e[u] = d[u] - 1
    PROVE  ListGood(n, e) /\ n.tlist = x.tlist
<1>1. x \in TmType /\ x.tlist \in Seq(Timer) /\ x.tick \in Tick /\ x.timeout \in [Timer -> Tick]
  BY DEF ListGood, TmType
<1>2. n.tlist = x.tlist /\ n.timeout = x.timeout /\ n.tick = NextTick(x.tick)
      /\ n \in [tick : {n.tick}, tlist : Seq(Timer), timeout : [Timer -> Tick]]
  BY <1>1 DEF TmType, Ticked
<1>3. n \in TmType
  BY <1>1, <1>2, NextTickIs DEF TmType
<1>4. ToSet(x.tlist) \subseteq Timer
  BY <1>1, ToSetType
<1>5. ASSUME NEW u \in ToSet(x.tlist)
      PROVE  Due(n, u, e[u])
  <2>1. u \in Timer /\ Due(x, u, d[u]) /\ 1 - MaxLag <= d[u] /\ e[u] = d[u] - 1
    BY <1>4 DEF ListGood
  <2> QED
    BY <1>1, <1>2, <2>1, DueLater
<1>6. Rising(n.tlist, e)
  <2>1. \A i \in 1 .. Len(x.tlist) : x.tlist[i] \in ToSet(x.tlist) /\ x.tlist[i] \in Timer
    BY <1>1 DEF ToSet
  <2> QED
    BY <1>2, <2>1 DEF ListGood, Rising
<1>7. IsInjective(n.tlist)
  BY <1>2 DEF ListGood
<1>8. ListGood(n, e)
  BY <1>2, <1>3, <1>5, <1>6, <1>7 DEF ListGood
<1> QED
  BY <1>2, <1>8

\* The first timer of the list is the one with the least time left, and rt_timer_check
\* finds it expired exactly when its time has passed.
LEMMA HeadLeast ==
    ASSUME NEW x, NEW d, ListGood(x, d), x.tlist # << >>
    PROVE  /\ Head(x.tlist) \in ToSet(x.tlist) /\ Head(x.tlist) \in Timer
           /\ \A u \in ToSet(x.tlist) : d[Head(x.tlist)] <= d[u]
           /\ HeadExpired(x) <=> d[Head(x.tlist)] <= 0
<1>1. x \in TmType /\ x.tlist \in Seq(Timer) /\ d \in [Timer -> Int] /\ Rising(x.tlist, d)
  BY DEF ListGood, TmType
<1>2. Head(x.tlist) \in ToSet(x.tlist) /\ ToSet(x.tlist) \subseteq Timer
  BY <1>1, EmptyList, ToSetType
<1>3. ASSUME NEW u \in ToSet(x.tlist)
      PROVE  d[Head(x.tlist)] <= d[u]
  <2>1. PICK i \in 1 .. Len(x.tlist) : x.tlist[i] = u
    BY <1>1 DEF ToSet
  <2>2. 1 \in 1 .. Len(x.tlist) /\ Head(x.tlist) = x.tlist[1] /\ Len(x.tlist) \in Nat
    BY <1>1, <2>1
  <2>3. CASE i = 1
    BY <1>1, <1>2, <2>1, <2>2, <2>3
  <2>4. CASE i > 1
    BY <1>1, <2>1, <2>2, <2>4 DEF Rising
  <2> QED
    BY <2>1, <2>2, <2>3, <2>4
<1>4. HeadExpired(x) <=> d[Head(x.tlist)] <= 0
  BY <1>1, <1>2, DueExpired DEF ListGood, HeadExpired
<1> QED
  BY <1>2, <1>3, <1>4

-----------------------------------------------------------------------------
(* Steps that concern one timer *)

\* Timer v is left as it is, or taken from the list.
TimerKept(v) ==
    /\ v \in ToSet(tm'.tlist) => v \in ToSet(tm.tlist)
    /\ v \in gone' <=> v \in gone
    /\ v \in stopped' => v \in stopped
    /\ v \in active => v \in active'
    /\ due'[v] = due[v] /\ tm'.timeout[v] = tm.timeout[v] /\ period'[v] = period[v]

\* A call about a timer that is left alone knows afterwards what it knew before.
LEMMA CallKept ==
    ASSUME NEW s \in Thread, CallGood(s), pc'[s] = pc[s], tm'.tick = tm.tick,
           pc[s].at # "run" => TimerKept(pc[s].arg),
           pc[s].at # "run" => cb'.of = cb.of \/ cb'.of # pc[s].arg
    PROVE  CallGood(s)'
<1>1. CASE pc[s].at = "run"
  BY <1>1 DEF CallGood
<1>2. CASE pc[s].at # "run"
  <2>1. TimerKept(pc[s].arg)
    BY <1>2
  <2>2. pc[s].at = "start_link" => Due(tm', pc[s].arg, due'[pc[s].arg])
    BY <2>1 DEF CallGood, TimerKept, Due
  <2> QED
    BY <1>2, <2>1, <2>2 DEF CallGood, TimerKept, InList, Due
<1> QED
  BY <1>1, <1>2

\* The types of the timer list and of the history
LEMMA InvTypes ==
    ASSUME TimersInv
    PROVE  /\ tm \in TmType /\ tm.tick \in Tick /\ tm.tlist \in Seq(Timer)
           /\ tm.timeout \in [Timer -> Tick] /\ due \in [Timer -> Int]
           /\ period \in [Timer -> Nat] /\ ToSet(tm.tlist) \subseteq Timer
           /\ \A t \in Thread : pc[t].arg \in Timer \cup {Null}
           /\ Null \notin Timer /\ MaxLag \in Nat
<1>1. /\ tm \in TmType /\ tm.tick \in Tick /\ tm.tlist \in Seq(Timer)
      /\ tm.timeout \in [Timer -> Tick] /\ due \in [Timer -> Int] /\ period \in [Timer -> Nat]
  BY DEF TimersInv, TimersTypeOK, TmType
<1>2. ToSet(tm.tlist) \subseteq Timer
  BY <1>1, ToSetType
<1> QED
  BY <1>1, <1>2, TimersAssumption DEF TimersInv, TimersTypeOK

\* What a thread's step about timer u has to show
LEMMA ThreadStep ==
    ASSUME TimersInv, NEW t \in Thread, NEW u \in Timer,
           ~isr, isr' = isr, cb' = cb, tm'.tick = tm.tick,
           \A s \in Thread : s # t => pc'[s] = pc[s] /\ pc[s].arg # u,
           pc[t].at = "run" \/ pc[t].arg = u,
           pc'[t].at = "run" \/ pc'[t].arg = u,
           \A v \in Timer : v # u => TimerKept(v),
           TimersTypeOK', ListGood(tm', due'), CallGood(t)',
           u \notin gone' => period'[u] \in Periods,
           u \in ToSet(tm'.tlist) =>
                /\ u \notin gone' /\ u \notin stopped' /\ due'[u] >= 1 - MaxLag
                /\ u \in active' \/ pc'[t].arg = u
    PROVE  TimersInv'
<1>1. /\ cb.of = Null /\ cb'.of = Null /\ cb' = NoCallback /\ ~isr'
      /\ \A s \in Thread : CallGood(s)
  BY DEF TimersInv, CallbackGood
<1>2. Null \notin Timer
  BY InvTypes
<1>3. \A s \in Thread : CallGood(s)'
  <2>1. SUFFICES ASSUME NEW s \in Thread, s # t PROVE CallGood(s)'
    OBVIOUS
  <2>2. CallGood(s) /\ pc'[s] = pc[s] /\ pc[s].arg # u
    BY <1>1, <2>1
  <2>3. pc[s].at # "run" => TimerKept(pc[s].arg)
    BY <2>2 DEF CallGood
  <2> QED
    BY <1>1, <2>2, <2>3, CallKept
<1>4. CallsApart'
  <2>1. SUFFICES ASSUME NEW r \in Thread, NEW s \in Thread, pc'[r].at # "run",
                        pc'[r].arg = pc'[s].arg
                 PROVE  r = s
    BY DEF CallsApart
  <2>2. pc'[t].arg = u \/ pc'[t].arg = Null
    BY DEF CallGood
  <2>3. pc'[r].arg \in Timer
    BY <1>3, <2>1 DEF CallGood
  <2>4. CASE r # t /\ s # t
    BY <2>1, <2>4 DEF TimersInv, CallsApart
  <2>5. CASE r = t \/ s = t
    BY <1>2, <2>1, <2>2, <2>3, <2>5
  <2> QED
    BY <2>4, <2>5
<1>5. ASSUME NEW v \in ToSet(tm'.tlist)
      PROVE  /\ v \notin gone' /\ v \notin stopped' /\ (v \in active' \/ v \in Busy')
             /\ due'[v] >= 1 - MaxLag
  <2>1. CASE v = u
    BY <2>1 DEF Busy
  <2>2. CASE v # u
    <3>1. ToSet(tm'.tlist) \subseteq Timer
      BY ToSetType DEF ListGood, TmType
    <3>2. v \in Timer /\ TimerKept(v) /\ v \in ToSet(tm.tlist)
      BY <2>2, <3>1 DEF TimerKept
    <3>3. /\ v \notin gone /\ v \notin stopped /\ (v \in active \/ v \in Busy)
          /\ due[v] >= 1 - MaxLag
      BY <3>2 DEF TimersInv, Listed
    <3>4. v \in Busy => v \in Busy'
      <4>1. SUFFICES ASSUME NEW s \in Thread, pc[s].arg = v PROVE v \in Busy'
        BY DEF Busy
      <4>2. s # t
        BY <1>1, <1>2, <2>2, <3>2, <4>1 DEF CallGood
      <4>3. pc'[s].arg = v
        BY <4>1, <4>2
      <4> QED
        BY <4>3 DEF Busy
    <3> QED
      BY <3>2, <3>3, <3>4 DEF TimerKept
  <2> QED
    BY <2>1, <2>2
<1>6. Listed'
  BY <1>5 DEF Listed
<1>7. CallbackGood'
  BY <1>1 DEF CallbackGood
<1>8. PeriodsGood'
  BY DEF TimersInv, PeriodsGood, TimerKept
<1> QED
  BY <1>3, <1>4, <1>6, <1>7, <1>8 DEF TimersInv

-----------------------------------------------------------------------------
(* Calls by threads *)

\* No thread is in a call about a timer that is not busy.
LEMMA NotBusy ==
    ASSUME NEW u, u \notin Busy
    PROVE  \A s \in Thread : pc[s].arg # u
BY DEF Busy

\* Outside the tick handler an idle timer in the list is activated.
LEMMA IdleActive ==
    ASSUME TimersInv, NEW u, u \notin Busy, u \in ToSet(tm.tlist)
    PROVE  u \in active
BY DEF TimersInv, Listed

\* What the types say after Goto
LEMMA GotoTypes ==
    ASSUME TimersTypeOK, NEW t \in Thread, NEW u \in Timer \cup {Null},
           NEW at \in {"run", "start_tick", "start_link", "stop_remove", "stop_clear", "mode"},
           Goto(t, at, u)
    PROVE  /\ pc' \in [Thread -> [at : {"run", "start_tick", "start_link", "stop_remove",
                                       "stop_clear", "mode"},
                                 arg : Timer \cup {Null}, saw : BOOLEAN]]
           /\ pc'[t].at = at /\ pc'[t].arg = u /\ pc'[t].saw = FALSE
           /\ \A s \in Thread : s # t => pc'[s] = pc[s]
BY DEF TimersTypeOK, Goto

\* rt_timer_init
LEMMA TimerInitInv ==
    ASSUME TimersInv, NEW t \in Thread, NEW u \in Timer, NEW n \in Periods, NEW p \in BOOLEAN,
           TimerInit(t, u, n, p)
    PROVE  TimersInv'
<1>1. /\ ~isr /\ pc[t].at = "run" /\ u \in gone /\ u \notin Busy /\ pc' = pc /\ tm' = tm /\ due' = due
      /\ isr' = isr /\ cb' = cb /\ stopped' = stopped /\ gone' = gone \ {u} /\ active' = active \ {u}
      /\ period' = [period EXCEPT ![u] = n]
      /\ periodic' = IF p THEN periodic \cup {u} ELSE periodic \ {u}
  BY DEF TimerInit, Is
<1>2. n \in Nat
  BY HalfTickSpec, TimersAssumption
<1>3. period'[u] = n /\ \A v \in Timer : v # u => period'[v] = period[v]
  BY <1>1, InvTypes
<1>4. TimersTypeOK'
  BY <1>1, <1>2 DEF TimersInv, TimersTypeOK
<1>5. u \notin ToSet(tm.tlist) /\ ListGood(tm, due) /\ CallGood(t)
  BY <1>1 DEF TimersInv, Listed
<1>6. CallGood(t)'
  BY <1>1, <1>5 DEF CallGood
<1>7. \A v \in Timer : v # u => TimerKept(v)
  BY <1>1, <1>3 DEF TimerKept
<1>8. \A s \in Thread : pc[s].arg # u
  BY <1>1, NotBusy
<1> QED
  BY <1>1, <1>3, <1>4, <1>5, <1>6, <1>7, <1>8, ThreadStep

\* rt_timer_start, the timer is stopped
LEMMA StartInv ==
    ASSUME TimersInv, NEW t \in Thread, NEW u \in Timer, Start(t, u)
    PROVE  TimersInv'
<1>1. /\ ~isr /\ pc[t].at = "run" /\ u \notin gone /\ u \notin Busy /\ tm' = TimerStop(tm, u)
      /\ due' = [due EXCEPT ![u] = 0] /\ isr' = isr /\ cb' = cb /\ stopped' = stopped \ {u}
      /\ gone' = gone /\ active' = active \ {u} /\ period' = period /\ periodic' = periodic
      /\ Goto(t, "start_tick", u)
  BY DEF Start, Calls, Is
<1>2. /\ due' \in [Timer -> Int] /\ \A v \in Timer : v # u => due'[v] = due[v]
  BY <1>1, InvTypes
<1>3. /\ ListGood(tm', due') /\ tm'.tick = tm.tick /\ ToSet(tm'.tlist) = ToSet(tm.tlist) \ {u}
      /\ \A v \in Timer : v # u => tm'.timeout[v] = tm.timeout[v]
  <2>1. ListGood(tm, due) /\ tm' = TimerStop(tm, u)
    BY <1>1 DEF TimersInv
  <2>2. /\ ListGood(tm', due) /\ tm'.tick = tm.tick /\ ToSet(tm'.tlist) = ToSet(tm.tlist) \ {u}
        /\ \A v \in Timer : v # u => tm'.timeout[v] = tm.timeout[v]
    BY <2>1, ListStop
  <2> QED
    BY <1>2, <2>2, ListSame, InvTypes
<1>4. TimersTypeOK' /\ pc'[t].at = "start_tick" /\ pc'[t].arg = u
      /\ \A s \in Thread : s # t => pc'[s] = pc[s]
  BY <1>1, <1>2, <1>3, GotoTypes DEF TimersInv, TimersTypeOK, ListGood, TmType
<1>5. cb.of = Null /\ Null \notin Timer
  BY <1>1, InvTypes DEF TimersInv, CallbackGood
<1>6. CallGood(t)'
  BY <1>1, <1>3, <1>4, <1>5 DEF CallGood, InList
<1>7. \A v \in Timer : v # u => TimerKept(v)
  BY <1>1, <1>2, <1>3 DEF TimerKept
<1>8. \A s \in Thread : pc[s].arg # u
  BY <1>1, NotBusy
<1>9. u \notin gone' => period'[u] \in Periods
  BY <1>1 DEF TimersInv, PeriodsGood
<1> QED
  BY <1>1, <1>3, <1>4, <1>6, <1>7, <1>8, <1>9, ThreadStep

\* A thread in the middle of a call: its timer, and nobody else's
LEMMA MidCall ==
    ASSUME TimersInv, NEW t \in Thread, pc[t].at # "run"
    PROVE  /\ pc[t].arg \in Timer /\ pc[t].arg \notin gone /\ period[pc[t].arg] \in Periods
           /\ \A s \in Thread : s # t => pc[s].arg # pc[t].arg
BY DEF TimersInv, CallGood, CallsApart, PeriodsGood

\* rt_timer_start, the timeout tick is computed
LEMMA StartTickInv ==
    ASSUME TimersInv, NEW t \in Thread, StartTick(t)
    PROVE  TimersInv'
<1>1. PICK u \in Timer : u = pc[t].arg
  BY MidCall DEF StartTick, Is
<1>2. /\ ~isr /\ pc[t].at = "start_tick"
      /\ tm' = [tm EXCEPT !.timeout[u] = (tm.tick + period[u]) % TickMod]
      /\ due' = [due EXCEPT ![u] = period[u]] /\ isr' = isr /\ cb' = cb /\ stopped' = stopped
      /\ gone' = gone /\ active' = active /\ period' = period /\ periodic' = periodic
      /\ Goto(t, "start_link", u)
  BY <1>1 DEF StartTick, Is, flags
<1>3. u \notin gone /\ period[u] \in Periods /\ \A s \in Thread : s # t => pc[s].arg # u
  BY <1>1, <1>2, MidCall
<1>4. PICK at : at = (tm.tick + period[u]) % TickMod
  OBVIOUS
<1>5. at \in Tick /\ Near(tm.tick, at, period[u]) /\ period[u] \in Nat
  BY <1>3, <1>4, InvTypes, DueFresh
<1>6. /\ due' \in [Timer -> Int] /\ due'[u] = period[u]
      /\ \A v \in Timer : v # u => due'[v] = due[v]
  BY <1>2, <1>5, InvTypes
<1>7. /\ tm' \in TmType /\ tm'.tick = tm.tick /\ tm'.tlist = tm.tlist /\ tm'.timeout[u] = at
      /\ \A v \in Timer : v # u => tm'.timeout[v] = tm.timeout[v]
  BY <1>2, <1>4, <1>5, InvTypes DEF TmType
<1>8. CallGood(t) /\ u \notin ToSet(tm.tlist) /\ u # cb.of /\ u \notin stopped
  BY <1>1, <1>2 DEF TimersInv, CallGood, InList
<1>9. Due(tm', u, due'[u])
  BY <1>5, <1>6, <1>7, InvTypes DEF Due
<1>10. ListGood(tm', due')
  <2>1. \A v \in ToSet(tm.tlist) : v \in Timer /\ v # u /\ Due(tm, v, due[v])
    BY <1>8, InvTypes DEF TimersInv, ListGood
  <2>2. \A v \in ToSet(tm.tlist) : Due(tm', v, due'[v])
    BY <1>6, <1>7, <2>1 DEF Due
  <2>3. Rising(tm.tlist, due')
    BY <1>6, <2>1, ListSame, InvTypes DEF TimersInv, ListGood
  <2> QED
    BY <1>6, <1>7, <2>2, <2>3 DEF TimersInv, ListGood
<1>11. TimersTypeOK' /\ pc'[t].at = "start_link" /\ pc'[t].arg = u
      /\ \A s \in Thread : s # t => pc'[s] = pc[s]
  BY <1>2, <1>6, <1>7, GotoTypes DEF TimersInv, TimersTypeOK, TmType
<1>12. CallGood(t)'
  BY <1>2, <1>3, <1>5, <1>6, <1>7, <1>8, <1>9, <1>11, InvTypes DEF CallGood, InList
<1>13. \A v \in Timer : v # u => TimerKept(v)
  BY <1>2, <1>6, <1>7 DEF TimerKept
<1>14. u \notin ToSet(tm'.tlist)
  BY <1>7, <1>8
<1> QED
  BY <1>1, <1>2, <1>3, <1>7, <1>10, <1>11, <1>12, <1>13, <1>14, ThreadStep

\* rt_timer_start, the timer is linked
LEMMA StartLinkInv ==
    ASSUME TimersInv, NEW t \in Thread, StartLink(t)
    PROVE  TimersInv'
<1>1. PICK u \in Timer : u = pc[t].arg
  BY MidCall DEF StartLink, Is
<1>2. /\ ~isr /\ pc[t].at = "start_link"
      /\ tm' = [tm EXCEPT !.tlist = InsertAt(@, TimerPosition(tm, tm.timeout[u]), u)]
      /\ due' = due /\ isr' = isr /\ cb' = cb /\ stopped' = stopped
      /\ gone' = gone /\ active' = active \cup {u} /\ period' = period /\ periodic' = periodic
      /\ Goto(t, "run", Null)
  BY <1>1 DEF StartLink, Is
<1>3. u \notin gone /\ period[u] \in Periods /\ \A s \in Thread : s # t => pc[s].arg # u
  BY <1>1, <1>2, MidCall
<1>4. tm' = LinkAt(tm, u, tm.timeout[u])
  BY <1>2, InvTypes DEF LinkAt, TmType
<1>5. /\ u \notin ToSet(tm.tlist) /\ u \notin stopped
      /\ Due(tm, u, due[u]) /\ period[u] - MaxLag <= due[u]
  BY <1>1, <1>2 DEF TimersInv, CallGood, InList
<1>6. tm.timeout[u] \in Tick /\ due[u] \in Int /\ MaxLag \in Nat
  BY InvTypes
<1>7. ListGood(tm', due') /\ tm'.tick = tm.tick /\ ToSet(tm'.tlist) = ToSet(tm.tlist) \cup {u}
  <2>1. ListGood(tm, due) /\ due' = due
    BY <1>2 DEF TimersInv
  <2>2. Near(tm.tick, tm.timeout[u], due[u])
    BY <1>5 DEF Due
  <2> QED
    BY <1>4, <1>5, <1>6, <2>1, <2>2, ListLink
<1>8. TimersTypeOK' /\ pc'[t].at = "run" /\ pc'[t].arg = Null
      /\ \A s \in Thread : s # t => pc'[s] = pc[s]
  BY <1>2, <1>7, GotoTypes DEF TimersInv, TimersTypeOK, ListGood, TmType
<1>9. CallGood(t)'
  BY <1>8 DEF CallGood
<1>10. tm'.timeout = tm.timeout
  BY <1>2, InvTypes DEF TmType
<1>11. \A v \in Timer : v # u => TimerKept(v)
  BY <1>2, <1>7, <1>10 DEF TimerKept
<1>12. due[u] >= 1 - MaxLag
  <2>1. period[u] \in Nat /\ 1 <= period[u]
    BY <1>3, PeriodRange
  <2> QED
    BY <1>5, <1>6, <2>1
<1> QED
  BY <1>1, <1>2, <1>3, <1>5, <1>7, <1>8, <1>9, <1>11, <1>12, ThreadStep

\* rt_timer_stop, the test of the flag
LEMMA StopInv ==
    ASSUME TimersInv, NEW t \in Thread, NEW u \in Timer, Stop(t, u)
    PROVE  TimersInv'
<1>1. /\ ~isr /\ pc[t].at = "run" /\ u \notin gone /\ u \notin Busy /\ tm' = tm /\ due' = due
      /\ isr' = isr /\ cb' = cb /\ gone' = gone /\ active' = active /\ period' = period
      /\ periodic' = periodic
      /\ \/ u \in active /\ Goto(t, "stop_remove", u) /\ stopped' = stopped
         \/ u \notin active /\ stopped' = stopped \cup {u} /\ pc' = pc
  BY DEF Stop, Calls, Is, flags
<1>2. /\ ListGood(tm, due) /\ CallGood(t) /\ period[u] \in Periods
      /\ u \in ToSet(tm.tlist) => u \in active /\ due[u] >= 1 - MaxLag /\ u \notin stopped
  BY <1>1, IdleActive DEF TimersInv, PeriodsGood, Listed
<1>3. \A s \in Thread : pc[s].arg # u
  BY <1>1, NotBusy
<1>4. \A v \in Timer : v # u => TimerKept(v)
  BY <1>1 DEF TimerKept
<1>5. CASE u \in active
  <2>1. TimersTypeOK' /\ pc'[t].at = "stop_remove" /\ pc'[t].arg = u
        /\ \A s \in Thread : s # t => pc'[s] = pc[s]
    BY <1>1, <1>5, GotoTypes DEF TimersInv, TimersTypeOK
  <2>2. CallGood(t)'
    BY <1>1, <2>1 DEF CallGood
  <2> QED
    BY <1>1, <1>2, <1>3, <1>4, <1>5, <2>1, <2>2, ThreadStep
<1>6. CASE u \notin active
  <2>1. TimersTypeOK' /\ pc' = pc
    BY <1>1, <1>6 DEF TimersInv, TimersTypeOK
  <2>2. CallGood(t)'
    BY <1>1, <1>2, <2>1 DEF CallGood
  <2> QED
    BY <1>1, <1>2, <1>3, <1>4, <1>6, <2>1, <2>2, ThreadStep
<1> QED
  BY <1>5, <1>6

\* rt_timer_stop, the timer is taken from the list
LEMMA StopRemoveInv ==
    ASSUME TimersInv, NEW t \in Thread, StopRemove(t)
    PROVE  TimersInv'
<1>1. PICK u \in Timer : u = pc[t].arg
  BY MidCall DEF StopRemove, Is
<1>2. /\ ~isr /\ pc[t].at = "stop_remove" /\ tm' = TimerStop(tm, u)
      /\ due' = [due EXCEPT ![u] = 0] /\ isr' = isr /\ cb' = cb /\ stopped' = stopped
      /\ gone' = gone /\ active' = active /\ period' = period /\ periodic' = periodic
      /\ Goto(t, "stop_clear", u)
  BY <1>1 DEF StopRemove, Is, flags
<1>3. u \notin gone /\ period[u] \in Periods /\ \A s \in Thread : s # t => pc[s].arg # u
  BY <1>1, <1>2, MidCall
<1>4. due' \in [Timer -> Int] /\ \A v \in Timer : v # u => due'[v] = due[v]
  BY <1>2, InvTypes
<1>5. /\ ListGood(tm', due') /\ tm'.tick = tm.tick /\ ToSet(tm'.tlist) = ToSet(tm.tlist) \ {u}
      /\ \A v \in Timer : v # u => tm'.timeout[v] = tm.timeout[v]
  <2>1. ListGood(tm, due) /\ tm' = TimerStop(tm, u)
    BY <1>2 DEF TimersInv
  <2>2. /\ ListGood(tm', due) /\ tm'.tick = tm.tick /\ ToSet(tm'.tlist) = ToSet(tm.tlist) \ {u}
        /\ \A v \in Timer : v # u => tm'.timeout[v] = tm.timeout[v]
    BY <2>1, ListStop
  <2> QED
    BY <1>4, <2>2, ListSame, InvTypes
<1>6. TimersTypeOK' /\ pc'[t].at = "stop_clear" /\ pc'[t].arg = u
      /\ \A s \in Thread : s # t => pc'[s] = pc[s]
  BY <1>2, <1>4, <1>5, GotoTypes DEF TimersInv, TimersTypeOK, ListGood, TmType
<1>7. cb.of = Null /\ Null \notin Timer
  BY <1>2, InvTypes DEF TimersInv, CallbackGood
<1>8. CallGood(t)'
  BY <1>2, <1>3, <1>5, <1>6, <1>7 DEF CallGood, InList
<1>9. \A v \in Timer : v # u => TimerKept(v)
  BY <1>2, <1>4, <1>5 DEF TimerKept
<1>10. u \notin ToSet(tm'.tlist)
  BY <1>5
<1> QED
  BY <1>1, <1>2, <1>3, <1>5, <1>6, <1>8, <1>9, <1>10, ThreadStep

\* rt_timer_stop, the flag is cleared
LEMMA StopClearInv ==
    ASSUME TimersInv, NEW t \in Thread, StopClear(t)
    PROVE  TimersInv'
<1>1. PICK u \in Timer : u = pc[t].arg
  BY MidCall DEF StopClear, Is
<1>2. /\ ~isr /\ pc[t].at = "stop_clear" /\ tm' = tm /\ due' = due /\ isr' = isr /\ cb' = cb
      /\ stopped' = stopped \cup {u} /\ gone' = gone /\ active' = active \ {u} /\ period' = period
      /\ periodic' = periodic /\ Goto(t, "run", Null)
  BY <1>1 DEF StopClear, Is
<1>3. u \notin gone /\ period[u] \in Periods /\ \A s \in Thread : s # t => pc[s].arg # u
  BY <1>1, <1>2, MidCall
<1>4. ListGood(tm', due') /\ u \notin ToSet(tm'.tlist)
  BY <1>1, <1>2 DEF TimersInv, CallGood, InList
<1>5. TimersTypeOK' /\ pc'[t].at = "run" /\ pc'[t].arg = Null
      /\ \A s \in Thread : s # t => pc'[s] = pc[s]
  BY <1>2, GotoTypes DEF TimersInv, TimersTypeOK
<1>6. CallGood(t)'
  BY <1>5 DEF CallGood
<1>7. \A v \in Timer : v # u => TimerKept(v)
  BY <1>2 DEF TimerKept
<1> QED
  BY <1>1, <1>2, <1>3, <1>4, <1>5, <1>6, <1>7, ThreadStep

\* rt_timer_detach
LEMMA DetachInv ==
    ASSUME TimersInv, NEW t \in Thread, NEW u \in Timer, Detach(t, u)
    PROVE  TimersInv'
<1>1. /\ ~isr /\ pc[t].at = "run" /\ u \notin gone /\ u \notin Busy /\ tm' = TimerStop(tm, u)
      /\ due' = [due EXCEPT ![u] = 0] /\ isr' = isr /\ cb' = cb /\ stopped' = stopped \cup {u}
      /\ gone' = gone \cup {u} /\ active' = active /\ period' = period /\ periodic' = periodic
      /\ pc' = pc
  BY DEF Detach, Calls, Is
<1>2. due' \in [Timer -> Int] /\ \A v \in Timer : v # u => due'[v] = due[v]
  BY <1>1, InvTypes
<1>3. /\ ListGood(tm', due') /\ tm'.tick = tm.tick /\ ToSet(tm'.tlist) = ToSet(tm.tlist) \ {u}
      /\ \A v \in Timer : v # u => tm'.timeout[v] = tm.timeout[v]
  <2>1. ListGood(tm, due) /\ tm' = TimerStop(tm, u)
    BY <1>1 DEF TimersInv
  <2>2. /\ ListGood(tm', due) /\ tm'.tick = tm.tick /\ ToSet(tm'.tlist) = ToSet(tm.tlist) \ {u}
        /\ \A v \in Timer : v # u => tm'.timeout[v] = tm.timeout[v]
    BY <2>1, ListStop
  <2> QED
    BY <1>2, <2>2, ListSame, InvTypes
<1>4. TimersTypeOK'
  BY <1>1, <1>2, <1>3 DEF TimersInv, TimersTypeOK, ListGood, TmType
<1>5. CallGood(t)'
  BY <1>1 DEF TimersInv, CallGood
<1>6. \A v \in Timer : v # u => TimerKept(v)
  BY <1>1, <1>2, <1>3 DEF TimerKept
<1>7. \A s \in Thread : pc[s].arg # u
  BY <1>1, NotBusy
<1>8. u \notin ToSet(tm'.tlist) /\ u \in gone'
  BY <1>1, <1>3
<1> QED
  BY <1>1, <1>3, <1>4, <1>5, <1>6, <1>7, <1>8, ThreadStep

\* rt_timer_control(RT_TIMER_CTRL_SET_TIME)
LEMMA SetTimeInv ==
    ASSUME TimersInv, NEW t \in Thread, NEW u \in Timer, NEW n \in Periods, SetTime(t, u, n)
    PROVE  TimersInv'
<1>1. /\ ~isr /\ pc[t].at = "run" /\ u \notin gone /\ u \notin Busy /\ tm' = tm /\ due' = due
      /\ isr' = isr /\ cb' = cb /\ stopped' = stopped /\ gone' = gone /\ active' = active
      /\ period' = [period EXCEPT ![u] = n] /\ periodic' = periodic /\ pc' = pc
  BY DEF SetTime, Calls, Is
<1>2. n \in Nat
  BY PeriodRange
<1>3. period'[u] = n /\ \A v \in Timer : v # u => period'[v] = period[v]
  BY <1>1, InvTypes
<1>4. TimersTypeOK'
  BY <1>1, <1>2 DEF TimersInv, TimersTypeOK
<1>5. /\ ListGood(tm, due) /\ CallGood(t)
      /\ u \in ToSet(tm.tlist) => u \in active /\ due[u] >= 1 - MaxLag /\ u \notin stopped
  BY <1>1, IdleActive DEF TimersInv, Listed
<1>6. CallGood(t)'
  BY <1>1, <1>5 DEF CallGood
<1>7. \A v \in Timer : v # u => TimerKept(v)
  BY <1>1, <1>3 DEF TimerKept
<1>8. \A s \in Thread : pc[s].arg # u
  BY <1>1, NotBusy
<1> QED
  BY <1>1, <1>3, <1>4, <1>5, <1>6, <1>7, <1>8, ThreadStep

\* rt_timer_control reads the flag word.
LEMMA ModeReadInv ==
    ASSUME TimersInv, NEW t \in Thread, NEW u \in Timer, ModeRead(t, u)
    PROVE  TimersInv'
<1>1. /\ ~isr /\ pc[t].at = "run" /\ u \notin gone /\ u \notin Busy /\ tm' = tm /\ due' = due
      /\ isr' = isr /\ cb' = cb /\ stopped' = stopped /\ gone' = gone /\ active' = active
      /\ period' = period /\ periodic' = periodic
      /\ pc' = [pc EXCEPT ![t] = [at |-> "mode", arg |-> u, saw |-> u \in active]]
  BY DEF ModeRead, Calls, Is, flags
<1>2. /\ ListGood(tm, due) /\ period[u] \in Periods
      /\ u \in ToSet(tm.tlist) => u \in active /\ due[u] >= 1 - MaxLag /\ u \notin stopped
  BY <1>1, IdleActive DEF TimersInv, PeriodsGood, Listed
<1>3. PICK b \in BOOLEAN : (b <=> u \in active)
                          /\ pc' = [pc EXCEPT ![t] = [at |-> "mode", arg |-> u, saw |-> b]]
  <2>1. CASE u \in active
    <3>1. (u \in active) = TRUE
      BY <2>1, Zenon
    <3>2. pc' = [pc EXCEPT ![t] = [at |-> "mode", arg |-> u, saw |-> TRUE]]
      BY <1>1, <3>1, Zenon
    <3> QED
      BY <2>1, <3>2
  <2>2. CASE ~(u \in active)
    <3>1. (u \in active) = FALSE
      BY <2>2, SMT
    <3>2. pc' = [pc EXCEPT ![t] = [at |-> "mode", arg |-> u, saw |-> FALSE]]
      BY <1>1, <3>1, Zenon
    <3>3. FALSE <=> u \in active
      BY <2>2
    <3> QED
      BY <3>2, <3>3
  <2> QED
    BY <2>1, <2>2
<1>4. /\ TimersTypeOK' /\ pc'[t].at = "mode" /\ pc'[t].arg = u /\ pc'[t].saw = b
      /\ \A s \in Thread : s # t => pc'[s] = pc[s]
  BY <1>1, <1>3 DEF TimersInv, TimersTypeOK
<1>5. cb.of = Null /\ Null \notin Timer
  BY <1>1, InvTypes DEF TimersInv, CallbackGood
<1>6. CallGood(t)'
  BY <1>1, <1>2, <1>3, <1>4, <1>5 DEF CallGood, InList
<1>7. \A v \in Timer : v # u => TimerKept(v)
  BY <1>1 DEF TimerKept
<1>8. \A s \in Thread : pc[s].arg # u
  BY <1>1, NotBusy
<1> QED
  BY <1>1, <1>2, <1>4, <1>6, <1>7, <1>8, ThreadStep

\* rt_timer_control writes the flag word back.
LEMMA ModeWriteInv ==
    ASSUME TimersInv, NEW t \in Thread, NEW p \in BOOLEAN, ModeWrite(t, p)
    PROVE  TimersInv'
<1>1. PICK u \in Timer : u = pc[t].arg
  BY MidCall DEF ModeWrite, Is
<1>2. /\ ~isr /\ pc[t].at = "mode" /\ tm' = tm /\ due' = due /\ isr' = isr /\ cb' = cb
      /\ stopped' = stopped /\ gone' = gone /\ period' = period /\ Goto(t, "run", Null)
      /\ periodic' = IF p THEN periodic \cup {u} ELSE periodic \ {u}
      /\ active' = IF pc[t].saw THEN active \cup {u} ELSE active \ {u}
  BY <1>1 DEF ModeWrite, Is
<1>3. u \notin gone /\ period[u] \in Periods /\ \A s \in Thread : s # t => pc[s].arg # u
  BY <1>1, <1>2, MidCall
<1>4. /\ ListGood(tm', due')
      /\ u \in ToSet(tm.tlist) => pc[t].saw /\ due[u] >= 1 - MaxLag /\ u \notin stopped
  BY <1>1, <1>2 DEF TimersInv, CallGood, InList, Listed
<1>5. active' \subseteq Timer /\ periodic' \subseteq Timer
  BY <1>2 DEF TimersInv, TimersTypeOK
<1>6. TimersTypeOK' /\ pc'[t].at = "run" /\ pc'[t].arg = Null
      /\ \A s \in Thread : s # t => pc'[s] = pc[s]
  BY <1>2, <1>5, GotoTypes DEF TimersInv, TimersTypeOK
<1>7. CallGood(t)'
  BY <1>6 DEF CallGood
<1>8. \A v \in Timer : v # u => TimerKept(v)
  BY <1>2 DEF TimerKept
<1>9. u \in ToSet(tm'.tlist) => u \in active'
  BY <1>2, <1>4
<1> QED
  BY <1>1, <1>2, <1>3, <1>4, <1>6, <1>7, <1>8, <1>9, ThreadStep

-----------------------------------------------------------------------------
(* The tick handler *)

\* What a step of the tick handler about timer u has to show
LEMMA HandlerStep ==
    ASSUME TimersInv, NEW u \in Timer, isr, isr', pc' = pc, tm'.tick = tm.tick,
           gone' = gone, period' = period, u \notin gone,
           \A v \in Timer : v # u => TimerKept(v),
           cb'.of = cb.of \/ cb'.of = u \/ cb'.of = Null,
           \A s \in Thread : pc[s].arg = u => CallGood(s)',
           TimersTypeOK', ListGood(tm', due'), CallbackGood',
           u \in ToSet(tm'.tlist) => u \notin stopped' /\ (u \in active' \/ u \in Busy)
    PROVE  TimersInv'
<1>1. Busy' = Busy /\ \A s \in Thread : CallGood(s)
  BY DEF TimersInv, Busy
<1>2. ASSUME NEW s \in Thread, pc[s].arg # u
      PROVE  CallGood(s)'
  <2>1. pc[s].at # "run" => TimerKept(pc[s].arg) /\ pc[s].arg # Null
    BY <1>1, <1>2, InvTypes DEF CallGood
  <2>2. pc[s].at # "run" => cb'.of = cb.of \/ cb'.of # pc[s].arg
    BY <1>2, <2>1
  <2> QED
    BY <1>1, <2>1, <2>2, CallKept
<1>3. \A s \in Thread : CallGood(s)'
  BY <1>2
<1>4. CallsApart'
  BY DEF TimersInv, CallsApart
<1>5. ASSUME NEW v \in ToSet(tm'.tlist)
      PROVE  v \notin gone' /\ v \notin stopped' /\ (v \in active' \/ v \in Busy')
  <2>1. CASE v = u
    BY <1>1, <2>1
  <2>2. CASE v # u
    <3>1. ToSet(tm'.tlist) \subseteq Timer
      BY ToSetType DEF ListGood, TmType
    <3>2. v \in Timer /\ TimerKept(v) /\ v \in ToSet(tm.tlist)
      BY <2>2, <3>1 DEF TimerKept
    <3> QED
      BY <1>1, <3>2 DEF TimersInv, Listed, TimerKept
  <2> QED
    BY <2>1, <2>2
<1>6. Listed'
  BY <1>5 DEF Listed
<1>7. PeriodsGood'
  BY DEF TimersInv, PeriodsGood
<1> QED
  BY <1>3, <1>4, <1>6, <1>7 DEF TimersInv

\* A tick occurs.
LEMMA TickIncreaseInv ==
    ASSUME TimersInv, TickIncrease
    PROVE  TimersInv'
<1>1. /\ ~isr /\ isr' /\ isr' \in BOOLEAN /\ tm' = Ticked(tm) /\ active' = active /\ periodic' = periodic
      /\ period' = period /\ gone' = gone /\ cb' = cb /\ pc' = pc /\ stopped' = stopped
      /\ \A t \in Thread : pc[t].at = "start_link" => due[pc[t].arg] > period[pc[t].arg] - MaxLag
      /\ due' = [u \in Timer |->
                    IF /\ due[u] > -HalfTick
                       /\ InList(u) \/ \E t \in Thread : pc[t].at = "start_link" /\ pc[t].arg = u
                    THEN due[u] - 1 ELSE due[u]]
  BY DEF TickIncrease, flags, Ticked
<1>2. due' \in [Timer -> Int]
  BY <1>1, InvTypes
<1>3. HalfTick \in Nat /\ MaxLag \in Nat
  BY InvTypes, HalfTickSpec
<1>4. ASSUME NEW u \in ToSet(tm.tlist)
      PROVE  1 - MaxLag <= due[u] /\ due'[u] = due[u] - 1
  <2>1. u \in Timer /\ InList(u) /\ due[u] \in Int /\ 1 - MaxLag <= due[u] /\ MaxLag < HalfTick
    BY <1>1, InvTypes DEF TimersInv, Listed, ListGood, Due, Near, InList
  <2>2. due[u] > -HalfTick
    BY <1>3, <2>1
  <2> QED
    BY <1>1, <2>1, <2>2
<1>5. ListGood(tm', due') /\ tm'.tlist = tm.tlist
  <2>1. ListGood(tm, due)
    BY DEF TimersInv
  <2> QED
    BY <1>1, <1>2, <1>4, <2>1, ListTick
<1>6. TimersTypeOK'
  BY <1>1, <1>2, <1>5 DEF TimersInv, TimersTypeOK, ListGood, TmType
<1>7. ASSUME NEW s \in Thread
      PROVE  CallGood(s)'
  <2>1. CallGood(s) /\ pc'[s] = pc[s]
    BY <1>1 DEF TimersInv
  <2>2. CASE pc[s].at # "start_link"
    BY <1>1, <1>5, <2>1, <2>2 DEF CallGood, InList
  <2>3. CASE pc[s].at = "start_link"
    <3>1. PICK u \in Timer : u = pc[s].arg
      BY <2>3, MidCall
    <3>2. period[u] \in Periods /\ due[u] \in Int /\ due[u] > period[u] - MaxLag
      BY <1>1, <2>3, <3>1, InvTypes, MidCall
    <3>3. period[u] \in Nat /\ 1 <= period[u] /\ MaxLag < HalfTick
      BY <3>2, PeriodRange
    <3>4. due[u] > -HalfTick /\ 1 - MaxLag <= due[u]
      BY <1>3, <3>2, <3>3
    <3>5. due'[u] = due[u] - 1
      BY <1>1, <2>3, <3>1, <3>4
    <3>6. Due(tm, u, due[u])
      BY <2>1, <2>3, <3>1 DEF CallGood
    <3>7. tm'.timeout = tm.timeout /\ tm'.tick = NextTick(tm.tick)
      BY <1>1, InvTypes DEF Ticked, TmType
    <3>8. Due(tm', u, due'[u])
      BY <3>4, <3>5, <3>6, <3>7, InvTypes, DueLater
    <3>9. period'[u] - MaxLag <= due'[u]
      BY <1>1, <1>3, <3>2, <3>3, <3>5
    <3> QED
      BY <1>1, <1>5, <2>1, <2>3, <3>1, <3>8, <3>9 DEF CallGood, InList
  <2> QED
    BY <2>2, <2>3
<1>8. CallsApart' /\ PeriodsGood' /\ CallbackGood'
  BY <1>1 DEF TimersInv, CallsApart, PeriodsGood, CallbackGood, InList
<1>9. Listed'
  BY <1>1, <1>5 DEF TimersInv, Listed, Busy
<1> QED
  BY <1>5, <1>6, <1>7, <1>8, <1>9 DEF TimersInv

\* rt_timer_check takes the first timer.
LEMMA ExpireInv ==
    ASSUME TimersInv, Expire
    PROVE  TimersInv'
<1>1. PICK u : u = Head(tm.tlist)
  OBVIOUS
<1>2. /\ isr /\ isr' = isr /\ tm.tlist # << >> /\ cb = NoCallback
      /\ cb' = [of |-> u, done |-> FALSE] /\ tm' = TimerStop(tm, u)
      /\ active' = active /\ periodic' = periodic /\ period' = period /\ gone' = gone
      /\ pc' = pc /\ due' = due /\ stopped' = stopped
  BY <1>1 DEF Expire, HeadExpired, flags
<1>3. ListGood(tm, due) /\ u \in ToSet(tm.tlist) /\ u \in Timer
  BY <1>1, <1>2, HeadLeast DEF TimersInv
<1>4. /\ ListGood(tm', due') /\ tm'.tick = tm.tick /\ ToSet(tm'.tlist) = ToSet(tm.tlist) \ {u}
      /\ \A v \in Timer : v # u => tm'.timeout[v] = tm.timeout[v]
  BY <1>2, <1>3, ListStop
<1>5. TimersTypeOK'
  BY <1>2, <1>3, <1>4 DEF TimersInv, TimersTypeOK, ListGood, TmType
<1>6. u \notin gone /\ u \notin stopped
  BY <1>3 DEF TimersInv, Listed
<1>7. \A v \in Timer : v # u => TimerKept(v)
  BY <1>2, <1>4 DEF TimerKept
<1>8. ASSUME NEW s \in Thread, pc[s].arg = u
      PROVE  CallGood(s)'
  <2>1. CallGood(s) /\ InList(pc[s].arg) /\ u # Null
    BY <1>3, <1>8, InvTypes DEF TimersInv, InList
  <2>2. pc[s].at \notin {"run", "start_tick", "start_link", "stop_clear"}
        /\ (pc[s].at = "mode" => pc[s].saw)
    BY <1>8, <2>1 DEF CallGood
  <2> QED
    BY <1>2, <1>6, <1>8, <2>1, <2>2 DEF CallGood
<1>9. CallbackGood'
  <2>1. cb'.of = u /\ u # Null
    BY <1>2, <1>3, InvTypes
  <2>2. ~InList(u)'
    BY <1>4 DEF InList
  <2> QED
    BY <1>2, <1>6, <2>1, <2>2 DEF CallbackGood, InList
<1>10. u \notin ToSet(tm'.tlist) /\ cb'.of = u
  BY <1>2, <1>4
<1> QED
  BY <1>2, <1>3, <1>4, <1>5, <1>6, <1>7, <1>8, <1>9, <1>10, HandlerStep

\* rt_timer_start with interrupts disabled
LEMMA StartedGood ==
    ASSUME TimersInv, NEW u \in Timer, u \notin gone, tm' = Started(u),
           due' = [due EXCEPT ![u] = period[u]]
    PROVE  /\ ListGood(tm', due') /\ tm'.tick = tm.tick
           /\ ToSet(tm'.tlist) = ToSet(tm.tlist) \cup {u}
           /\ \A v \in Timer : v # u => tm'.timeout[v] = tm.timeout[v] /\ due'[v] = due[v]
<1>1. PICK s : s = TimerStop(tm, u)
  OBVIOUS
<1>2. PICK at : at = (tm.tick + period[u]) % TickMod
  OBVIOUS
<1>3. /\ ListGood(s, due) /\ s.tick = tm.tick /\ ToSet(s.tlist) = ToSet(tm.tlist) \ {u}
      /\ \A v \in Timer : v # u => s.timeout[v] = tm.timeout[v]
  BY <1>1, ListStop DEF TimersInv
<1>4. period[u] \in Periods
  BY DEF TimersInv, PeriodsGood
<1>5. at \in Tick /\ Near(tm.tick, at, period[u]) /\ period[u] \in Nat
  BY <1>2, <1>4, InvTypes, DueFresh
<1>6. PICK e \in [Timer -> Int] : /\ e = due' /\ e[u] = period[u]
                                   /\ \A v \in Timer : v # u => e[v] = due[v]
  <2>1. due \in [Timer -> Int] /\ period[u] \in Int
    BY <1>5, InvTypes
  <2>2. /\ due' \in [Timer -> Int] /\ due'[u] = period[u]
        /\ \A v \in Timer : v # u => due'[v] = due[v]
    BY <2>1
  <2> QED
    BY <2>2
<1>7. ListGood(s, e)
  <2>1. \A v \in ToSet(s.tlist) : v \in Timer /\ v # u
    BY <1>3, InvTypes
  <2>2. \A v \in ToSet(s.tlist) : e[v] = due[v]
    BY <1>6, <2>1
  <2> QED
    BY <1>3, <2>2, ListSame
<1>8. tm' = LinkAt(s, u, at)
  BY <1>1, <1>2, Zenon DEF Started, LinkAt
<1>9. u \notin ToSet(s.tlist) /\ Near(s.tick, at, e[u])
  BY <1>3, <1>5, <1>6
<1>10. /\ ListGood(tm', e) /\ tm'.tick = s.tick
       /\ ToSet(tm'.tlist) = ToSet(s.tlist) \cup {u}
  BY <1>5, <1>7, <1>8, <1>9, ListLink
<1>11. \A v \in Timer : v # u => tm'.timeout[v] = s.timeout[v]
  <2>1. s \in TmType /\ s.timeout \in [Timer -> Tick]
    BY <1>3 DEF ListGood, TmType
  <2>2. tm'.timeout = [s.timeout EXCEPT ![u] = at]
    BY <1>8, <2>1 DEF LinkAt, TmType
  <2> QED
    BY <2>1, <2>2
<1> QED
  BY <1>3, <1>6, <1>10, <1>11

\* During a timeout function its timer is known.
LEMMA InCallback ==
    ASSUME TimersInv, cb # NoCallback
    PROVE  /\ cb.of \in Timer /\ cb.of # Null /\ isr /\ cb.of \notin gone
           /\ InList(cb.of) => cb.done /\ cb.of \in periodic /\ cb.of \in active
           /\ cb.of \in stopped => cb.of \notin active
           /\ cb \in [of : Timer \cup {Null}, done : BOOLEAN]
BY DEF TimersInv, TimersTypeOK, CallbackGood

\* A timeout function starts a timer.
LEMMA CallbackStartInv ==
    ASSUME "restart" \notin Ops, TimersInv, NEW u \in Timer, CallbackStart(u)
    PROVE  TimersInv'
<1>1. /\ cb # NoCallback /\ ~cb.done /\ u \notin Busy /\ u \notin gone
      /\ u # cb.of \/ u \in periodic
      /\ tm' = Started(u) /\ due' = [due EXCEPT ![u] = period[u]]
      /\ active' = active \cup {u} /\ stopped' = stopped \ {u}
      /\ cb' = [cb EXCEPT !.done = TRUE]
      /\ periodic' = periodic /\ period' = period /\ gone' = gone /\ isr' = isr /\ pc' = pc
  BY DEF CallbackStart
<1>2. /\ ListGood(tm', due') /\ tm'.tick = tm.tick
      /\ ToSet(tm'.tlist) = ToSet(tm.tlist) \cup {u}
      /\ \A v \in Timer : v # u => tm'.timeout[v] = tm.timeout[v] /\ due'[v] = due[v]
  BY <1>1, StartedGood
<1>3. /\ cb.of \in Timer /\ cb.of # Null /\ isr /\ ~InList(cb.of) /\ cb.of \notin gone
      /\ cb.of \in stopped => cb.of \notin active
      /\ cb'.of = cb.of /\ cb'.done = TRUE /\ cb' \in [of : Timer \cup {Null}, done : BOOLEAN]
  BY <1>1, InCallback
<1>4. TimersTypeOK'
  BY <1>1, <1>2, <1>3 DEF TimersInv, TimersTypeOK, ListGood, TmType
<1>5. CallbackGood'
  BY <1>1, <1>2, <1>3 DEF CallbackGood, InList
<1>6. \A v \in Timer : v # u => TimerKept(v)
  BY <1>1, <1>2 DEF TimerKept
<1>7. \A s \in Thread : pc[s].arg # u
  BY <1>1, NotBusy
<1> QED
  BY <1>1, <1>2, <1>3, <1>4, <1>5, <1>6, <1>7, HandlerStep

\* A timeout function stops a timer.
LEMMA CallbackStopInv ==
    ASSUME TimersInv, NEW u \in Timer, CallbackStop(u)
    PROVE  TimersInv'
<1>1. /\ cb # NoCallback /\ ~cb.done /\ u \notin Busy /\ u \notin gone
      /\ due' = due /\ stopped' = stopped \cup {u} /\ cb' = [cb EXCEPT !.done = TRUE]
      /\ periodic' = periodic /\ period' = period /\ gone' = gone /\ isr' = isr /\ pc' = pc
      /\ \/ u \in active /\ tm' = TimerStop(tm, u) /\ active' = active \ {u}
         \/ u \notin active /\ tm' = tm /\ active' = active
  BY DEF CallbackStop
<1>2. /\ cb.of \in Timer /\ cb.of # Null /\ isr /\ ~InList(cb.of) /\ cb.of \notin gone
      /\ cb.of \in stopped => cb.of \notin active
      /\ cb'.of = cb.of /\ cb'.done = TRUE /\ cb' \in [of : Timer \cup {Null}, done : BOOLEAN]
  BY <1>1, InCallback
<1>3. /\ ListGood(tm', due') /\ tm'.tick = tm.tick
      /\ ToSet(tm'.tlist) = ToSet(tm.tlist) \ {u}
      /\ \A v \in Timer : v # u => tm'.timeout[v] = tm.timeout[v]
  <2>1. ListGood(tm, due)
    BY DEF TimersInv
  <2>2. CASE u \in active
    BY <1>1, <2>1, <2>2, ListStop
  <2>3. CASE u \notin active
    BY <1>1, <2>1, <2>3, IdleActive
  <2> QED
    BY <2>2, <2>3
<1>4. active' \subseteq active /\ u \notin active' /\ \A v \in active : v # u => v \in active'
  BY <1>1
<1>5. TimersTypeOK'
  BY <1>1, <1>2, <1>3, <1>4 DEF TimersInv, TimersTypeOK, ListGood, TmType
<1>6. CallbackGood'
  BY <1>1, <1>2, <1>3, <1>4 DEF CallbackGood, InList
<1>7. \A v \in Timer : v # u => TimerKept(v)
  BY <1>1, <1>3, <1>4 DEF TimerKept
<1>8. (\A s \in Thread : pc[s].arg # u) /\ u \notin ToSet(tm'.tlist)
  BY <1>1, <1>3, NotBusy
<1> QED
  BY <1>1, <1>2, <1>3, <1>5, <1>6, <1>7, <1>8, HandlerStep

\* The timeout function returns.
LEMMA CallbackReturnsInv ==
    ASSUME TimersInv, CallbackReturns
    PROVE  TimersInv'
<1>1. cb # NoCallback
  BY DEF CallbackReturns
<1>2. PICK u \in Timer : u = cb.of
  BY <1>1, InCallback
<1>3. /\ cb' = NoCallback /\ cb'.of = Null
      /\ periodic' = periodic /\ period' = period /\ gone' = gone /\ isr' = isr /\ pc' = pc
      /\ stopped' = stopped
      /\ \/ /\ Restarts(u) /\ tm' = Started(u) /\ due' = [due EXCEPT ![u] = period[u]]
            /\ active' = active \cup {u}
         \/ /\ ~Restarts(u) /\ active' = active \ {u} /\ tm' = tm
            /\ due' = [due EXCEPT ![u] = IF InList(u) THEN @ ELSE 0]
  BY <1>2 DEF CallbackReturns, NoCallback
<1>4. /\ isr /\ u \notin gone /\ (u \in stopped => u \notin active)
      /\ InList(u) => u \in periodic /\ u \in active
  BY <1>1, <1>2, InCallback
<1>5. CallbackGood'
  BY <1>3 DEF CallbackGood
<1>6. ASSUME NEW s \in Thread, pc[s].arg = u
      PROVE  CallGood(s)'
  <2>1. CallGood(s) /\ u # Null
    BY InvTypes DEF TimersInv
  <2>2. pc[s].at \notin {"run", "start_tick", "start_link", "stop_clear"}
        /\ (pc[s].at = "mode" => pc[s].saw)
    BY <1>2, <1>6, <2>1 DEF CallGood
  <2> QED
    BY <1>3, <1>4, <1>6, <2>2 DEF CallGood
<1>7. CASE Restarts(u)
  <2>1. /\ tm' = Started(u) /\ due' = [due EXCEPT ![u] = period[u]] /\ active' = active \cup {u}
        /\ u \in active /\ u \notin stopped
    BY <1>3, <1>4, <1>7 DEF Restarts
  <2>2. /\ ListGood(tm', due') /\ tm'.tick = tm.tick
        /\ ToSet(tm'.tlist) = ToSet(tm.tlist) \cup {u}
        /\ \A v \in Timer : v # u => tm'.timeout[v] = tm.timeout[v] /\ due'[v] = due[v]
    BY <1>4, <2>1, StartedGood
  <2>3. TimersTypeOK'
    BY <1>3, <2>1, <2>2 DEF TimersInv, TimersTypeOK, ListGood, TmType, NoCallback
  <2>4. \A v \in Timer : v # u => TimerKept(v)
    BY <1>3, <2>1, <2>2 DEF TimerKept
  <2> QED
    BY <1>3, <1>4, <1>5, <1>6, <2>1, <2>2, <2>3, <2>4, HandlerStep
<1>8. CASE ~Restarts(u)
  <2>1. /\ tm' = tm /\ due' = [due EXCEPT ![u] = 0] /\ active' = active \ {u}
        /\ u \notin ToSet(tm.tlist)
    BY <1>3, <1>4, <1>8 DEF Restarts, InList
  <2>2. due' \in [Timer -> Int] /\ \A v \in Timer : v # u => due'[v] = due[v]
    BY <2>1, InvTypes
  <2>3. \A v \in ToSet(tm.tlist) : due'[v] = due[v]
    BY <2>1, <2>2, InvTypes
  <2>4. ListGood(tm', due')
    BY <2>1, <2>2, <2>3, ListSame DEF TimersInv
  <2>5. TimersTypeOK'
    BY <1>3, <2>1, <2>2 DEF TimersInv, TimersTypeOK, NoCallback
  <2>6. \A v \in Timer : v # u => TimerKept(v)
    BY <1>3, <2>1, <2>2 DEF TimerKept
  <2> QED
    BY <1>3, <1>4, <1>5, <1>6, <2>1, <2>4, <2>5, <2>6, HandlerStep
<1> QED
  BY <1>7, <1>8

\* When rt_timer_check finds the first timer not expired, none is.
LEMMA NoneExpired ==
    ASSUME TimersInv, ~HeadExpired(tm)
    PROVE  \A u \in ToSet(tm.tlist) : due[u] > 0
<1>1. SUFFICES ASSUME NEW u \in ToSet(tm.tlist) PROVE due[u] > 0
  OBVIOUS
<1>2. tm.tlist # << >> /\ ListGood(tm, due) /\ u \in Timer
  BY InvTypes, EmptyList DEF TimersInv
<1>3. PICK h \in Timer : h = Head(tm.tlist) /\ due[h] <= due[u] /\ ~(due[h] <= 0)
  BY <1>2, HeadLeast
<1> QED
  BY <1>2, <1>3, InvTypes

\* rt_timer_check leaves its loop.
LEMMA TickReturnInv ==
    ASSUME TimersInv, TickReturn
    PROVE  TimersInv'
<1>1. /\ cb = NoCallback /\ ~HeadExpired(tm) /\ isr' = FALSE /\ tm' = tm /\ active' = active
      /\ periodic' = periodic /\ period' = period /\ gone' = gone /\ cb' = cb /\ pc' = pc
      /\ due' = due /\ stopped' = stopped
  BY DEF TickReturn, flags
<1>2. \A u \in ToSet(tm.tlist) : due[u] >= 1 - MaxLag
  <2>1. \A u \in ToSet(tm.tlist) : due[u] > 0 /\ due[u] \in Int /\ MaxLag \in Nat
    BY <1>1, NoneExpired, InvTypes
  <2> QED
    BY <2>1
<1>3. TimersTypeOK' /\ ListGood(tm', due')
  BY <1>1 DEF TimersInv, TimersTypeOK
<1>4. Listed' /\ CallsApart' /\ PeriodsGood'
  BY <1>1, <1>2 DEF TimersInv, Listed, CallsApart, PeriodsGood, Busy
<1>5. CallbackGood'
  BY <1>1 DEF CallbackGood, NoCallback
<1>6. \A s \in Thread : CallGood(s)'
  BY <1>1 DEF TimersInv, CallGood, InList
<1> QED
  BY <1>3, <1>4, <1>5, <1>6 DEF TimersInv

\* No timer is initialised at first.
LEMMA TimersInitInv ==
    ASSUME Init
    PROVE  TimersInv
<1>1. /\ tm = [tick |-> 0, tlist |-> << >>, timeout |-> [u \in Timer |-> 0]]
      /\ active = {} /\ periodic = {} /\ period = [u \in Timer |-> 1] /\ gone = Timer
      /\ isr = FALSE /\ cb = [of |-> Null, done |-> FALSE] /\ due = [u \in Timer |-> 0]
      /\ pc = [t \in Thread |-> [at |-> "run", arg |-> Null, saw |-> FALSE]]
      /\ stopped = Timer
  BY DEF Init, NoCallback
<1>2. 0 \in Tick /\ Null \notin Timer
  BY KernelAssumption, TimersAssumption DEF Tick
<1>3. tm \in TmType /\ tm.tlist = << >>
  BY <1>1, <1>2 DEF TmType
<1>4. ToSet(tm.tlist) = {} /\ IsInjective(tm.tlist) /\ Rising(tm.tlist, due)
  BY <1>3 DEF ToSet, IsInjective, Rising
<1>5. TimersTypeOK /\ ListGood(tm, due)
  <2>1. tm \in [tick : Tick, tlist : Seq(Timer), timeout : [Timer -> Tick]]
    BY <1>3 DEF TmType
  <2>2. period \in [Timer -> Nat] /\ due \in [Timer -> Int]
    BY <1>1
  <2>3. /\ active \subseteq Timer /\ periodic \subseteq Timer /\ gone \subseteq Timer
        /\ stopped \subseteq Timer /\ isr \in BOOLEAN
    BY <1>1
  <2>4. cb \in [of : Timer \cup {Null}, done : BOOLEAN]
    BY <1>1
  <2>5. pc \in [Thread -> [at : {"run", "start_tick", "start_link", "stop_remove",
                                "stop_clear", "mode"},
                          arg : Timer \cup {Null}, saw : BOOLEAN]]
    BY <1>1
  <2>6. TimersTypeOK
    BY <2>1, <2>2, <2>3, <2>4, <2>5 DEF TimersTypeOK
  <2>7. ListGood(tm, due)
    BY <1>3, <1>4, <2>2 DEF ListGood
  <2> QED
    BY <2>6, <2>7
<1>6. \A t \in Thread : CallGood(t)
  BY <1>1 DEF CallGood
<1>7. Listed /\ CallsApart /\ CallbackGood /\ PeriodsGood
  BY <1>1, <1>4 DEF Listed, CallsApart, CallbackGood, PeriodsGood, NoCallback
<1> QED
  BY <1>5, <1>6, <1>7 DEF TimersInv

\* Every step keeps the invariant.
LEMMA TimersNextInv ==
    ASSUME "restart" \notin Ops, TimersInv, [Next]_vars
    PROVE  TimersInv'
<1>1. CASE Next
  BY <1>1, TickIncreaseInv, ExpireInv, CallbackStartInv, CallbackStopInv, CallbackReturnsInv,
     TickReturnInv, TimerInitInv, StartInv, StartTickInv, StartLinkInv, StopInv, StopRemoveInv,
     StopClearInv, DetachInv, SetTimeInv, ModeReadInv, ModeWriteInv DEF Next
<1>2. CASE UNCHANGED vars
  BY <1>2 DEF vars, flags, TimersInv, TimersTypeOK, Listed, CallGood, CallsApart, CallbackGood,
              PeriodsGood, InList, Busy
<1> QED
  BY <1>1, <1>2

-----------------------------------------------------------------------------
(* Theorems *)

\* The inductive invariant of timers that are not started by their own one-shot function.
THEOREM TimersInvariance ==
    ASSUME "restart" \notin Ops
    PROVE  Spec => []TimersInv
<1>1. Init => TimersInv
  BY TimersInitInv
<1>2. TimersInv /\ [Next]_vars => TimersInv'
  BY TimersNextInv
<1> QED
  BY <1>1, <1>2, PTL DEF Spec

\* The timer list is exact: rt_timer_start keeps it sorted and every timer in it is as far
\* from its timeout as was asked for, whatever happens in the windows of the calls, at any
\* tick width; and a timer in it is known to be running, so that it can be stopped.
THEOREM TimerListExact ==
    ASSUME "restart" \notin Ops
    PROVE  Spec => []TimersExact
<1>1. TimersInv => TimersExact
  <2> SUFFICES ASSUME TimersInv PROVE TimersExact
    OBVIOUS
  <2>1. TimeKept
    BY DEF TimersInv, ListGood, Due, Near, TimeKept
  <2>2. ListSorted
    BY DEF TimersInv, ListGood, Rising, ListSorted
  <2>3. LinkedIsActive
    BY DEF TimersInv, Listed, LinkedIsActive
  <2> QED
    BY <2>1, <2>2, <2>3 DEF TimersInv, TimersExact
<1> QED
  BY <1>1, TimersInvariance, PTL

\* A timer that rt_timer_stop, or a timeout function, stopped is not in the list until
\* it is started again.
THEOREM StoppedForGood ==
    ASSUME "restart" \notin Ops
    PROVE  Spec => []StoppedStaysStopped
<1>1. TimersInv => StoppedStaysStopped
  BY DEF TimersInv, Listed, StoppedStaysStopped, InList
<1> QED
  BY <1>1, TimersInvariance, PTL

\* rt_timer_check calls a timeout function in the tick in which the time has passed:
\* never before, and when it returns no timer is overdue.
THEOREM TimersExpireOnTime ==
    ASSUME "restart" \notin Ops
    PROVE  Spec => ExpiresOnTime
<1>1. ASSUME TimersInv, [Next]_vars, cb = NoCallback, cb' # NoCallback
      PROVE  due[cb'.of] <= 0
  <2>1. Expire
    BY <1>1 DEF Next, TickIncrease, CallbackStart, CallbackStop, CallbackReturns, TickReturn,
                TimerInit, Start, StartTick, StartLink, Stop, StopRemove, StopClear, Detach,
                SetTime, ModeRead, ModeWrite, vars
  <2>2. HeadExpired(tm) /\ tm.tlist # << >> /\ cb'.of = Head(tm.tlist)
    BY <2>1 DEF Expire, HeadExpired
  <2> QED
    BY <1>1, <2>2, HeadLeast DEF TimersInv
<1>2. ASSUME TimersInv, [Next]_vars, isr, ~isr'
      PROVE  \A u \in ToSet(tm.tlist) : due[u] > 0
  <2>1. TickReturn
    BY <1>2, ZenonT(60)
       DEF Next, TickIncrease, Expire, CallbackStart, CallbackStop, CallbackReturns, TimerInit,
           Start, StartTick, StartLink, Stop, StopRemove, StopClear, Detach, SetTime,
           ModeRead, ModeWrite, Calls, Is, vars
  <2> QED
    BY <1>2, <2>1, NoneExpired DEF TickReturn
<1>3. TimersInv /\ [Next]_vars => [cb = NoCallback /\ cb' # NoCallback => due[cb'.of] <= 0]_vars
  BY <1>1
<1>4. TimersInv /\ [Next]_vars => [isr /\ ~isr' => \A u \in ToSet(tm.tlist) : due[u] > 0]_vars
  BY <1>2
<1>5. Spec => NeverEarly
  BY <1>3, TimersInvariance, PTL DEF Spec, NeverEarly
<1>6. Spec => NoneLeftBehind
  BY <1>4, TimersInvariance, PTL DEF Spec, NoneLeftBehind
<1> QED
  BY <1>5, <1>6 DEF ExpiresOnTime
=============================================================================
