-------------------------------- MODULE Timers --------------------------------
(***************************************************************************)
(* The timers of timer.c as an application uses them: one-shot and         *)
(* periodic timers that threads initialise, start, stop, control and       *)
(* detach, with the windows in which those calls run with interrupts       *)
(* enabled, and the timeout functions that rt_timer_check calls in the     *)
(* tick handler, which start and stop timers too.  Interrupts are disabled *)
(* throughout rt_timer_check.  The threads interleave in any way.          *)
(***************************************************************************)
EXTENDS Kernel

CONSTANTS
    Timer,      \* the timers
    Null,       \* no timer
    Periods,    \* the values of init_tick
    MaxLag,     \* bound on the ticks between computing timeout_tick and linking
                \* the timer
    Ops         \* what the instance lets the application do

ASSUME TimersAssumption ==
    /\ Null \notin Timer /\ MaxLag \in Nat
    /\ Periods \subseteq 1 .. HalfTick - 1
    /\ \A n \in Periods : n + MaxLag < HalfTick

VARIABLES
    tm,         \* rt_tick, rt_timer_list and timeout_tick of each timer
    active,     \* the timers with RT_TIMER_FLAG_ACTIVATED
    periodic,   \* the timers with RT_TIMER_FLAG_PERIODIC
    period,     \* init_tick of each timer
    gone,       \* the timers that are not initialised, or detached
    isr,        \* the tick handler is executing rt_timer_check
    cb,         \* the timer whose timeout function is executing, and whether
                \* that has made its call
    pc,         \* where each thread is in its call, and about which timer
    due,        \* history: the ticks from now to the end of the time a timer was
                \* started with, not less than -HalfTick
    stopped     \* history: the timers that were stopped and not started again

flags == <<active, periodic, period, gone>>
vars == <<tm, flags, isr, cb, pc, due, stopped>>

NoCallback == [of |-> Null, done |-> FALSE]

Init ==
    /\ tm = [tick |-> 0, tlist |-> << >>, timeout |-> [u \in Timer |-> 0]]
    /\ active = {} /\ periodic = {} /\ period = [u \in Timer |-> 1] /\ gone = Timer
    /\ isr = FALSE /\ cb = NoCallback
    /\ pc = [t \in Thread |-> [at |-> "run", arg |-> Null, saw |-> FALSE]]
    /\ due = [u \in Timer |-> 0] /\ stopped = Timer

InList(u) == u \in ToSet(tm.tlist)

Goto(t, at, u) == pc' = [pc EXCEPT ![t] = [at |-> at, arg |-> u, saw |-> FALSE]]
Is(t, at) == ~isr /\ pc[t].at = at

\* The timers that a thread's unfinished call is about: threads and timeout
\* functions keep their calls on one timer apart.
Busy == {pc[t].arg : t \in Thread}

\* Thread t makes a call about timer u.
Calls(t, op, u) == op \in Ops /\ Is(t, "run") /\ u \notin Busy \cup gone

-----------------------------------------------------------------------------
(* Calls by threads *)

TimerInit(t, u, n, p) ==
    /\ Is(t, "run") /\ u \in gone \ Busy
    /\ gone' = gone \ {u}
    /\ active' = active \ {u}
    /\ periodic' = IF p THEN periodic \cup {u} ELSE periodic \ {u}
    /\ period' = [period EXCEPT ![u] = n]
    /\ UNCHANGED <<tm, isr, cb, pc, due, stopped>>

\* Mutant: a timer that runs is not taken from the list first.
Start_KeepLinked(t, u) ==
    /\ Calls(t, "start", u)
    /\ active' = active \ {u} /\ stopped' = stopped \ {u}
    /\ Goto(t, "start_tick", u)
    /\ UNCHANGED <<tm, periodic, period, gone, isr, cb, due>>

\* rt_timer_start: the timer is stopped, ...
Start(t, u) ==
    /\ Calls(t, "start", u)
    /\ tm' = TimerStop(tm, u)
    /\ active' = active \ {u} /\ stopped' = stopped \ {u}
    /\ due' = [due EXCEPT ![u] = 0]
    /\ Goto(t, "start_tick", u)
    /\ UNCHANGED <<periodic, period, gone, isr, cb>>

\* ... its timeout tick computed with interrupts enabled, ...
StartTick(t) ==
    LET u == pc[t].arg IN
    /\ Is(t, "start_tick")
    /\ tm' = [tm EXCEPT !.timeout[u] = (tm.tick + period[u]) % TickMod]
    /\ due' = [due EXCEPT ![u] = period[u]]
    /\ Goto(t, "start_link", u)
    /\ UNCHANGED <<flags, isr, cb, stopped>>

\* ... and it is linked.
StartLink(t) ==
    LET u == pc[t].arg IN
    /\ Is(t, "start_link")
    /\ tm' = [tm EXCEPT !.tlist = InsertAt(@, TimerPosition(tm, tm.timeout[u]), u)]
    /\ active' = active \cup {u}
    /\ Goto(t, "run", Null)
    /\ UNCHANGED <<periodic, period, gone, isr, cb, due, stopped>>

\* rt_timer_stop returns an error if the timer is not activated; ...
Stop(t, u) ==
    /\ Calls(t, "stop", u)
    /\ IF u \in active THEN Goto(t, "stop_remove", u) /\ UNCHANGED stopped
       ELSE stopped' = stopped \cup {u} /\ UNCHANGED pc
    /\ UNCHANGED <<tm, flags, isr, cb, due>>

\* ... otherwise it is taken from the list ...
StopRemove(t) ==
    /\ Is(t, "stop_remove")
    /\ tm' = TimerStop(tm, pc[t].arg)
    /\ due' = [due EXCEPT ![pc[t].arg] = 0]
    /\ Goto(t, "stop_clear", pc[t].arg)
    /\ UNCHANGED <<flags, isr, cb, stopped>>

\* ... and, interrupts enabled again, loses its flag.
StopClear(t) ==
    /\ Is(t, "stop_clear")
    /\ active' = active \ {pc[t].arg} /\ stopped' = stopped \cup {pc[t].arg}
    /\ Goto(t, "run", Null)
    /\ UNCHANGED <<tm, periodic, period, gone, isr, cb, due>>

\* rt_timer_detach and rt_timer_delete leave the flag as it is.
Detach(t, u) ==
    /\ Calls(t, "detach", u)
    /\ tm' = TimerStop(tm, u)
    /\ due' = [due EXCEPT ![u] = 0]
    /\ gone' = gone \cup {u} /\ stopped' = stopped \cup {u}
    /\ UNCHANGED <<active, periodic, period, isr, cb, pc>>

\* rt_timer_control(RT_TIMER_CTRL_SET_TIME)
SetTime(t, u, n) ==
    /\ Calls(t, "control", u)
    /\ period' = [period EXCEPT ![u] = n]
    /\ UNCHANGED <<tm, active, periodic, gone, isr, cb, pc, due, stopped>>

\* rt_timer_control(RT_TIMER_CTRL_SET_PERIODIC, .._SET_ONESHOT) reads the flag
\* word with interrupts enabled, and writes it back with one bit changed.
ModeRead(t, u) ==
    /\ Calls(t, "control", u)
    /\ pc' = [pc EXCEPT ![t] = [at |-> "mode", arg |-> u, saw |-> u \in active]]
    /\ UNCHANGED <<tm, flags, isr, cb, due, stopped>>

ModeWrite(t, p) ==
    LET u == pc[t].arg IN
    /\ Is(t, "mode")
    /\ periodic' = IF p THEN periodic \cup {u} ELSE periodic \ {u}
    /\ active' = IF pc[t].saw THEN active \cup {u} ELSE active \ {u}
    /\ Goto(t, "run", Null)
    /\ UNCHANGED <<tm, period, gone, isr, cb, due, stopped>>

-----------------------------------------------------------------------------
(* The tick handler *)

\* Mutant: the tick count saturates.
NextTick_Saturates(n) == IF n = TickMod - 1 THEN n ELSE n + 1
NextTick(n) == (n + 1) % TickMod

TickIncrease ==
    /\ ~isr /\ isr' = TRUE
    /\ \A t \in Thread : pc[t].at = "start_link" =>
            due[pc[t].arg] > period[pc[t].arg] - MaxLag
    /\ tm' = [tm EXCEPT !.tick = NextTick(@)]
    /\ due' = [u \in Timer |->
                IF /\ due[u] > -HalfTick
                   /\ InList(u) \/ \E t \in Thread : pc[t].at = "start_link" /\ pc[t].arg = u
                THEN due[u] - 1 ELSE due[u]]
    /\ UNCHANGED <<flags, cb, pc, stopped>>

\* rt_timer_check takes an expired timer from the list and calls its function.
Expire ==
    /\ isr /\ cb = NoCallback /\ HeadExpired(tm)
    /\ cb' = [of |-> Head(tm.tlist), done |-> FALSE]
    /\ tm' = TimerStop(tm, Head(tm.tlist))
    /\ UNCHANGED <<flags, isr, pc, due, stopped>>

\* The whole of rt_timer_start, with interrupts disabled
Started(u) ==
    LET s  == TimerStop(tm, u)
        at == (tm.tick + period[u]) % TickMod
    IN  [s EXCEPT !.timeout[u] = at, !.tlist = InsertAt(s.tlist, TimerPosition(s, at), u)]

\* A timeout function calls rt_timer_start.  A one-shot timer is not started in
\* its own function, unless the instance asks for it: it would be linked and lose
\* its flag when the function returns.
CallbackStart(u) ==
    /\ "cb_start" \in Ops /\ cb # NoCallback /\ ~cb.done
    /\ u \notin Busy \cup gone
    /\ u # cb.of \/ u \in periodic \/ "restart" \in Ops
    /\ tm' = Started(u)
    /\ due' = [due EXCEPT ![u] = period[u]]
    /\ active' = active \cup {u} /\ stopped' = stopped \ {u}
    /\ cb' = [cb EXCEPT !.done = TRUE]
    /\ UNCHANGED <<periodic, period, gone, isr, pc>>

\* A timeout function calls rt_timer_stop.
CallbackStop(u) ==
    /\ "cb_stop" \in Ops /\ cb # NoCallback /\ ~cb.done
    /\ u \notin Busy \cup gone
    /\ IF u \in active THEN tm' = TimerStop(tm, u) /\ active' = active \ {u}
       ELSE UNCHANGED <<tm, active>>
    /\ stopped' = stopped \cup {u}
    /\ cb' = [cb EXCEPT !.done = TRUE]
    /\ UNCHANGED <<periodic, period, gone, isr, pc, due>>

\* Mutant: a periodic timer is started again whatever its function did.
Restarts_Always(u) == u \in periodic

\* A periodic timer that is still activated is started again.
Restarts(u) == u \in periodic /\ u \in active

\* The timeout function returns to rt_timer_check.
CallbackReturns ==
    LET u == cb.of IN
    /\ cb # NoCallback /\ cb' = NoCallback
    /\ IF Restarts(u)
       THEN tm' = Started(u) /\ due' = [due EXCEPT ![u] = period[u]] /\ active' = active \cup {u}
       ELSE active' = active \ {u} /\ UNCHANGED tm
            /\ due' = [due EXCEPT ![u] = IF InList(u) THEN @ ELSE 0]
    /\ UNCHANGED <<periodic, period, gone, isr, pc, stopped>>

TickReturn ==
    /\ isr /\ cb = NoCallback /\ ~HeadExpired(tm)
    /\ isr' = FALSE
    /\ UNCHANGED <<tm, flags, cb, pc, due, stopped>>

Next ==
    \/ TickIncrease \/ Expire \/ CallbackReturns \/ TickReturn
    \/ \E u \in Timer : CallbackStart(u) \/ CallbackStop(u)
    \/ \E t \in Thread :
        \/ StartTick(t) \/ StartLink(t) \/ StopRemove(t) \/ StopClear(t)
        \/ \E p \in BOOLEAN : ModeWrite(t, p)
        \/ \E u \in Timer :
            \/ Start(t, u) \/ Stop(t, u) \/ Detach(t, u) \/ ModeRead(t, u)
            \/ \E n \in Periods : SetTime(t, u, n) \/ \E p \in BOOLEAN : TimerInit(t, u, n, p)

Spec == Init /\ [][Next]_vars

\* The tick interrupt keeps coming and its handler returns; a thread that is
\* starting a timer comes to the end of it.
FairSpec ==
    /\ Spec
    /\ WF_isr(~isr /\ isr' = TRUE) /\ WF_isr(isr /\ isr' = FALSE)
    /\ \A t \in Thread : []<>(pc[t].at # "start_link")

-----------------------------------------------------------------------------

\* The fields of the timers, the tick count and the points of the calls have their
\* types; rt_tick stays within its width.
TimersTypeOK ==
    /\ tm \in [tick : Tick, tlist : Seq(Timer), timeout : [Timer -> Tick]]
    /\ active \subseteq Timer /\ periodic \subseteq Timer /\ gone \subseteq Timer
    /\ period \in [Timer -> Nat] /\ due \in [Timer -> Int] /\ stopped \subseteq Timer
    /\ isr \in BOOLEAN /\ cb \in [of : Timer \cup {Null}, done : BOOLEAN]
    /\ pc \in [Thread -> [at : {"run", "start_tick", "start_link", "stop_remove",
                                "stop_clear", "mode"},
                          arg : Timer \cup {Null}, saw : BOOLEAN]]

\* A timer is in the list once, and as far from its timeout tick as is left of
\* the time it was started with, across a wrap of rt_tick, a change of the period
\* and ticks in the window of rt_timer_start.
TimeKept ==
    /\ IsInjective(tm.tlist)
    /\ \A u \in ToSet(tm.tlist) : TickDiff(tm.timeout[u], tm.tick) = due[u] % TickMod

\* The list is sorted by expiry, so that rt_timer_check may stop at the first
\* timer that has not expired.
ListSorted ==
    \A i, j \in 1 .. Len(tm.tlist) : i < j => due[tm.tlist[i]] <= due[tm.tlist[j]]

\* A timer in the list can be stopped: rt_timer_stop believes the flag.
LinkedIsActive ==
    \A u \in ToSet(tm.tlist) : u \in active \/ u \in Busy \/ u = cb.of

\* The timer list is exact: every timer in it once, at its place, as far from its
\* timeout as was asked for, and known to be running.
TimersExact == TimersTypeOK /\ TimeKept /\ ListSorted /\ LinkedIsActive

\* A timer that was stopped is not in the list, although its timeout function may
\* run in the middle of the stop and rt_timer_check starts periodic timers again.
StoppedStaysStopped == \A u \in stopped : ~InList(u)

\* A timeout function is not called early: not before the time has passed that
\* the timer was last started with.
NeverEarly == [][cb = NoCallback /\ cb' # NoCallback => due[cb'.of] <= 0]_vars

\* When the tick handler returns, no timer in the list has expired.
NoneLeftBehind == [][isr /\ ~isr' => \A u \in ToSet(tm.tlist) : due[u] > 0]_vars

\* A timer expires in the tick in which its time has passed, neither early nor late.
ExpiresOnTime == NeverEarly /\ NoneLeftBehind

\* A timer that is started expires: it does not stay in the list for ever, unless
\* the functions of other timers start it again and again.
TimersFire == \A u \in Timer : InList(u) ~> (~InList(u) \/ (cb.done /\ due[u] = period[u]))
=============================================================================
