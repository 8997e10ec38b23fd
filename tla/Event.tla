-------------------------------- MODULE Event --------------------------------
(***************************************************************************)
(* The event of ipc.c: a set of bits that threads wait for, all of them    *)
(* (RT_EVENT_FLAG_AND) or one of them (RT_EVENT_FLAG_OR), and that a       *)
(* receiver takes away if it says RT_EVENT_FLAG_CLEAR.  rt_event_send      *)
(* walks along all waiters and decides for each of them whether it is      *)
(* satisfied; a resumed thread does not look again.  A receive with time 0 *)
(* that is not satisfied changes nothing.                                  *)
(***************************************************************************)
EXTENDS Waiting

CONSTANTS
    Bit,        \* the bits of the event set
    Request,    \* what threads ask for: a set of bits, all of them or one, and
                \* whether to clear what is received
    Ev          \* the suspend list of the event

ASSUME EventAssumption ==
    Request \subseteq [set : SUBSET Bit \ {{}}, all : BOOLEAN, clear : BOOLEAN]

VARIABLES
    ev,     \* event->set; and history: owed[b] counts the times bit b was raised
            \* and no receiver that clears it has returned with it
    want    \* thread->event_set and event_info of each thread

event == <<ev, want>>

NoWant == [set |-> {}, all |-> FALSE, clear |-> FALSE]

EvInit ==
    /\ ev = [set |-> {}, owed |-> [b \in Bit |-> 0]]
    /\ want = [t \in Thread |-> NoWant]

\* The event set satisfies a receiver that wants w.
Satisfies(set, w) == IF w.all THEN w.set \subseteq set ELSE w.set \cap set # {}

\* Count the bits in D off, or on.
EvCount(owed, D, n) == [b \in Bit |-> owed[b] + (IF b \in D THEN n ELSE 0)]

-----------------------------------------------------------------------------
(* rt_event_send *)

\* Mutant of one turn of the walk: a receiver of one bit is told all the bits it
\* asked for.
EvOffer_NotNarrowed(r, t) ==
    IF ~Satisfies(r.set, r.want[t]) THEN r ELSE
    [k |-> rt_thread_resume(r.k, t),
     set |-> IF r.want[t].clear THEN r.set \ r.want[t].set ELSE r.set,
     want |-> r.want]

\* One turn of the walk: what waiter t finds satisfied it has received.
EvOffer(r, t) ==
    IF ~Satisfies(r.set, r.want[t]) THEN r ELSE
    LET got == r.want[t].set \cap r.set
    IN  [k |-> rt_thread_resume(r.k, t),
         set |-> IF r.want[t].clear THEN r.set \ got ELSE r.set,
         want |-> [r.want EXCEPT ![t].set = got]]

EvWalk(set) ==
    FoldLeft(EvOffer, [k |-> k, set |-> ev.set \cup set, want |-> want], k.q[Ev])

EvRaise(set, r) ==
    /\ ev' = [set |-> r.set, owed |-> EvCount(ev.owed, set \ ev.set, 1)]
    /\ want' = r.want

EvSend(t, set) ==
    /\ CallsOn(t, "ev_send", Ev)
    /\ LET r == EvWalk(set) IN
        /\ EvRaise(set, r)
        /\ k' = r.k
        /\ IF r.k # k THEN Goto(t, "sched", t) ELSE UNCHANGED pc
    /\ UNCHANGED <<isr, dead, fault, waiting>>

\* rt_event_send in an interrupt handler
EvIsrSend(set) ==
    /\ IsrCalls("ev_isr_send", Ev)
    /\ LET r == EvWalk(set) IN
        /\ EvRaise(set, r)
        /\ k' = IF r.k # k THEN rt_schedule(r.k) ELSE k
    /\ UNCHANGED <<isr, pc, dead, fault, waiting>>

-----------------------------------------------------------------------------
(* rt_event_recv *)

EvRecv(t, w) ==
    /\ CallsOn(t, "ev_recv", Ev) /\ Satisfies(ev.set, w)
    /\ ev' = IF w.clear
             THEN [set |-> ev.set \ w.set, owed |-> EvCount(ev.owed, ev.set \cap w.set, -1)]
             ELSE ev
    /\ UNCHANGED <<kernel, waiting, want>>

EvRecvBlocks(t, w, time) ==
    /\ CallsOn(t, "ev_recv", Ev) /\ ~Satisfies(ev.set, w) /\ time # 0
    /\ want' = [want EXCEPT ![t] = w]
    /\ k' = SuspendSelfOn(k, Ev, Flag[Ev], time)
    /\ Goto(t, "take_sched", Ev)
    /\ UNCHANGED <<isr, dead, fault, waiting, ev>>

\* Back from rt_schedule: the call returns the error, or the bits received.
EvRecvReturns(t) ==
    /\ Is(t, "take_ret") /\ pc[t].arg = Ev
    /\ ev' = IF k.err[t] = "EOK" /\ want[t].clear
             THEN [ev EXCEPT !.owed = EvCount(@, want[t].set, -1)] ELSE ev
    /\ k' = [k EXCEPT !.err[t] = "EOK"]
    /\ want' = [want EXCEPT ![t] = NoWant]
    /\ Goto(t, "run", t)
    /\ UNCHANGED <<isr, dead, fault, waiting>>

-----------------------------------------------------------------------------

\* rt_event_control(RT_IPC_CMD_RESET)
EvReset(t) ==
    /\ CallsOn(t, "ev_reset", Ev)
    /\ k' = ResumeAll(k, Ev)
    /\ ev' = [set |-> {}, owed |-> EvCount(ev.owed, ev.set, -1)]
    /\ Goto(t, "sched", t)
    /\ UNCHANGED <<isr, dead, fault, waiting, want>>

EvStep(producer, consumer) ==
    \/ \E set \in SUBSET Bit \ {{}} : EvIsrSend(set) \/ \E t \in producer : EvSend(t, set)
    \/ \E t \in consumer, w \in Request :
        EvRecv(t, w) \/ \E time \in TimesOf(t) : EvRecvBlocks(t, w, time)
    \/ \E t \in consumer : EvRecvReturns(t)
    \/ \E t \in User : EvReset(t)

-----------------------------------------------------------------------------

\* No thread waits for bits that are there: the walk of rt_event_send along the
\* waiters leaves none behind that the event set satisfies, although it takes
\* bits away on the way and waiters time out, are reset and come back.
NoSatisfiedWaiter == \A t \in ToSet(k.q[Ev]) : ~Satisfies(ev.set, want[t])

\* A bit that was raised is given to one receiver that clears it, and no receiver
\* returns with a bit that it was not given: the bits owed are those still in the
\* set and those that resumed receivers are about to return with.
BitsConserved ==
    \A b \in Bit :
        ev.owed[b] = (IF b \in ev.set THEN 1 ELSE 0)
            + Cardinality({t \in Woken(Ev) : want[t].clear /\ b \in want[t].set})
=============================================================================
