---------------------------- MODULE MutexProofs ----------------------------
(***************************************************************************)
(* Safety of the mutex for every set of threads and mutexes, every choice  *)
(* of priorities, flags, waiting times, tick width and width of hold.      *)
(***************************************************************************)
EXTENDS Mutex, IpcProofs

\* The owner of a mutex can be given its priority back.
OrigKnown == \A m \in Obj : owner[m] # Nobody => orig[m] \in Prio

\* No thread waits for a mutex that it owns.
NotOwnWaiter == \A m \in Obj : \A t \in Thread : Linked(k, t, m) => owner[m] # t

\* The takes of a thread are within the bound, the one under way included.
HeldBound == \A t \in Thread :
    /\ Len(held[t]) <= MaxHeld
    /\ \A m \in Obj : Taking(t, m) => Len(held[t]) < MaxHeld

MutexTypes ==
    /\ value \in [Obj -> 0 .. 1]
    /\ owner \in [Obj -> Thread \cup {Nobody}]
    /\ hold \in [Obj -> 0 .. HoldMod - 1]
    /\ orig \in [Obj -> Prio \cup {PrioMax}]
    /\ held \in [Thread -> Seq(Obj)]

\* The inductive invariant
MutexInv ==
    /\ IpcInv /\ WaitersClean /\ MutexTypes
    /\ OwnershipAgrees /\ NoLostHandover
    /\ OrigKnown /\ NotOwnWaiter /\ HeldBound

-----------------------------------------------------------------------------
(* The history of the takes                                                *)

LEMMA TakesIs ==
    ASSUME NEW t \in Thread, NEW m
    PROVE  /\ Takes(t, m) = Cardinality(Places(held[t], m))
           /\ Takes(t, m)' = Cardinality(Places(held'[t], m))
BY DEF Takes, Places

\* How often a thread has taken a mutex
LEMMA TakesType ==
    ASSUME MutexTypes, NEW t \in Thread, NEW m
    PROVE  /\ Takes(t, m) \in Nat /\ Takes(t, m) <= Len(held[t])
           /\ Takes(t, m) = 0 <=> m \notin ToSet(held[t])
           /\ Len(held[t]) \in Nat
<1>1. held[t] \in Seq(Obj)
  BY DEF MutexTypes
<1> QED
  BY <1>1, PlacesType, TakesIs

\* A take is recorded.
LEMMA AppendTakes ==
    ASSUME MutexTypes, NEW t \in Thread, NEW m \in Obj,
           held' = [held EXCEPT ![t] = Append(held[t], m)]
    PROVE  /\ held' \in [Thread -> Seq(Obj)]
           /\ \A u \in Thread : \A o \in Obj :
                Takes(u, o)' = IF u = t /\ o = m THEN Takes(u, o) + 1 ELSE Takes(u, o)
           /\ \A u \in Thread \ {t} : held'[u] = held[u]
           /\ Len(held'[t]) = Len(held[t]) + 1
<1>1. held \in [Thread -> Seq(Obj)] /\ held[t] \in Seq(Obj)
  BY DEF MutexTypes
<1>2. /\ held' \in [Thread -> Seq(Obj)] /\ held'[t] = Append(held[t], m)
      /\ \A u \in Thread \ {t} : held'[u] = held[u]
  BY <1>1
<1>3. ASSUME NEW o \in Obj
      PROVE  Takes(t, o)' = IF o = m THEN Takes(t, o) + 1 ELSE Takes(t, o)
  BY <1>1, <1>2, AppendPlaces, TakesIs
<1>4. ASSUME NEW u \in Thread, u # t, NEW o \in Obj
      PROVE  Takes(u, o)' = Takes(u, o)
  BY <1>2, <1>4 DEF Takes
<1>5. Len(held'[t]) = Len(held[t]) + 1
  BY <1>1, <1>2
<1> QED
  BY <1>2, <1>3, <1>4, <1>5

\* A take is given back.
LEMMA DropTakes ==
    ASSUME MutexTypes, NEW t \in Thread, NEW m \in Obj, Takes(t, m) > 0,
           held' = [held EXCEPT ![t] = OneLess(held[t], m)]
    PROVE  /\ held' \in [Thread -> Seq(Obj)]
           /\ \A u \in Thread : \A o \in Obj :
                Takes(u, o)' = IF u = t /\ o = m THEN Takes(u, o) - 1 ELSE Takes(u, o)
           /\ \A u \in Thread \ {t} : held'[u] = held[u]
           /\ Len(held'[t]) = Len(held[t]) - 1
           /\ held[t] # << >>
           /\ Last(held[t]) = m => held'[t] = RemoveAt(held[t], Len(held[t]))
<1>1. held \in [Thread -> Seq(Obj)] /\ held[t] \in Seq(Obj)
  BY DEF MutexTypes
<1>2. m \in ToSet(held[t])
  BY TakesType
<1>3. held[t] # << >>
  BY <1>1, <1>2, EmptyList
<1>4. PICK p \in 1 .. Len(held[t]) :
         held[t][p] = m /\ OneLess(held[t], m) = RemoveAt(held[t], p)
  BY <1>1, <1>2, <1>3, FrontRemoves, RemoveFirstSpec DEF OneLess
<1>5. RemoveAt(held[t], p) \in Seq(Obj) /\ Len(RemoveAt(held[t], p)) = Len(held[t]) - 1
  BY <1>1, RemoveAtSpec
<1>6. /\ held' \in [Thread -> Seq(Obj)] /\ held'[t] = RemoveAt(held[t], p)
      /\ \A u \in Thread \ {t} : held'[u] = held[u]
  BY <1>1, <1>4, <1>5
<1>7. ASSUME NEW o \in Obj
      PROVE  Takes(t, o)' = IF o = m THEN Takes(t, o) - 1 ELSE Takes(t, o)
  BY <1>1, <1>4, <1>6, RemovePlaces, TakesIs
<1>8. ASSUME NEW u \in Thread, u # t, NEW o \in Obj
      PROVE  Takes(u, o)' = Takes(u, o)
  BY <1>6, <1>8 DEF Takes
<1>9. Last(held[t]) = m => held'[t] = RemoveAt(held[t], Len(held[t]))
  BY <1>1, <1>3, FrontRemoves DEF OneLess
<1> QED
  BY <1>3, <1>5, <1>6, <1>7, <1>8, <1>9

-----------------------------------------------------------------------------

\* What thread t has of mutex m, a take that is about to return included
Share(t, m) == Takes(t, m) + (IF HandedOver(t, m) THEN 1 ELSE 0)

\* Ownership in terms of HandedOver
LEMMA OwnershipIs ==
    /\ OwnershipAgrees <=> \A m \in Obj :
        /\ \A t \in Thread : Share(t, m) = IF owner[m] = t THEN hold[m] ELSE 0
        /\ owner[m] = Nobody <=> value[m] = 1
        /\ owner[m] = Nobody <=> hold[m] = 0
    /\ OwnershipAgrees' <=> \A m \in Obj :
        /\ \A t \in Thread : Share(t, m)' = IF owner'[m] = t THEN hold'[m] ELSE 0
        /\ owner'[m] = Nobody <=> value'[m] = 1
        /\ owner'[m] = Nobody <=> hold'[m] = 0
BY DEF OwnershipAgrees, Share, HandedOver, Granted

\* A thread at run has no take under way.
LEMMA RunShare ==
    ASSUME MutexInv, NEW t \in Thread, pc[t].at = "run", NEW m \in Obj
    PROVE  /\ Share(t, m) = Takes(t, m) /\ ~HandedOver(t, m) /\ Takes(t, m) \in Nat
           /\ Takes(t, m) = IF owner[m] = t THEN hold[m] ELSE 0
           /\ Takes(t, m) <= Len(held[t]) /\ Len(held[t]) \in Nat
<1>1. ~HandedOver(t, m)
  BY DEF HandedOver, Taking
<1>2. /\ Takes(t, m) \in Nat /\ Takes(t, m) <= Len(held[t]) /\ Len(held[t]) \in Nat
      /\ Share(t, m) = IF owner[m] = t THEN hold[m] ELSE 0
  BY TakesType, OwnershipIs DEF MutexInv
<1> QED
  BY <1>1, <1>2 DEF Share

\* A change of one mutex m
LEMMA OneMutex ==
    ASSUME MutexInv, NEW m \in Obj,
           \A o \in Obj \ {m} : /\ owner'[o] = owner[o] /\ value'[o] = value[o]
                                /\ hold'[o] = hold[o]
                                /\ \A u \in Thread : Takes(u, o)' = Takes(u, o)
                                /\ \A u \in Thread : HandedOver(u, o)' <=> HandedOver(u, o),
           \A u \in Thread : Share(u, m)' = IF owner'[m] = u THEN hold'[m] ELSE 0,
           owner'[m] = Nobody <=> value'[m] = 1,
           owner'[m] = Nobody <=> hold'[m] = 0
    PROVE  OwnershipAgrees'
<1>1. ASSUME NEW o \in Obj
      PROVE  /\ \A t \in Thread : Share(t, o)' = IF owner'[o] = t THEN hold'[o] ELSE 0
             /\ owner'[o] = Nobody <=> value'[o] = 1
             /\ owner'[o] = Nobody <=> hold'[o] = 0
  <2>1. CASE o = m
    BY <2>1
  <2>2. CASE o # m
    <3>1. \A t \in Thread : Share(t, o)' = Share(t, o)
      BY <2>2 DEF Share
    <3> QED
      BY <2>2, <3>1, OwnershipIs DEF MutexInv
  <2> QED
    BY <2>1, <2>2
<1>2. \A o \in Obj :
        /\ \A t \in Thread : Share(t, o)' = IF owner'[o] = t THEN hold'[o] ELSE 0
        /\ owner'[o] = Nobody <=> value'[o] = 1
        /\ owner'[o] = Nobody <=> hold'[o] = 0
  BY <1>1
<1> QED
  BY <1>2, OwnershipIs

-----------------------------------------------------------------------------
(* The steps, one lemma for each                                           *)

\* A step that adds no waiter to a free mutex and makes none with waiters free
LEMMA NoNewWaiterNoLoss ==
    ASSUME MutexInv, IpcInv', NoNewWaiter(k, k'),
           \A m \in Obj : owner'[m] = Nobody => owner[m] = Nobody \/ k.q[m] = << >>
    PROVE  NoLostHandover'
<1>1. Good(k, {}) /\ Good(k', {})
  <2>1. Good(k, {})
    BY IpcInvGood DEF MutexInv
  <2>2. k' \in Kstate /\ KernelOK(k', {})
    BY DEF IpcInv, IpcTypeOK
  <2> QED
    BY <2>1, <2>2, FlatIff DEF Good
<1>2. \A m \in Obj : k.q[m] = << >> => k'.q[m] = << >>
  BY <1>1, EmptyIff DEF NoNewWaiter
<1> QED
  BY <1>2 DEF MutexInv, NoLostHandover

\* A steady step that leaves the mutexes alone
LEMMA SteadyMutex ==
    ASSUME MutexInv, IpcInv', NoNewWaiter(k, k'), Steady, UNCHANGED <<mutex, held>>
    PROVE  MutexInv'
<1>1. /\ MutexTypes' /\ OrigKnown' /\ WaitersClean'
      /\ owner' = owner /\ hold' = hold /\ value' = value /\ held' = held
  BY DEF MutexInv, MutexTypes, OrigKnown, mutex, Steady
<1>2. NoLostHandover'
  BY <1>1, NoNewWaiterNoLoss
<1>3. NotOwnWaiter'
  BY <1>1 DEF MutexInv, NotOwnWaiter, NoNewWaiter
<1>4. HeldBound'
  BY <1>1 DEF MutexInv, HeldBound, Steady, SameTaking
<1>5. OwnershipAgrees'
  <2>1. \A m \in Obj : \A t \in Thread : Share(t, m)' = Share(t, m)
    <3>1. \A m \in Obj : \A t \in Thread : Takes(t, m)' = Takes(t, m)
      BY <1>1 DEF Takes
    <3> QED
      BY <3>1 DEF Share, Steady
  <2> QED
    BY <1>1, <2>1, OwnershipIs DEF MutexInv
<1> QED
  BY <1>1, <1>2, <1>3, <1>4, <1>5 DEF MutexInv

\* The caller's error is set, and nothing else in the kernel.
LEMMA ErrorStep ==
    ASSUME IpcInv, NEW t \in Thread, k.cur = t, pc[t].at = "run", NEW e \in Error,
           k' = SetError(t, e), UNCHANGED <<isr, pc, dead, fault>>
    PROVE  /\ IpcInv' /\ Steady /\ NoNewWaiter(k, k')
           /\ k'.q = k.q /\ k'.prio = k.prio /\ k'.stat = k.stat
           /\ \A o \in Obj : ~Linked(k, t, o)
<1>1. /\ Good(k, {}) /\ isr \in Isr /\ dead \subseteq Obj /\ fault \in BOOLEAN
      /\ k' = SetErr(k, t, e)
  BY IpcInvGood DEF SetError, SetErr
<1>2. k.stat[t] = "RUNNING"
  BY Runs
<1>3. /\ Good(k', {})
      /\ k'.cur = k.cur /\ k'.stat = k.stat /\ k'.prio = k.prio /\ k'.q = k.q
      /\ k'.lock = k.lock
  BY <1>1, SetErrGood
<1>4. SameWaiters(k, k')
  BY <1>3 DEF SameWaiters, Linked
<1>5. IpcInv' /\ NoNewWaiter(k, k')
  BY <1>1, <1>2, <1>3, <1>4, SamePc
<1>6. SameTaking /\ \A o \in Obj : ~Taking(t, o)
  BY DEF SameTaking, Taking
<1>7. Steady
  BY <1>1, <1>2, <1>6, SetErrSteady
<1>8. \A o \in Obj : ~Linked(k, t, o)
  BY <1>2, IpcInvGood
<1> QED
  BY <1>3, <1>5, <1>7, <1>8

\* A free mutex is taken.
LEMMA TakeAvailableInv ==
    ASSUME MutexInv, MaxHeld < HoldMod, NEW t \in User, NEW m \in Obj, TakeAvailable(t, m)
    PROVE  MutexInv'
<1>1. /\ k.cur = t /\ pc[t].at = "run" /\ Len(held[t]) < MaxHeld /\ value[m] > 0
      /\ value' = [value EXCEPT ![m] = value[m] - 1]
      /\ owner' = [owner EXCEPT ![m] = t]
      /\ orig' = [orig EXCEPT ![m] = k.prio[t]]
      /\ hold' = [hold EXCEPT ![m] = (hold[m] + 1) % HoldMod]
      /\ k' = SetError(t, "EOK")
      /\ held' = [held EXCEPT ![t] = Append(held[t], m)]
      /\ UNCHANGED <<isr, pc, dead, fault>> /\ t \in Thread
  BY DEF TakeAvailable, CallsOn, Calls, Is, GiveTo, User
<1>2. /\ IpcInv /\ MutexTypes /\ HoldMod \in Nat \ {0} /\ MaxHeld \in Nat
      /\ Nobody \notin Thread /\ "EOK" \in Error
  BY MutexAssumption DEF MutexInv, Error
<1>3. /\ IpcInv' /\ Steady /\ NoNewWaiter(k, k')
      /\ k'.q = k.q /\ \A o \in Obj : ~Linked(k, t, o)
  BY <1>1, <1>2, ErrorStep
<1>4. value[m] = 1 /\ owner[m] = Nobody /\ hold[m] = 0
  BY <1>1, <1>2 DEF MutexInv, OwnershipAgrees, MutexTypes
<1>5. Len(held[t]) \in Nat
  BY <1>1, <1>2, TakesType
<1>6. HoldMod > 1
  BY <1>1, <1>2, <1>5
<1>7. (hold[m] + 1) % HoldMod = 1
  BY <1>2, <1>4, <1>6
<1>8. k.prio[t] \in Prio
  BY <1>1, IpcInvGood DEF MutexInv, Good, Kstate
<1>9. /\ held' \in [Thread -> Seq(Obj)]
      /\ \A u \in Thread : \A o \in Obj :
            Takes(u, o)' = IF u = t /\ o = m THEN Takes(u, o) + 1 ELSE Takes(u, o)
      /\ \A u \in Thread \ {t} : held'[u] = held[u]
      /\ Len(held'[t]) = Len(held[t]) + 1
  BY <1>1, <1>2, AppendTakes, ZenonT(60)
<1>10. /\ value'[m] = 0 /\ owner'[m] = t /\ hold'[m] = 1
       /\ \A o \in Obj \ {m} : /\ owner'[o] = owner[o] /\ value'[o] = value[o]
                               /\ hold'[o] = hold[o] /\ orig'[o] = orig[o]
       /\ orig'[m] = k.prio[t]
  BY <1>1, <1>2, <1>4, <1>7 DEF MutexTypes
<1>11. MutexTypes'
  <2>1. 0 \in 0 .. 1 /\ 1 \in 0 .. HoldMod - 1
    BY <1>2, <1>6
  <2> QED
    BY <1>1, <1>2, <1>4, <1>7, <1>8, <1>9, <2>1 DEF MutexTypes
<1>12. \A u \in Thread : Share(u, m)' = IF owner'[m] = u THEN hold'[m] ELSE 0
  <2> SUFFICES ASSUME NEW u \in Thread
               PROVE  Share(u, m)' = IF owner'[m] = u THEN hold'[m] ELSE 0
    OBVIOUS
  <2>1. Share(u, m) = 0 /\ Takes(u, m) \in Nat
    BY <1>2, <1>4, TakesType, OwnershipIs DEF MutexInv
  <2>2. Takes(u, m) = 0 /\ ~HandedOver(u, m) /\ ~HandedOver(u, m)'
    BY <1>3, <2>1 DEF Share, Steady
  <2> QED
    BY <1>9, <1>10, <2>2 DEF Share
<1>13. OwnershipAgrees'
  <2>1. owner'[m] # Nobody /\ value'[m] # 1 /\ hold'[m] # 0
    BY <1>1, <1>2, <1>10
  <2> QED
    BY <1>3, <1>9, <1>10, <1>12, <2>1, OneMutex DEF Steady
<1>14. NoLostHandover'
  BY <1>1, <1>2, <1>3, <1>10, NoNewWaiterNoLoss
<1>15. OrigKnown'
  BY <1>8, <1>10 DEF MutexInv, OrigKnown
<1>16. NotOwnWaiter'
  BY <1>3, <1>10 DEF MutexInv, NotOwnWaiter, Linked
<1>17. HeldBound'
  <2>1. Len(held[t]) + 1 <= MaxHeld
    BY <1>1, <1>2, <1>5
  <2>2. \A o \in Obj : ~Taking(t, o)
    BY <1>1 DEF Taking
  <2> QED
    BY <1>3, <1>9, <2>1, <2>2 DEF MutexInv, HeldBound, Steady, SameTaking
<1>18. WaitersClean'
  BY <1>3 DEF Steady, MutexInv
<1> QED
  BY <1>3, <1>11, <1>13, <1>14, <1>15, <1>16, <1>17, <1>18 DEF MutexInv

\* The owner takes its mutex again.
LEMMA TakeAgainInv ==
    ASSUME MutexInv, MaxHeld < HoldMod, NEW t \in User, NEW m \in Obj, TakeAgain(t, m)
    PROVE  MutexInv'
<1>1. /\ k.cur = t /\ pc[t].at = "run" /\ Len(held[t]) < MaxHeld /\ owner[m] = t
      /\ hold' = [hold EXCEPT ![m] = (hold[m] + 1) % HoldMod]
      /\ k' = SetError(t, "EOK")
      /\ held' = [held EXCEPT ![t] = Append(held[t], m)]
      /\ UNCHANGED <<isr, pc, dead, fault, value, owner, orig>> /\ t \in Thread
  BY DEF TakeAgain, CallsOn, Calls, Is, User
<1>2. /\ IpcInv /\ MutexTypes /\ HoldMod \in Nat \ {0} /\ MaxHeld \in Nat
      /\ Nobody \notin Thread /\ "EOK" \in Error
  BY MutexAssumption DEF MutexInv, Error
<1>3. IpcInv' /\ Steady /\ NoNewWaiter(k, k') /\ k'.q = k.q
  BY <1>1, <1>2, ErrorStep
<1>4. /\ Takes(t, m) = hold[m] /\ hold[m] \in Nat
      /\ Takes(t, m) <= Len(held[t]) /\ Len(held[t]) \in Nat
      /\ ~HandedOver(t, m)
  BY <1>1, RunShare
<1>5. hold[m] + 1 <= MaxHeld /\ hold[m] + 1 < HoldMod
  BY <1>1, <1>2, <1>4
<1>6. hold[m] + 1 \in 0 .. HoldMod - 1
  BY <1>2, <1>4, <1>5
<1>7. (hold[m] + 1) % HoldMod = hold[m] + 1
  BY <1>2, <1>6, SmallMod
<1>8. /\ held' \in [Thread -> Seq(Obj)]
      /\ \A u \in Thread : \A o \in Obj :
            Takes(u, o)' = IF u = t /\ o = m THEN Takes(u, o) + 1 ELSE Takes(u, o)
      /\ \A u \in Thread \ {t} : held'[u] = held[u]
      /\ Len(held'[t]) = Len(held[t]) + 1
  BY <1>1, <1>2, AppendTakes
<1>9. hold'[m] = hold[m] + 1 /\ \A o \in Obj \ {m} : hold'[o] = hold[o]
  BY <1>1, <1>2, <1>7 DEF MutexTypes
<1>10. MutexTypes'
  BY <1>1, <1>2, <1>6, <1>7, <1>8 DEF MutexTypes
<1>11. \A u \in Thread : Share(u, m)' = IF owner'[m] = u THEN hold'[m] ELSE 0
  <2> SUFFICES ASSUME NEW u \in Thread
               PROVE  Share(u, m)' = IF owner'[m] = u THEN hold'[m] ELSE 0
    OBVIOUS
  <2>1. CASE u = t
    <3>1. Takes(t, m)' = hold[m] + 1 /\ ~HandedOver(t, m)'
      BY <1>1, <1>3, <1>4, <1>8 DEF Steady
    <3> QED
      BY <1>1, <1>4, <1>9, <2>1, <3>1 DEF Share
  <2>2. CASE u # t
    <3>1. Share(u, m)' = Share(u, m)
      BY <1>3, <1>8, <2>2 DEF Share, Steady
    <3> QED
      BY <1>1, <2>2, <3>1, OwnershipIs DEF MutexInv
  <2> QED
    BY <2>1, <2>2
<1>12. OwnershipAgrees'
  <2>1. owner[m] # Nobody /\ value[m] # 1 /\ hold'[m] # 0
    BY <1>1, <1>2, <1>4, <1>9 DEF MutexInv, OwnershipAgrees
  <2> QED
    BY <1>1, <1>3, <1>8, <1>9, <1>11, <2>1, OneMutex DEF Steady
<1>13. NoLostHandover'
  BY <1>1, <1>3, NoNewWaiterNoLoss
<1>14. OrigKnown'
  BY <1>1 DEF MutexInv, OrigKnown
<1>15. NotOwnWaiter'
  BY <1>1, <1>3 DEF MutexInv, NotOwnWaiter, Linked
<1>16. HeldBound'
  <2>1. Len(held[t]) + 1 <= MaxHeld
    BY <1>1, <1>2, <1>4
  <2>2. \A o \in Obj : ~Taking(t, o)
    BY <1>1 DEF Taking
  <2> QED
    BY <1>3, <1>8, <2>1, <2>2 DEF MutexInv, HeldBound, Steady, SameTaking
<1>17. WaitersClean'
  BY <1>3 DEF Steady, MutexInv
<1> QED
  BY <1>3, <1>10, <1>12, <1>13, <1>14, <1>15, <1>16, <1>17 DEF MutexInv

\* rt_mutex_take without waiting, and rt_mutex_release by a thread that is not
\* the owner, change nothing but the caller's error.
LEMMA RefusedInv ==
    ASSUME MutexInv, NEW t \in User, NEW m \in Obj, TakeFails(t, m) \/ ReleaseRefused(t, m)
    PROVE  MutexInv'
<1>1. PICK e \in Error :
        /\ k.cur = t /\ pc[t].at = "run" /\ k' = SetError(t, e)
        /\ UNCHANGED <<isr, pc, dead, fault, mutex, held>> /\ t \in Thread
  BY DEF TakeFails, ReleaseRefused, CallsOn, Calls, Is, User, Error
<1>2. IpcInv
  BY DEF MutexInv
<1>3. IpcInv' /\ Steady /\ NoNewWaiter(k, k')
  BY <1>1, <1>2, ErrorStep
<1> QED
  BY <1>1, <1>3, SteadyMutex

\* The owner gives one of several takes back.
LEMMA ReleaseInnerInv ==
    ASSUME MutexInv, NEW t \in User, NEW m \in Obj, ReleaseInner(t, m)
    PROVE  MutexInv'
<1>1. /\ k.cur = t /\ pc[t].at = "run" /\ owner[m] = t /\ hold[m] # 1
      /\ hold' = [hold EXCEPT ![m] = (hold[m] - 1) % HoldMod]
      /\ held' = [held EXCEPT ![t] = OneLess(held[t], m)]
      /\ UNCHANGED <<k, isr, pc, dead, fault, value, owner, orig>> /\ t \in Thread
  BY DEF ReleaseInner, CallsOn, Calls, Is, User
<1>2. /\ IpcInv /\ MutexTypes /\ HoldMod \in Nat \ {0} /\ MaxHeld \in Nat
      /\ Nobody \notin Thread
  BY MutexAssumption DEF MutexInv
<1>3. Steady /\ NoNewWaiter(k, k') /\ IpcInv'
  BY <1>1, <1>2, SameStateSteady
     DEF NoNewWaiter, IpcInv, LockHeld, InReset, WaitersListed, Taking
<1>4. /\ Takes(t, m) = hold[m] /\ hold[m] \in 0 .. HoldMod - 1
      /\ Takes(t, m) <= Len(held[t]) /\ Len(held[t]) \in Nat
      /\ ~HandedOver(t, m) /\ hold[m] # 0
  BY <1>1, <1>2, RunShare DEF MutexInv, OwnershipAgrees, MutexTypes
<1>5. Takes(t, m) > 0 /\ hold[m] - 1 \in 0 .. HoldMod - 1 /\ hold[m] - 1 # 0
  BY <1>1, <1>2, <1>4
<1>6. (hold[m] - 1) % HoldMod = hold[m] - 1
  BY <1>2, <1>5, SmallMod
<1>7. /\ held' \in [Thread -> Seq(Obj)]
      /\ \A u \in Thread : \A o \in Obj :
            Takes(u, o)' = IF u = t /\ o = m THEN Takes(u, o) - 1 ELSE Takes(u, o)
      /\ \A u \in Thread \ {t} : held'[u] = held[u]
      /\ Len(held'[t]) = Len(held[t]) - 1
  BY <1>1, <1>2, <1>5, DropTakes
<1>8. hold'[m] = hold[m] - 1 /\ \A o \in Obj \ {m} : hold'[o] = hold[o]
  BY <1>1, <1>2, <1>6 DEF MutexTypes
<1>9. MutexTypes'
  BY <1>1, <1>2, <1>5, <1>6, <1>7 DEF MutexTypes
<1>10. \A u \in Thread : Share(u, m)' = IF owner'[m] = u THEN hold'[m] ELSE 0
  <2> SUFFICES ASSUME NEW u \in Thread
               PROVE  Share(u, m)' = IF owner'[m] = u THEN hold'[m] ELSE 0
    OBVIOUS
  <2>1. CASE u = t
    <3>1. Takes(t, m)' = hold[m] - 1 /\ ~HandedOver(t, m)'
      BY <1>1, <1>3, <1>4, <1>7 DEF Steady
    <3> QED
      BY <1>1, <1>4, <1>8, <2>1, <3>1 DEF Share
  <2>2. CASE u # t
    <3>1. Share(u, m)' = Share(u, m)
      BY <1>3, <1>7, <2>2 DEF Share, Steady
    <3> QED
      BY <1>1, <2>2, <3>1, OwnershipIs DEF MutexInv
  <2> QED
    BY <2>1, <2>2
<1>11. OwnershipAgrees'
  <2>1. owner[m] # Nobody /\ value[m] # 1 /\ hold'[m] # 0
    BY <1>1, <1>2, <1>5, <1>8 DEF MutexInv, OwnershipAgrees
  <2> QED
    BY <1>1, <1>3, <1>7, <1>8, <1>10, <2>1, OneMutex DEF Steady
<1>12. NoLostHandover' /\ OrigKnown' /\ NotOwnWaiter'
  BY <1>1 DEF MutexInv, NoLostHandover, OrigKnown, NotOwnWaiter
<1>13. HeldBound'
  <2>1. Len(held[t]) - 1 < Len(held[t])
    BY <1>4
  <2>2. \A o \in Obj : ~Taking(t, o)
    BY <1>1 DEF Taking
  <2>3. Len(held'[t]) <= MaxHeld
    BY <1>1, <1>2, <1>4, <1>7 DEF MutexInv, HeldBound
  <2> QED
    BY <1>3, <1>7, <2>2, <2>3 DEF MutexInv, HeldBound, Steady, SameTaking
<1>14. WaitersClean'
  BY <1>3 DEF Steady, MutexInv
<1> QED
  BY <1>3, <1>9, <1>11, <1>12, <1>13, <1>14 DEF MutexInv

-----------------------------------------------------------------------------
(* Priorities                                                              *)

\* What a change of priority leaves alone.
OnlyPriority(x, n) ==
    /\ Good(n, {}) /\ SameWaiters(x, n)
    /\ \A u \in Thread : n.stat[u] = x.stat[u]
    /\ n.cur = x.cur /\ n.lock = x.lock /\ n.err = x.err
    /\ \A u \in Thread : Armed(n, u) => Armed(x, u)
    /\ OrderKept(x, n)

LEMMA OnlyPriorityChange ==
    ASSUME NEW x, Good(x, {}), NEW t \in Thread, NEW p \in Prio,
           NEW n, n = ChangePriority(x, t, p)
    PROVE  /\ OnlyPriority(x, n)
           /\ \A u \in Thread : n.prio[u] = IF u = t THEN p ELSE x.prio[u]
           /\ x.stat[t] = "RUNNING" => n.q = x.q
<1>1. PICK v : v = rt_schedule_remove_thread(x, t)
  OBVIOUS
<1>2. PICK w : w = SetPrio(v, t, p)
  OBVIOUS
<1>3. /\ Good(n, {}) /\ SameWaiters(x, n)
      /\ \A u \in Thread : n.stat[u] = x.stat[u]
      /\ n.cur = x.cur /\ n.lock = x.lock
  BY <1>1, <1>2, ChangePriorityGood
<1>4. /\ n.prio = [x.prio EXCEPT ![t] = p] /\ n.err = x.err
      /\ OrderKept(x, n)
      /\ \A u \in Thread : Armed(n, u) => Armed(x, u)
  BY ChangePriorityFrame
<1>5. x.prio \in [Thread -> Prio] /\ x \in Kstate
  BY DEF Good, Kstate
<1>6. x.stat[t] = "RUNNING" => n.q = x.q
  BY <1>5 DEF ChangePriority, Kstate
<1> QED
  BY <1>3, <1>4, <1>5, <1>6 DEF OnlyPriority

LEMMA OnlyPriorityRefl ==
    ASSUME NEW x, Good(x, {})
    PROVE  OnlyPriority(x, x)
BY SameListsOrder DEF OnlyPriority, SameWaiters

\* The owner of mutex m is lent the priority of thread t, if that is more urgent.
LEMMA LendFrame ==
    ASSUME IpcInv, NEW t \in Thread, NEW m \in Obj, owner[m] \in Thread,
           NEW n, n = LendPriority(m, t)
    PROVE  /\ OnlyPriority(k, n)
           /\ \A u \in Thread \ {owner[m]} : n.prio[u] = k.prio[u]
           /\ n.prio[owner[m]] <= k.prio[t] /\ n.prio[owner[m]] <= k.prio[owner[m]]
<1>1. Good(k, {}) /\ k.prio \in [Thread -> Prio] /\ Prio \subseteq Int
  BY IpcInvGood, KernelAssumption DEF Good, Kstate, Prio
<1>2. PICK u0 \in Thread : u0 = owner[m]
  OBVIOUS
<1>3. PICK p \in Prio : p = k.prio[t]
  BY <1>1
<1>4. p \in Int /\ k.prio[u0] \in Int
  BY <1>1
<1>5. CASE p < k.prio[u0]
  <2>1. n = ChangePriority(k, u0, p)
    BY <1>2, <1>3, <1>5 DEF LendPriority
  <2>2. /\ OnlyPriority(k, n)
        /\ \A u \in Thread : n.prio[u] = IF u = u0 THEN p ELSE k.prio[u]
    BY <1>1, <2>1, OnlyPriorityChange
  <2>3. n.prio[u0] = p /\ \A u \in Thread \ {u0} : n.prio[u] = k.prio[u]
    BY <2>2
  <2>4. n.prio[u0] <= p /\ n.prio[u0] <= k.prio[u0]
    BY <1>4, <1>5, <2>3
  <2> QED
    BY <1>2, <1>3, <2>2, <2>3, <2>4
<1>6. CASE ~(p < k.prio[u0])
  <2>1. n = k
    BY <1>2, <1>3, <1>6 DEF LendPriority
  <2>2. k.prio[u0] <= p /\ k.prio[u0] <= k.prio[u0]
    BY <1>4, <1>6
  <2> QED
    BY <1>1, <1>2, <1>3, <2>1, <2>2, OnlyPriorityRefl
<1> QED
  BY <1>5, <1>6

\* The running owner of mutex m gets its priority back.
LEMMA BackFrame ==
    ASSUME IpcInv, NEW t \in Thread, k.stat[t] = "RUNNING", NEW m \in Obj, orig[m] \in Prio,
           NEW n, n = PriorityBack(m, t)
    PROVE  /\ OnlyPriority(k, n) /\ n.q = k.q
           /\ \A u \in Thread : n.prio[u] = IF u = t THEN orig[m] ELSE k.prio[u]
<1>1. Good(k, {})
  BY IpcInvGood
<1>2. CASE orig[m] # k.prio[t]
  BY <1>1, <1>2, OnlyPriorityChange DEF PriorityBack
<1>3. CASE orig[m] = k.prio[t]
  BY <1>1, <1>3, OnlyPriorityRefl DEF PriorityBack
<1> QED
  BY <1>2, <1>3

\* The mutex is not available and the caller waits.
LEMMA TakeBlocksFrame ==
    ASSUME MutexInv, NEW t \in User, NEW m \in Obj, NEW time \in Times,
           TakeBlocks(t, m, time), NEW n, n = LendPriority(m, t)
    PROVE  /\ IpcInv'
           /\ \A u \in Thread : \A o \in Obj : HandedOver(u, o)' <=> HandedOver(u, o)
           /\ WaitersClean'
           /\ (\A o \in Obj : Flag[o] = "PRIO" => Sorted(n, o)) => MostUrgentFirst'
           /\ k'.prio = n.prio
           /\ \A u \in Thread : \A o \in Obj :
                Linked(k', u, o) <=> Linked(k, u, o) \/ (u = t /\ o = m)
           /\ owner[m] \in Thread /\ owner[m] # t
           /\ \A o \in Obj : ~Linked(k, t, o)
           /\ OnlyPriority(k, n)
           /\ \A u \in Thread : Armed(k', u) => Armed(k, u) \/ u = t
<1>1. /\ k.cur = t /\ pc[t].at = "run" /\ Goto(t, "take_sched", m)
      /\ k' = SuspendSelfOn(n, m, Flag[m], time) /\ UNCHANGED <<isr, dead, fault>>
      /\ owner[m] # t /\ value[m] = 0 /\ t \in Thread
  BY DEF TakeBlocks, CallsOn, Calls, Is, User
<1>2. IpcInv /\ WaitersClean /\ owner[m] \in Thread
  BY <1>1 DEF MutexInv, OwnershipAgrees, MutexTypes
<1>3. OnlyPriority(k, n)
  BY <1>1, <1>2, LendFrame
<1>4. /\ Good(n, {}) /\ SameWaiters(k, n)
      /\ \A u \in Thread : n.stat[u] = k.stat[u]
      /\ n.cur = k.cur /\ n.lock = k.lock /\ n.err = k.err
      /\ \A u \in Thread : Armed(n, u) => Armed(k, u)
  BY <1>3 DEF OnlyPriority
<1>5. /\ IpcInv'
      /\ \A u \in Thread : \A o \in Obj : HandedOver(u, o)' <=> HandedOver(u, o)
      /\ WaitersClean => WaitersClean'
      /\ (\A o \in Obj : Flag[o] = "PRIO" => Sorted(n, o)) => MostUrgentFirst'
      /\ k'.prio = n.prio /\ k'.cur = k.cur
      /\ \A u \in Thread : \A o \in Obj :
            Linked(k', u, o) <=> Linked(k, u, o) \/ (u = t /\ o = m)
      /\ \A o \in Obj : ~Linked(k, t, o)
      /\ \A u \in Thread : Armed(k', u) => Armed(k, u) \/ u = t
  BY <1>1, <1>2, <1>4, BlocksFrame
<1> QED
  BY <1>1, <1>2, <1>3, <1>5

LEMMA TakeBlocksInv ==
    ASSUME MutexInv, NEW t \in User, NEW m \in Obj, NEW time \in Times, TakeBlocks(t, m, time)
    PROVE  MutexInv'
<1>0. PICK n : n = LendPriority(m, t)
  OBVIOUS
<1>1. /\ IpcInv'
      /\ \A u \in Thread : \A o \in Obj : HandedOver(u, o)' <=> HandedOver(u, o)
      /\ WaitersClean'
      /\ \A u \in Thread : \A o \in Obj :
            Linked(k', u, o) <=> Linked(k, u, o) \/ (u = t /\ o = m)
      /\ owner[m] \in Thread /\ owner[m] # t
  BY <1>0, TakeBlocksFrame
<1>2. /\ Len(held[t]) < MaxHeld /\ Goto(t, "take_sched", m) /\ t \in Thread
      /\ value' = value /\ owner' = owner /\ hold' = hold /\ orig' = orig /\ held' = held
  BY DEF TakeBlocks, User, mutex
<1>3. MutexTypes' /\ OrigKnown'
  BY <1>2 DEF MutexInv, MutexTypes, OrigKnown
<1>4. OwnershipAgrees'
  <2>1. \A u \in Thread : \A o \in Obj : Takes(u, o)' = Takes(u, o)
    BY <1>2 DEF Takes
  <2>2. \A u \in Thread : \A o \in Obj : Share(u, o)' = Share(u, o)
    BY <1>1, <2>1 DEF Share
  <2> QED
    BY <1>2, <2>2, OwnershipIs DEF MutexInv
<1>5. NoLostHandover'
  <2>1. Good(k, {}) /\ Good(k', {})
    <3>1. k' \in Kstate /\ KernelOK(k', {})
      BY <1>1 DEF IpcInv, IpcTypeOK
    <3> QED
      BY <3>1, IpcInvGood, FlatIff DEF Good, MutexInv
  <2>2. ASSUME NEW o \in Obj, owner[o] = Nobody
        PROVE  k'.q[o] = << >>
    <3>1. o # m /\ k.q[o] = << >>
      BY <1>1, <2>2, MutexAssumption DEF MutexInv, NoLostHandover
    <3> QED
      BY <1>1, <2>1, <3>1, EmptyIff
  <2> QED
    BY <1>2, <2>2 DEF NoLostHandover
<1>6. NotOwnWaiter'
  BY <1>1, <1>2 DEF MutexInv, NotOwnWaiter
<1>7. HeldBound'
  <2>1. \A u \in Thread \ {t} : pc'[u] = pc[u]
    BY <1>2, GotoPc DEF MutexInv
  <2>2. \A u \in Thread \ {t} : \A o \in Obj : Taking(u, o)' <=> Taking(u, o)
    BY <2>1 DEF Taking
  <2> QED
    BY <1>2, <2>2 DEF MutexInv, HeldBound
<1> QED
  BY <1>1, <1>3, <1>4, <1>5, <1>6, <1>7 DEF MutexInv

\* rt_mutex_take returns.
LEMMA TakeReturnsInv ==
    ASSUME MutexInv, PlainPc, NEW t \in Thread, TakeReturns(t)
    PROVE  MutexInv'
<1>0. PICK m : m = pc[t].arg
  OBVIOUS
<1>1. /\ k.cur = t /\ pc[t].at = "take_ret" /\ k' = k /\ Goto(t, "run", t)
      /\ held' = IF k.err[t] = "EOK" THEN [held EXCEPT ![t] = Append(held[t], m)] ELSE held
      /\ UNCHANGED <<isr, dead, fault>>
      /\ value' = value /\ owner' = owner /\ hold' = hold /\ orig' = orig
  BY <1>0 DEF TakeReturns, Is, mutex
<1>2. /\ IpcInv /\ MutexTypes /\ m \in Obj /\ Taking(t, m) /\ MaxHeld \in Nat
  BY <1>0, <1>1, MutexAssumption DEF MutexInv, PlainPc, Taking
<1>3. /\ \A u \in Thread : \A o \in Obj : HandedOver(u, o)' <=> HandedOver(u, o) /\ u # t
      /\ \A o \in Obj : HandedOver(t, o) <=> o = m /\ k.err[t] = "EOK"
      /\ WaitersClean'
  BY <1>0, <1>1, <1>2, TakeReturnsFrame DEF MutexInv
<1>4. IpcInv' /\ NoNewWaiter(k, k')
  <2>1. k.stat[t] = "RUNNING"
    BY <1>1, <1>2, Runs
  <2>2. "run" \in PcPoint /\ ArgIsObject([at |-> "run", arg |-> t])
    BY DEF PcPoint, ArgIsObject
  <2>3. k'.stat[t] # "SUSPEND" /\ k'.stat[k'.cur] = "RUNNING"
    BY <1>1, <2>1
  <2>4. SameWaiters(k, k') /\ k'.lock = k.lock /\ Good(k', {})
    BY <1>1, <1>2, SameKernel
  <2>5. isr' \in Isr /\ dead' \subseteq Obj /\ fault' \in BOOLEAN
    BY <1>1, <1>2, IpcInvGood
  <2> QED
    BY <1>1, <1>2, <2>2, <2>3, <2>4, <2>5, MovesPc
<1>5. /\ pc'[t].at = "run" /\ \A u \in Thread \ {t} : pc'[u] = pc[u]
  BY <1>1, <1>2, GotoPc
<1>6. Len(held[t]) < MaxHeld /\ Len(held[t]) \in Nat
  BY <1>2, TakesType DEF MutexInv, HeldBound
<1>7. /\ held' \in [Thread -> Seq(Obj)]
      /\ \A u \in Thread \ {t} : held'[u] = held[u]
      /\ Len(held'[t]) <= MaxHeld
      /\ \A u \in Thread : \A o \in Obj : Share(u, o)' = Share(u, o)
  <2>1. CASE k.err[t] = "EOK"
    <3>1. /\ held' \in [Thread -> Seq(Obj)]
          /\ \A u \in Thread : \A o \in Obj :
                Takes(u, o)' = IF u = t /\ o = m THEN Takes(u, o) + 1 ELSE Takes(u, o)
          /\ \A u \in Thread \ {t} : held'[u] = held[u]
          /\ Len(held'[t]) = Len(held[t]) + 1
      BY <1>1, <1>2, <2>1, AppendTakes
    <3>2. Len(held'[t]) <= MaxHeld
      BY <1>2, <1>6, <3>1
    <3>3. ASSUME NEW u \in Thread, NEW o \in Obj PROVE Share(u, o)' = Share(u, o)
      <4>1. Takes(u, o) \in Nat
        BY <1>2, TakesType
      <4>2. CASE u = t /\ o = m
        BY <1>3, <2>1, <3>1, <4>1, <4>2 DEF Share
      <4>3. CASE u = t /\ o # m
        BY <1>3, <3>1, <4>1, <4>3 DEF Share
      <4>4. CASE u # t
        BY <1>3, <3>1, <4>1, <4>4 DEF Share
      <4> QED
        BY <4>2, <4>3, <4>4
    <3> QED
      BY <3>1, <3>2, <3>3
  <2>2. CASE k.err[t] # "EOK"
    <3>1. held' = held
      BY <1>1, <2>2
    <3>2. \A u \in Thread : \A o \in Obj : HandedOver(u, o)' <=> HandedOver(u, o)
      BY <1>3, <2>2
    <3>3. \A u \in Thread : \A o \in Obj : Takes(u, o)' = Takes(u, o)
      BY <3>1 DEF Takes
    <3>4. \A u \in Thread : \A o \in Obj : Share(u, o)' = Share(u, o)
      BY <3>2, <3>3 DEF Share
    <3> QED
      BY <3>1, <3>4 DEF MutexInv, MutexTypes, HeldBound
  <2> QED
    BY <2>1, <2>2
<1>8. MutexTypes' /\ OrigKnown' /\ NoLostHandover' /\ NotOwnWaiter'
  BY <1>1, <1>7 DEF MutexInv, MutexTypes, OrigKnown, NoLostHandover, NotOwnWaiter
<1>9. OwnershipAgrees'
  BY <1>1, <1>7, OwnershipIs DEF MutexInv
<1>10. HeldBound'
  <2>1. \A o \in Obj : ~Taking(t, o)'
    BY <1>5 DEF Taking
  <2>2. \A u \in Thread \ {t} : \A o \in Obj : Taking(u, o)' <=> Taking(u, o)
    BY <1>5 DEF Taking
  <2> QED
    BY <1>7, <2>1, <2>2 DEF MutexInv, HeldBound
<1> QED
  BY <1>3, <1>4, <1>8, <1>9, <1>10 DEF MutexInv

\* The last take of a mutex is given back, and with it the priority.
LEMMA LastRelease ==
    ASSUME MutexInv, NEW t \in User, NEW m \in Obj, CallsOn(t, "release", m), owner[m] = t,
           NEW n, n = PriorityBack(m, t)
    PROVE  /\ k.cur = t /\ pc[t].at = "run" /\ t \in Thread /\ k.stat[t] = "RUNNING"
           /\ OnlyPriority(k, n) /\ n.q = k.q
           /\ \A u \in Thread : n.prio[u] = IF u = t THEN orig[m] ELSE k.prio[u]
           /\ orig[m] \in Prio
           /\ \A o \in Obj : ~Linked(k, t, o)
<1>1. k.cur = t /\ pc[t].at = "run" /\ t \in Thread
  BY DEF CallsOn, Calls, Is, User
<1>2. IpcInv /\ Nobody \notin Thread
  BY MutexAssumption DEF MutexInv
<1>3. k.stat[t] = "RUNNING"
  BY <1>1, <1>2, Runs
<1>4. orig[m] \in Prio
  BY <1>1, <1>2 DEF MutexInv, OrigKnown
<1>5. /\ OnlyPriority(k, n) /\ n.q = k.q
      /\ \A u \in Thread : n.prio[u] = IF u = t THEN orig[m] ELSE k.prio[u]
  BY <1>1, <1>2, <1>3, <1>4, BackFrame
<1>6. \A o \in Obj : ~Linked(k, t, o)
  BY <1>1, <1>2, <1>3, IpcInvGood
<1> QED
  BY <1>1, <1>3, <1>4, <1>5, <1>6

\* The history when the last take of a mutex is given back
LEMMA LastTake ==
    ASSUME MutexInv, NEW t \in Thread, NEW m \in Obj, pc[t].at = "run",
           owner[m] = t, hold[m] = 1,
           held' = [held EXCEPT ![t] = OneLess(held[t], m)]
    PROVE  /\ Takes(t, m) = 1
           /\ held' \in [Thread -> Seq(Obj)]
           /\ \A u \in Thread : \A o \in Obj :
                o # m => Takes(u, o)' = Takes(u, o)
           /\ \A u \in Thread \ {t} : held'[u] = held[u]
           /\ Len(held'[t]) = Len(held[t]) - 1
           /\ held[t] # << >>
           /\ Last(held[t]) = m => held'[t] = RemoveAt(held[t], Len(held[t]))
           /\ \A u \in Thread : Takes(u, m)' = 0 /\ ~HandedOver(u, m)
<1>1. MutexTypes /\ Nobody \notin Thread
  BY MutexAssumption DEF MutexInv
<1>2. Takes(t, m) = 1 /\ ~HandedOver(t, m)
  BY RunShare
<1>3. Takes(t, m) > 0
  BY <1>2
<1>4. /\ held' \in [Thread -> Seq(Obj)]
      /\ \A u \in Thread : \A o \in Obj :
            Takes(u, o)' = IF u = t /\ o = m THEN Takes(u, o) - 1 ELSE Takes(u, o)
      /\ \A u \in Thread \ {t} : held'[u] = held[u]
      /\ Len(held'[t]) = Len(held[t]) - 1
      /\ held[t] # << >>
      /\ Last(held[t]) = m => held'[t] = RemoveAt(held[t], Len(held[t]))
  BY <1>1, <1>3, DropTakes, ZenonT(60)
<1>5. \A u \in Thread : \A o \in Obj :
            o # m => Takes(u, o)' = Takes(u, o)
  BY <1>4
<1>6. ASSUME NEW u \in Thread
       PROVE  Takes(u, m)' = 0 /\ ~HandedOver(u, m)
  <2>1. CASE u = t
    BY <1>2, <1>4, <2>1
  <2>2. CASE u # t
    <3>1. Share(u, m) = 0 /\ Takes(u, m) \in Nat
      BY <1>1, <2>2, TakesType, OwnershipIs DEF MutexInv
    <3>2. Takes(u, m) = 0 /\ ~HandedOver(u, m)
      BY <3>1 DEF Share
    <3> QED
      BY <1>4, <2>2, <3>2
  <2> QED
    BY <2>1, <2>2
<1> QED
  BY <1>2, <1>4, <1>5, <1>6

\* The mutex passes to the first waiter.
LEMMA HandsOverFrame ==
    ASSUME MutexInv, NEW t \in User, NEW m \in Obj, ReleaseHandsOver(t, m),
           NEW n, n = PriorityBack(m, t), NEW w, w = Head(k.q[m])
    PROVE  /\ IpcInv' /\ NoNewWaiter(k, k') /\ WaitersClean'
           /\ w \in Thread /\ w # t /\ Linked(k, w, m)
           /\ LosesWaiter(k, k', w) /\ OrderKept(k, k')
           /\ k'.prio = n.prio
           /\ \A u \in Thread : \A o \in Obj :
                HandedOver(u, o)' <=> HandedOver(u, o) \/ (u = w /\ o = m)
           /\ \A o \in Obj : ~HandedOver(w, o)
           /\ SameTaking
<1>1. /\ CallsOn(t, "release", m) /\ owner[m] = t /\ hold[m] = 1 /\ k.q[m] # << >>
      /\ k' = rt_ipc_list_resume(n, m) /\ Goto(t, "sched", t)
      /\ held' = [held EXCEPT ![t] = OneLess(held[t], m)]
      /\ UNCHANGED <<isr, dead, fault>>
  BY DEF ReleaseHandsOver
<1>2. /\ k.cur = t /\ pc[t].at = "run" /\ t \in Thread /\ k.stat[t] = "RUNNING"
      /\ OnlyPriority(k, n) /\ n.q = k.q /\ \A o \in Obj : ~Linked(k, t, o)
  BY <1>1, LastRelease
<1>3. /\ Good(n, {}) /\ SameWaiters(k, n)
      /\ \A u \in Thread : n.stat[u] = k.stat[u]
      /\ n.cur = k.cur /\ n.lock = k.lock /\ n.err = k.err /\ OrderKept(k, n)
  BY <1>2 DEF OnlyPriority
<1>4. w = Head(n.q[m]) /\ n.q[m] # << >>
  BY <1>1, <1>2
<1>5. /\ Good(k', {}) /\ LosesWaiter(n, k', w) /\ w \in Thread /\ Linked(n, w, m)
      /\ k'.prio = n.prio /\ k'.lock = n.lock /\ SameRunner(n, k')
  BY <1>1, <1>3, <1>4, ListResumeGood
<1>6. Undisturbed(n, k')
  BY <1>1, <1>3, <1>4, ListResumeQuiet
<1>7. LosesWaiter(k, k', w) /\ Linked(k, w, m) /\ w # t
  BY <1>2, <1>3, <1>5 DEF LosesWaiter, SameWaiters
<1>8. k'.err = k.err /\ OrderKept(k, k')
  BY <1>3, <1>6, KeepsOrderTrans DEF Undisturbed, OrderKept
<1>9. pc'[t].at = "sched" /\ \A u \in Thread \ {t} : pc'[u] = pc[u]
  BY <1>1, <1>2, GotoPc DEF MutexInv
<1>10. SameTaking
  BY <1>2, <1>9 DEF SameTaking, Taking
<1>11. IpcInv /\ WaitersClean
  BY DEF MutexInv
<1>12. /\ \A u \in Thread : \A o \in Obj :
             HandedOver(u, o)' <=> HandedOver(u, o) \/ (u = w /\ o = m)
       /\ \A o \in Obj : ~HandedOver(w, o)
       /\ WaitersClean'
  BY <1>5, <1>7, <1>8, <1>10, <1>11, ResumeHandsOver
<1>13. IpcInv' /\ NoNewWaiter(k, k')
  <2>1. "sched" \in PcPoint /\ ArgIsObject([at |-> "sched", arg |-> t])
    BY DEF PcPoint, ArgIsObject
  <2>2. k'.stat[t] # "SUSPEND" /\ k'.stat[k'.cur] = "RUNNING"
    BY <1>2, <1>3, <1>5 DEF SameRunner
  <2>3. isr' \in Isr /\ dead' \subseteq Obj /\ fault' \in BOOLEAN
    BY <1>1, <1>11, IpcInvGood
  <2>4. k'.lock = k.lock
    BY <1>3, <1>5
  <2> QED
    BY <1>1, <1>2, <1>5, <1>7, <1>11, <2>1, <2>2, <2>3, <2>4, MovesPc
<1> QED
  BY <1>5, <1>7, <1>8, <1>10, <1>12, <1>13

\* rt_mutex_release with a thread waiting
LEMMA ReleaseHandsOverInv ==
    ASSUME MutexInv, NEW t \in User, NEW m \in Obj, ReleaseHandsOver(t, m)
    PROVE  MutexInv'
<1>0. PICK n : n = PriorityBack(m, t)
  OBVIOUS
<1>1. PICK w : w = Head(k.q[m])
  OBVIOUS
<1>2. /\ CallsOn(t, "release", m) /\ owner[m] = t /\ hold[m] = 1
      /\ owner' = [owner EXCEPT ![m] = w]
      /\ orig' = [orig EXCEPT ![m] = k.prio[w]]
      /\ held' = [held EXCEPT ![t] = OneLess(held[t], m)]
      /\ UNCHANGED <<value, hold>>
  BY <1>1 DEF ReleaseHandsOver, GiveTo
<1>3. /\ IpcInv' /\ NoNewWaiter(k, k') /\ WaitersClean'
      /\ w \in Thread /\ w # t /\ Linked(k, w, m)
      /\ LosesWaiter(k, k', w)
      /\ \A u \in Thread : \A o \in Obj :
            HandedOver(u, o)' <=> HandedOver(u, o) \/ (u = w /\ o = m)
      /\ SameTaking
  BY <1>0, <1>1, HandsOverFrame
<1>4. t \in Thread /\ pc[t].at = "run"
  BY <1>2 DEF CallsOn, Calls, Is, User
<1>5. /\ owner[m] = t /\ hold[m] = 1 /\ t \in Thread /\ pc[t].at = "run"
      /\ held' = [held EXCEPT ![t] = OneLess(held[t], m)]
  BY <1>2, <1>4
<1>6. \A u \in Thread : Takes(u, m)' = 0 /\ ~HandedOver(u, m)
  BY <1>5, LastTake
<1>7. \A u \in Thread : \A o \in Obj : o # m => Takes(u, o)' = Takes(u, o)
  BY <1>5, LastTake, ZenonT(60)
<1>8. held' \in [Thread -> Seq(Obj)] /\ \A u \in Thread \ {t} : held'[u] = held[u]
  BY <1>5, LastTake
<1>9. Len(held'[t]) = Len(held[t]) - 1
  BY <1>5, LastTake
<1>10. IpcInv /\ MutexTypes /\ Nobody \notin Thread /\ MaxHeld \in Nat
  BY MutexAssumption DEF MutexInv
<1>11. k.prio[w] \in Prio
  BY <1>3, <1>10, IpcInvGood DEF Good, Kstate
<1>12. /\ owner'[m] = w /\ orig'[m] = k.prio[w]
       /\ \A o \in Obj \ {m} : owner'[o] = owner[o] /\ orig'[o] = orig[o]
  BY <1>2, <1>10 DEF MutexTypes
<1>13. MutexTypes'
  BY <1>2, <1>3, <1>8, <1>4, <1>10, <1>11 DEF MutexTypes
<1>14. \A u \in Thread : Share(u, m)' = IF owner'[m] = u THEN hold'[m] ELSE 0
  BY <1>2, <1>3, <1>6, <1>4, <1>12 DEF Share
<1>15. OwnershipAgrees'
  <2>1. owner'[m] # Nobody /\ value'[m] # 1 /\ hold'[m] # 0
    BY <1>2, <1>3, <1>6, <1>7, <1>4, <1>10, <1>12 DEF MutexInv, OwnershipAgrees
  <2> QED
    BY <1>2, <1>3, <1>6, <1>7, <1>4, <1>12, <1>14, <2>1, OneMutex
<1>16. NoLostHandover'
  BY <1>3, <1>10, <1>12, NoNewWaiterNoLoss
<1>17. OrigKnown'
  BY <1>11, <1>12 DEF MutexInv, OrigKnown
<1>18. NotOwnWaiter'
  BY <1>3, <1>12 DEF MutexInv, NotOwnWaiter, LosesWaiter
<1>19. HeldBound'
  <2>1. Len(held'[t]) <= MaxHeld /\ \A o \in Obj : ~Taking(t, o)
    <3>1. Len(held[t]) <= MaxHeld /\ Len(held[t]) \in Nat
      BY <1>10, <1>4, TakesType DEF MutexInv, HeldBound
    <3> QED
      BY <1>8, <1>9, <1>10, <1>4, <3>1 DEF Taking
  <2> QED
    BY <1>3, <1>8, <1>9, <1>4, <1>10, <2>1 DEF MutexInv, HeldBound, SameTaking
<1> QED
  BY <1>3, <1>13, <1>15, <1>16, <1>17, <1>18, <1>19 DEF MutexInv

\* rt_mutex_release with no thread waiting
LEMMA ReleaseFreesInv ==
    ASSUME MutexInv, NEW t \in User, NEW m \in Obj, ReleaseFrees(t, m)
    PROVE  MutexInv'
<1>0. PICK n : n = PriorityBack(m, t)
  OBVIOUS
<1>1. /\ CallsOn(t, "release", m) /\ owner[m] = t /\ hold[m] = 1 /\ k.q[m] = << >>
      /\ k' = n
      /\ value' = [value EXCEPT ![m] = value[m] + 1]
      /\ owner' = [owner EXCEPT ![m] = Nobody]
      /\ hold' = [hold EXCEPT ![m] = 0]
      /\ orig' = [orig EXCEPT ![m] = PrioMax]
      /\ held' = [held EXCEPT ![t] = OneLess(held[t], m)]
      /\ UNCHANGED <<isr, pc, dead, fault>>
  BY <1>0 DEF ReleaseFrees
<1>2. /\ k.cur = t /\ t \in Thread /\ k.stat[t] = "RUNNING"
      /\ OnlyPriority(k, n) /\ pc[t].at = "run"
  BY <1>0, <1>1, LastRelease
<1>3. /\ owner[m] = t /\ hold[m] = 1 /\ t \in Thread /\ pc[t].at = "run"
      /\ held' = [held EXCEPT ![t] = OneLess(held[t], m)]
  BY <1>1, <1>2
<1>4. \A u \in Thread : Takes(u, m)' = 0 /\ ~HandedOver(u, m)
  BY <1>3, LastTake
<1>5. \A u \in Thread : \A o \in Obj : o # m => Takes(u, o)' = Takes(u, o)
  BY <1>3, LastTake, ZenonT(60)
<1>6. held' \in [Thread -> Seq(Obj)] /\ \A u \in Thread \ {t} : held'[u] = held[u]
  BY <1>3, LastTake
<1>7. Len(held'[t]) = Len(held[t]) - 1
  BY <1>3, LastTake
<1>8. /\ Good(k', {}) /\ SameWaiters(k, k')
      /\ \A u \in Thread : k'.stat[u] = k.stat[u]
      /\ k'.cur = k.cur /\ k'.lock = k.lock /\ k'.err = k.err
  BY <1>1, <1>2 DEF OnlyPriority
<1>9. IpcInv /\ MutexTypes /\ Nobody \notin Thread /\ MaxHeld \in Nat /\ HoldMod \in Nat \ {0}
  BY MutexAssumption DEF MutexInv
<1>10. IpcInv' /\ NoNewWaiter(k, k')
  <2>1. isr' \in Isr /\ dead' \subseteq Obj /\ fault' \in BOOLEAN
    BY <1>1, <1>9, IpcInvGood
  <2> QED
    BY <1>1, <1>2, <1>8, <1>9, <2>1, SamePc
<1>11. /\ SameTaking
       /\ \A u \in Thread : \A o \in Obj : HandedOver(u, o)' <=> HandedOver(u, o)
  BY <1>1, <1>8 DEF SameTaking, Taking, HandedOver
<1>12. WaitersClean'
  BY <1>8 DEF MutexInv, WaitersClean, SameWaiters
<1>13. value[m] = 0
  BY <1>1, <1>2, <1>9 DEF MutexInv, OwnershipAgrees, MutexTypes
<1>14. /\ owner'[m] = Nobody /\ value'[m] = 1 /\ hold'[m] = 0
       /\ \A o \in Obj \ {m} : /\ owner'[o] = owner[o] /\ value'[o] = value[o]
                               /\ hold'[o] = hold[o] /\ orig'[o] = orig[o]
  BY <1>1, <1>9, <1>13 DEF MutexTypes
<1>15. MutexTypes'
  <2>1. value[m] + 1 \in 0 .. 1 /\ 0 \in 0 .. HoldMod - 1
    BY <1>9, <1>13
  <2> QED
    BY <1>1, <1>2, <1>6, <1>9, <2>1 DEF MutexTypes
<1>16. \A u \in Thread : Share(u, m)' = IF owner'[m] = u THEN hold'[m] ELSE 0
  BY <1>2, <1>4, <1>11, <1>14 DEF Share
<1>17. OwnershipAgrees'
  BY <1>2, <1>5, <1>11, <1>14, <1>16, OneMutex
<1>18. NoLostHandover'
  BY <1>1, <1>10, <1>14, NoNewWaiterNoLoss
<1>19. OrigKnown' /\ NotOwnWaiter'
  BY <1>8, <1>9, <1>14 DEF MutexInv, OrigKnown, NotOwnWaiter, SameWaiters
<1>20. HeldBound'
  <2>1. Len(held'[t]) <= MaxHeld /\ \A o \in Obj : ~Taking(t, o)
    <3>1. Len(held[t]) <= MaxHeld /\ Len(held[t]) \in Nat
      BY <1>2, <1>9, TakesType DEF MutexInv, HeldBound
    <3> QED
      BY <1>2, <1>9, <1>6, <1>7, <3>1 DEF Taking
  <2> QED
    BY <1>2, <1>9, <1>11, <1>6, <1>7, <2>1 DEF MutexInv, HeldBound, SameTaking
<1> QED
  BY <1>10, <1>12, <1>15, <1>17, <1>18, <1>19, <1>20 DEF MutexInv

-----------------------------------------------------------------------------
(* The theorems of every instance                                          *)

\* Initially every mutex is free.
LEMMA InitInv ==
    ASSUME Init
    PROVE  MutexInv
<1>1. /\ IpcInv /\ WaitersClean /\ \A t \in Thread : \A o \in Obj : ~Taking(t, o)
      /\ \A u \in Thread : \A o \in Obj : ~Linked(k, u, o)
  BY IpcInit, IpcInitOrder DEF Init
<1>2. /\ value = [m \in Obj |-> 1] /\ owner = [m \in Obj |-> Nobody]
      /\ hold = [m \in Obj |-> 0] /\ orig = [m \in Obj |-> PrioMax]
      /\ held = [t \in Thread |-> << >>]
      /\ HoldMod \in Nat \ {0} /\ MaxHeld \in Nat /\ Nobody \notin Thread
  BY MutexAssumption DEF Init
<1>3. \A t \in Thread : held[t] = << >> /\ Len(held[t]) = 0
  BY <1>2
<1>4. MutexTypes
  BY <1>2 DEF MutexTypes
<1>5. OwnershipAgrees
  <2>1. \A t \in Thread : \A m \in Obj : Share(t, m) = 0
    <3>1. \A t \in Thread : \A m \in Obj : Takes(t, m) = 0
      BY <1>3, <1>4, TakesType DEF ToSet
    <3> QED
      BY <1>1, <3>1 DEF Share, HandedOver
  <2> QED
    BY <1>2, <2>1, OwnershipIs
<1>6. NoLostHandover
  BY <1>1, IpcInvGood, EmptyIff DEF NoLostHandover
<1>7. OrigKnown /\ NotOwnWaiter
  BY <1>1, <1>2 DEF OrigKnown, NotOwnWaiter
<1>8. HeldBound
  BY <1>1, <1>2, <1>3 DEF HeldBound
<1> QED
  BY <1>1, <1>4, <1>5, <1>6, <1>7, <1>8 DEF MutexInv

\* Every step keeps the invariant, if the hold of a mutex cannot wrap.
LEMMA NextInv ==
    ASSUME MaxHeld < HoldMod, MutexInv, PlainPc, [Next]_vars
    PROVE  MutexInv'
<1>0. User \subseteq Thread
  BY DEF User
<1>1. CASE IpcStep(Obj) /\ UNCHANGED <<mutex, held>>
  <2>1. IpcInv
    BY DEF MutexInv
  <2>2. IpcInv' /\ NoNewWaiter(k, k') /\ Steady
    BY <1>1, <2>1, IpcStepInv, IpcStepSteady
  <2> QED
    BY <1>1, <2>2, SteadyMutex
<1>2. ASSUME NEW t \in User, TakeReturns(t) PROVE MutexInv'
  BY <1>0, <1>2, TakeReturnsInv
<1>3. ASSUME NEW t \in User, NEW m \in Obj,
             \/ TakeAvailable(t, m) \/ TakeAgain(t, m) \/ TakeFails(t, m)
             \/ \E time \in Times : TakeBlocks(t, m, time)
      PROVE  MutexInv'
  BY <1>3, TakeAvailableInv, TakeAgainInv, RefusedInv, TakeBlocksInv
<1>4. ASSUME NEW t \in User, NEW m \in Obj, Release(t, m) PROVE MutexInv'
  BY <1>4, RefusedInv, ReleaseInnerInv, ReleaseHandsOverInv, ReleaseFreesInv DEF Release
<1>5. CASE UNCHANGED vars
  <2>1. /\ k' = k /\ pc' = pc /\ isr' = isr /\ dead' = dead /\ fault' = fault
        /\ UNCHANGED <<mutex, held>> /\ IpcInv
    BY <1>5 DEF vars, mutex, MutexInv
  <2>2. Steady /\ NoNewWaiter(k, k') /\ IpcInv'
    BY <2>1, SameStateSteady
       DEF NoNewWaiter, IpcInv, LockHeld, InReset, WaitersListed, Taking
  <2> QED
    BY <2>1, <2>2, SteadyMutex
<1> QED
  BY <1>1, <1>2, <1>3, <1>4, <1>5 DEF Next

\* The call points of a mutex system are those of module Ipc.
THEOREM MutexPlain == Spec => []PlainPc
<1>1. Init => PlainPc
  BY DEF Init, SystemInit, PlainPc, PcPoint
<1>2. PlainPc /\ [Next]_vars => PlainPc'
  <2> SUFFICES ASSUME PlainPc, [Next]_vars PROVE PlainPc'
    OBVIOUS
  <2>1. CASE pc' = pc
    BY <2>1 DEF PlainPc
  <2>2. CASE IpcStep(Obj)
    BY <2>2, IpcStepPlain
  <2>3. ASSUME NEW t \in User, Goto(t, "run", t) \/ Goto(t, "sched", t) PROVE PlainPc'
    BY <2>3, PlainGoto DEF User, PcPoint
  <2>4. ASSUME NEW t \in User, NEW m \in Obj, Goto(t, "take_sched", m) PROVE PlainPc'
    BY <2>4, PlainGoto DEF User, PcPoint
  <2> QED
    BY <2>1, <2>2, <2>3, <2>4
    DEF Next, vars, TakeReturns, TakeAvailable, TakeAgain, TakeFails, TakeBlocks, Release,
        ReleaseRefused, ReleaseInner, ReleaseHandsOver, ReleaseFrees
<1> QED
  BY <1>1, <1>2, PTL DEF Spec

\* The invariant holds in every behaviour.  MaxHeld bounds the takes a thread has
\* outstanding: rt_mutex_take does not check that the 8-bit hold can be
\* incremented (ipc.c:683), so the assumption is what its callers must ensure.
THEOREM MutexInvariance ==
    ASSUME MaxHeld < HoldMod
    PROVE  Spec => []MutexInv
<1>1. Init => MutexInv
  BY InitInv
<1>2. MutexInv /\ PlainPc /\ [Next]_vars => MutexInv'
  BY NextInv
<1> QED
  BY <1>1, <1>2, MutexPlain, PTL DEF Spec

\* Mutual exclusion: a thread that has taken a mutex, or is about to return with it
\* from rt_mutex_take, is its owner, hold counts its takes, and the suspend list of
\* the mutex holds exactly the threads suspended on it; whoever takes, releases,
\* times out or deletes, in whatever interleaving.
THEOREM MutualExclusion ==
    ASSUME MaxHeld < HoldMod
    PROVE  Spec => []MutexConsistent
<1>1. MutexInv /\ PlainPc => MutexConsistent
  BY PlainType
  DEF MutexInv, MutexConsistent, MutexTypeOK, MutexTypes, IpcInv, KernelConsistent
<1>2. Spec => []MutexInv
  BY MutexInvariance
<1> QED
  BY <1>1, <1>2, MutexPlain, PTL

\* rt_mutex_release never frees a mutex that a thread waits for, and rt_mutex_take
\* never suspends a thread on a free one.
THEOREM HandoverNotLost ==
    ASSUME MaxHeld < HoldMod
    PROVE  Spec => []NoLostHandover
<1>1. MutexInv => NoLostHandover
  BY DEF MutexInv
<1>2. Spec => []MutexInv
  BY MutexInvariance
<1> QED
  BY <1>1, <1>2, PTL

-----------------------------------------------------------------------------
(* Priorities are given back                                               *)

\* The threads release their mutexes in the reverse of the order in which they
\* took them, which with one mutex is the only order there is.
ReverseOrder == "lifo" \in Ops \/ \A x, y \in Obj : x = y

\* The first of its mutexes that a thread took remembers the priority with which
\* the thread was created, ...
FirstRemembers == \A t \in Thread : held[t] # << >> => orig[held[t][1]] = InitPrio[t]

\* ... and so does one that is being handed to a thread that has no other.
GrantRemembers == \A t \in Thread : \A m \in Obj :
    held[t] = << >> /\ HandedOver(t, m) => orig[m] = InitPrio[t]

LentInv == PriorityRestored /\ FirstRemembers /\ GrantRemembers

\* A mutex that a thread has taken is owned by that thread.
LEMMA HeldOwned ==
    ASSUME MutexInv, NEW t \in Thread, held[t] # << >>
    PROVE  /\ held[t] \in Seq(Obj) /\ held[t][1] \in Obj /\ owner[held[t][1]] = t
           /\ 1 \in 1 .. Len(held[t])
           /\ Takes(t, held[t][1]) # 0
<1>1. held[t] \in Seq(Obj) /\ MutexTypes
  BY DEF MutexInv, MutexTypes
<1>2. 1 \in 1 .. Len(held[t])
  BY <1>1
<1>3. PICK m \in Obj : m = held[t][1] /\ m \in ToSet(held[t])
  BY <1>1, <1>2 DEF ToSet
<1>4. Takes(t, m) # 0 /\ Takes(t, m) \in Nat
  BY <1>1, <1>3, TakesType
<1>5. Share(t, m) # 0
  BY <1>4 DEF Share
<1>6. owner[m] = t
  BY <1>5, OwnershipIs DEF MutexInv
<1> QED
  BY <1>1, <1>2, <1>3, <1>4, <1>6

\* A thread without takes, finished or about to, owns nothing.
LEMMA OwnsNothing ==
    ASSUME MutexInv, NEW t \in Thread, held[t] = << >>,
           \A o \in Obj : ~HandedOver(t, o)
    PROVE  \A o \in Obj : owner[o] # t
<1> SUFFICES ASSUME NEW o \in Obj, owner[o] = t PROVE FALSE
  OBVIOUS
<1>1. MutexTypes /\ Nobody \notin Thread
  BY MutexAssumption DEF MutexInv
<1>2. o \notin ToSet(held[t])
  BY DEF ToSet
<1>3. Takes(t, o) = 0
  BY <1>1, <1>2, TakesType
<1>4. Share(t, o) = 0 /\ Share(t, o) = hold[o] /\ hold[o] # 0
  BY <1>1, <1>3, OwnershipIs DEF Share, MutexInv
<1> QED
  BY <1>4

\* A step that changes neither priorities nor mutexes
LEMMA SteadyLent ==
    ASSUME LentInv, k'.prio = k.prio, UNCHANGED <<mutex, held>>,
           \A u \in Thread : \A o \in Obj : HandedOver(u, o)' <=> HandedOver(u, o)
    PROVE  LentInv'
<1>1. owner' = owner /\ orig' = orig /\ held' = held
  BY DEF mutex
<1>2. PriorityRestored'
  BY <1>1 DEF LentInv, PriorityRestored
<1>3. FirstRemembers'
  BY <1>1 DEF LentInv, FirstRemembers
<1>4. GrantRemembers'
  BY <1>1 DEF LentInv, GrantRemembers
<1> QED
  BY <1>2, <1>3, <1>4 DEF LentInv

\* A take is recorded at the end of the history.
LEMMA AppendFirst ==
    ASSUME MutexTypes, NEW t \in Thread, NEW m \in Obj,
           held' = [held EXCEPT ![t] = Append(held[t], m)]
    PROVE  /\ \A u \in Thread \ {t} : held'[u] = held[u]
           /\ held'[t] # << >>
           /\ held[t] = << >> => held'[t][1] = m
           /\ held[t] # << >> => held'[t][1] = held[t][1]
<1>1. held[t] \in Seq(Obj) /\ held'[t] = Append(held[t], m)
      /\ \A u \in Thread \ {t} : held'[u] = held[u]
  BY DEF MutexTypes
<1>2. Append(held[t], m) # << >>
  BY <1>1, AppendProperties
<1>3. held[t] = << >> => Append(held[t], m)[1] = m
  <2>1. Append(held[t], m)[Len(held[t]) + 1] = m
    BY <1>1
  <2>2. held[t] = << >> => Len(held[t]) + 1 = 1
    BY <1>1
  <2> QED
    BY <2>1, <2>2
<1>4. held[t] # << >> => Append(held[t], m)[1] = held[t][1]
  <2>1. \A i \in 1 .. Len(held[t]) : Append(held[t], m)[i] = held[t][i]
    BY <1>1
  <2>2. held[t] # << >> => 1 \in 1 .. Len(held[t])
    BY <1>1
  <2> QED
    BY <2>1, <2>2
<1> QED
  BY <1>1, <1>2, <1>3, <1>4

\* A free mutex is taken.
LEMMA TakeAvailableLent ==
    ASSUME MutexInv, LentInv, NEW t \in User, NEW m \in Obj, TakeAvailable(t, m)
    PROVE  LentInv'
<1>1. /\ k.cur = t /\ pc[t].at = "run" /\ value[m] > 0
      /\ owner' = [owner EXCEPT ![m] = t]
      /\ orig' = [orig EXCEPT ![m] = k.prio[t]]
      /\ k' = SetError(t, "EOK")
      /\ held' = [held EXCEPT ![t] = Append(held[t], m)]
      /\ UNCHANGED <<isr, pc, dead, fault>> /\ t \in Thread
  BY DEF TakeAvailable, CallsOn, Calls, Is, GiveTo, User
<1>2. IpcInv /\ MutexTypes /\ Nobody \notin Thread /\ "EOK" \in Error
  BY MutexAssumption DEF MutexInv, Error
<1>3. Steady /\ k'.prio = k.prio
  BY <1>1, <1>2, ErrorStep
<1>4. owner[m] = Nobody
  BY <1>1, <1>2 DEF MutexInv, OwnershipAgrees, MutexTypes
<1>5. /\ owner'[m] = t /\ orig'[m] = k.prio[t]
      /\ \A o \in Obj \ {m} : owner'[o] = owner[o] /\ orig'[o] = orig[o]
  BY <1>1, <1>2 DEF MutexTypes
<1>6. \A u \in Thread : ~HandedOver(u, m)
  <2> SUFFICES ASSUME NEW u \in Thread PROVE ~HandedOver(u, m)
    OBVIOUS
  <2>1. Share(u, m) = 0 /\ Takes(u, m) \in Nat
    BY <1>2, <1>4, TakesType, OwnershipIs DEF MutexInv
  <2> QED
    BY <2>1 DEF Share
<1>7. /\ \A u \in Thread \ {t} : held'[u] = held[u]
      /\ held'[t] # << >>
      /\ held[t] = << >> => held'[t][1] = m
      /\ held[t] # << >> => held'[t][1] = held[t][1]
  BY <1>1, <1>2, AppendFirst
<1>8. \A u \in Thread : held[u] # << >> => held[u][1] \in Obj \ {m}
  BY <1>2, <1>4, HeldOwned
<1>9. PriorityRestored'
  BY <1>3, <1>4, <1>5, <1>2 DEF LentInv, PriorityRestored
<1>10. FirstRemembers'
  <2>1. ASSUME NEW u \in Thread, held'[u] # << >>, held[u] # << >>
        PROVE  orig'[held'[u][1]] = InitPrio[u]
    BY <1>5, <1>7, <1>8, <2>1 DEF LentInv, FirstRemembers
  <2>2. ASSUME held[t] = << >>
        PROVE  orig'[held'[t][1]] = InitPrio[t]
    <3>1. \A o \in Obj : owner[o] # t
      BY <1>1, <2>2, OwnsNothing DEF HandedOver, Taking
    <3>2. k.prio[t] = InitPrio[t]
      BY <1>1, <3>1 DEF LentInv, PriorityRestored
    <3> QED
      BY <1>5, <1>7, <2>2, <3>2
  <2> QED
    BY <1>7, <2>1, <2>2 DEF FirstRemembers
<1>11. GrantRemembers'
  BY <1>3, <1>5, <1>6, <1>7 DEF LentInv, GrantRemembers, Steady
<1> QED
  BY <1>9, <1>10, <1>11 DEF LentInv

\* The owner takes its mutex again.
LEMMA TakeAgainLent ==
    ASSUME MutexInv, LentInv, NEW t \in User, NEW m \in Obj, TakeAgain(t, m)
    PROVE  LentInv'
<1>1. /\ k.cur = t /\ pc[t].at = "run" /\ owner[m] = t
      /\ k' = SetError(t, "EOK")
      /\ held' = [held EXCEPT ![t] = Append(held[t], m)]
      /\ UNCHANGED <<isr, pc, dead, fault, value, owner, orig>> /\ t \in Thread
  BY DEF TakeAgain, CallsOn, Calls, Is, User
<1>2. IpcInv /\ MutexTypes /\ "EOK" \in Error
  BY DEF MutexInv, Error
<1>3. Steady /\ k'.prio = k.prio
  BY <1>1, <1>2, ErrorStep
<1>4. held[t] # << >>
  BY <1>1, OwnsNothing DEF HandedOver, Taking
<1>5. /\ \A u \in Thread \ {t} : held'[u] = held[u]
      /\ held'[t] # << >>
      /\ held'[t][1] = held[t][1]
  BY <1>1, <1>2, <1>4, AppendFirst
<1>6. PriorityRestored'
  BY <1>1, <1>3 DEF LentInv, PriorityRestored
<1>7. FirstRemembers'
  BY <1>1, <1>4, <1>5 DEF LentInv, FirstRemembers
<1>8. GrantRemembers'
  BY <1>1, <1>3, <1>5 DEF LentInv, GrantRemembers, Steady
<1> QED
  BY <1>6, <1>7, <1>8 DEF LentInv

\* The caller waits, and may lend the owner its priority.
LEMMA TakeBlocksLent ==
    ASSUME MutexInv, LentInv, NEW t \in User, NEW m \in Obj, NEW time \in Times,
           TakeBlocks(t, m, time)
    PROVE  LentInv'
<1>0. PICK n : n = LendPriority(m, t)
  OBVIOUS
<1>1. /\ \A u \in Thread : \A o \in Obj : HandedOver(u, o)' <=> HandedOver(u, o)
      /\ k'.prio = n.prio /\ owner[m] \in Thread
  BY <1>0, TakeBlocksFrame
<1>2. owner' = owner /\ orig' = orig /\ held' = held /\ t \in Thread
  BY DEF TakeBlocks, User, mutex
<1>3. \A u \in Thread \ {owner[m]} : n.prio[u] = k.prio[u]
  BY <1>0, <1>1, <1>2, LendFrame DEF MutexInv
<1>4. PriorityRestored'
  BY <1>1, <1>2, <1>3 DEF LentInv, PriorityRestored
<1>5. FirstRemembers'
  BY <1>2 DEF LentInv, FirstRemembers
<1>6. GrantRemembers'
  BY <1>1, <1>2 DEF LentInv, GrantRemembers
<1> QED
  BY <1>4, <1>5, <1>6 DEF LentInv

\* rt_mutex_take returns.
LEMMA TakeReturnsLent ==
    ASSUME MutexInv, PlainPc, LentInv, NEW t \in Thread, TakeReturns(t)
    PROVE  LentInv'
<1>0. PICK m : m = pc[t].arg
  OBVIOUS
<1>1. /\ k.cur = t /\ pc[t].at = "take_ret" /\ k' = k /\ Goto(t, "run", t)
      /\ held' = IF k.err[t] = "EOK" THEN [held EXCEPT ![t] = Append(held[t], m)] ELSE held
      /\ owner' = owner /\ orig' = orig
  BY <1>0 DEF TakeReturns, Is, mutex
<1>2. IpcInv /\ MutexTypes /\ m \in Obj
  BY <1>0, <1>1 DEF MutexInv, PlainPc
<1>3. /\ \A u \in Thread : \A o \in Obj : HandedOver(u, o)' <=> HandedOver(u, o) /\ u # t
      /\ \A o \in Obj : HandedOver(t, o) <=> o = m /\ k.err[t] = "EOK"
  BY <1>0, <1>1, <1>2, TakeReturnsFrame
<1>4. PriorityRestored'
  BY <1>1 DEF LentInv, PriorityRestored
<1>5. CASE k.err[t] = "EOK"
  <2>1. /\ \A u \in Thread \ {t} : held'[u] = held[u]
        /\ held'[t] # << >>
        /\ held[t] = << >> => held'[t][1] = m
        /\ held[t] # << >> => held'[t][1] = held[t][1]
    BY <1>1, <1>2, <1>5, AppendFirst
  <2>2. FirstRemembers'
    <3>1. ASSUME NEW u \in Thread, held'[u] # << >>, held[u] # << >>
          PROVE  orig'[held'[u][1]] = InitPrio[u]
      BY <1>1, <2>1, <3>1 DEF LentInv, FirstRemembers
    <3>2. ASSUME held[t] = << >>
          PROVE  orig'[held'[t][1]] = InitPrio[t]
      BY <1>1, <1>2, <1>3, <1>5, <2>1, <3>2 DEF LentInv, GrantRemembers
    <3> QED
      BY <2>1, <3>1, <3>2 DEF FirstRemembers
  <2>3. GrantRemembers'
    BY <1>1, <1>3, <2>1 DEF LentInv, GrantRemembers
  <2> QED
    BY <1>4, <2>2, <2>3 DEF LentInv
<1>6. CASE k.err[t] # "EOK"
  <2>1. held' = held
    BY <1>1, <1>6
  <2>2. FirstRemembers' /\ GrantRemembers'
    BY <1>1, <1>3, <2>1 DEF LentInv, FirstRemembers, GrantRemembers
  <2> QED
    BY <1>4, <2>2 DEF LentInv
<1> QED
  BY <1>5, <1>6

\* The last release of a mutex by thread t, who took it last: t has its first
\* priority back if that was its only mutex.
LEMMA LastLent ==
    ASSUME MutexInv, LentInv, NEW t \in Thread, NEW m \in Obj, pc[t].at = "run",
           owner[m] = t, hold[m] = 1,
           held' = [held EXCEPT ![t] = OneLess(held[t], m)], Last(held[t]) = m,
           \A u \in Thread : k'.prio[u] = IF u = t THEN orig[m] ELSE k.prio[u],
           \A o \in Obj \ {m} : owner'[o] = owner[o] /\ orig'[o] = orig[o]
    PROVE  PriorityRestored' /\ FirstRemembers'
<1>1. /\ \A u \in Thread \ {t} : held'[u] = held[u]
      /\ held' \in [Thread -> Seq(Obj)]
  BY LastTake
<1>2. held[t] # << >> /\ held'[t] = RemoveAt(held[t], Len(held[t]))
  BY LastTake
<1>3. \A u \in Thread : Takes(u, m)' = 0 /\ ~HandedOver(u, m)
  BY LastTake
<1>4. PICK n \in Nat : n = Len(held[t]) /\ held[t] \in Seq(Obj) /\ n > 0
  <2>1. held[t] \in Seq(Obj)
    BY DEF MutexInv, MutexTypes
  <2> QED
    BY <1>2, <2>1
<1>5. held[t][n] = m
  <2>1. Last(held[t]) = held[t][Len(held[t])]
    BY <1>2, <1>4, FrontRemoves
  <2> QED
    BY <1>4, <2>1
<1>6. /\ Len(held'[t]) = n - 1
      /\ n > 1 => held'[t][1] = held[t][1]
  <2>1. /\ Len(RemoveAt(held[t], n)) = n - 1
        /\ \A j \in 1 .. n - 1 :
              RemoveAt(held[t], n)[j] = IF j < n THEN held[t][j] ELSE held[t][j + 1]
    BY <1>4, RemoveAtSpec
  <2>2. n > 1 => 1 \in 1 .. n - 1 /\ 1 < n
    BY <1>4
  <2> QED
    BY <1>2, <1>4, <2>1, <2>2
<1>7. held'[t] # << >> => n > 1 /\ held'[t][1] = held[t][1]
  <2>1. held'[t] # << >> => Len(held'[t]) # 0
    BY <1>1, EmptySeq
  <2> QED
    BY <1>4, <1>6, <2>1
<1>8. \A u \in Thread : held'[u] # << >> =>
         held[u] # << >> /\ held'[u][1] = held[u][1] /\ held[u][1] \in Obj \ {m}
  <2> SUFFICES ASSUME NEW u \in Thread, held'[u] # << >>
               PROVE  held[u] # << >> /\ held'[u][1] = held[u][1] /\ held[u][1] \in Obj \ {m}
    OBVIOUS
  <2>1. held[u] # << >> /\ held'[u][1] = held[u][1]
    BY <1>1, <1>2, <1>7
  <2>2. held'[u] \in Seq(Obj) /\ Takes(u, m)' = Cardinality(Places(held'[u], m))
    BY <1>1, TakesIs
  <2>3. m \notin ToSet(held'[u])
    BY <1>3, <2>2, PlacesType
  <2>4. 1 \in 1 .. Len(held'[u])
    BY <2>2
  <2>5. held'[u][1] # m
    BY <2>3, <2>4 DEF ToSet
  <2> QED
    BY <2>1, <2>5, HeldOwned
<1>9. FirstRemembers'
  BY <1>8 DEF LentInv, FirstRemembers
<1>10. PriorityRestored'
  <2> SUFFICES ASSUME NEW u \in Thread, \A o \in Obj : owner'[o] # u
               PROVE  k'.prio[u] = InitPrio[u]
    BY DEF PriorityRestored
  <2>1. CASE u # t
    <3>1. \A o \in Obj : owner[o] # u
      BY <2>1
    <3> QED
      BY <2>1, <3>1 DEF LentInv, PriorityRestored
  <2>2. CASE u = t
    <3>1. ~(n > 1)
      <4> SUFFICES ASSUME n > 1 PROVE FALSE
        OBVIOUS
      <4>1. held'[t] # << >>
        BY <1>4, <1>6
      <4>2. held[t][1] \in Obj \ {m} /\ owner[held[t][1]] = t
        BY <1>8, <4>1, HeldOwned
      <4> QED
        BY <2>2, <4>2
    <3>2. n = 1
      <4>1. n \in Nat /\ n > 0
        BY <1>4
      <4> QED
        BY <3>1, <4>1
    <3>3. held[t][1] = m
      BY <1>5, <3>2
    <3>4. orig[m] = InitPrio[t]
      BY <1>2, <3>3 DEF LentInv, FirstRemembers
    <3> QED
      BY <2>2, <3>4
  <2> QED
    BY <2>1, <2>2
<1> QED
  BY <1>9, <1>10

\* Threads that keep the order release what they took last.
LEMMA ReleaseLast ==
    ASSUME MutexInv, ReverseOrder, NEW t \in Thread, NEW m \in Obj, InOrder(t, m),
           pc[t].at = "run", owner[m] = t
    PROVE  Last(held[t]) = m
<1>1. held[t] # << >> /\ held[t] \in Seq(Obj)
  BY OwnsNothing DEF HandedOver, Taking, MutexInv, MutexTypes
<1>2. CASE "lifo" \in Ops
  BY <1>1, <1>2 DEF InOrder
<1>3. CASE \A x, y \in Obj : x = y
  <2>1. Len(held[t]) \in 1 .. Len(held[t]) /\ Last(held[t]) = held[t][Len(held[t])]
    BY <1>1, FrontRemoves
  <2>2. Last(held[t]) \in Obj
    BY <1>1, <2>1
  <2> QED
    BY <1>3, <2>2
<1> QED
  BY <1>2, <1>3 DEF ReverseOrder

\* The owner gives one of several takes back.
LEMMA ReleaseInnerLent ==
    ASSUME MutexInv, LentInv, NEW t \in User, NEW m \in Obj, Last(held[t]) = m,
           ReleaseInner(t, m)
    PROVE  LentInv'
<1>1. /\ k.cur = t /\ pc[t].at = "run" /\ owner[m] = t /\ hold[m] # 1
      /\ held' = [held EXCEPT ![t] = OneLess(held[t], m)]
      /\ UNCHANGED <<k, pc, owner, orig>> /\ t \in Thread
  BY DEF ReleaseInner, CallsOn, Calls, Is, User
<1>2. MutexTypes /\ Nobody \notin Thread
  BY MutexAssumption DEF MutexInv
<1>3. Takes(t, m) = hold[m] /\ hold[m] # 0 /\ Takes(t, m) \in Nat
  BY <1>1, <1>2, RunShare DEF MutexInv, OwnershipAgrees
<1>4. Takes(t, m) > 0
  BY <1>3
<1>5. /\ \A u \in Thread \ {t} : held'[u] = held[u]
      /\ held' \in [Thread -> Seq(Obj)]
  BY <1>1, <1>2, <1>4, DropTakes
<1>6. held[t] # << >> /\ held'[t] = RemoveAt(held[t], Len(held[t]))
  BY <1>1, <1>2, <1>4, DropTakes
<1>7. PICK n \in Nat : n = Len(held[t]) /\ held[t] \in Seq(Obj) /\ n > 0
  <2>1. held[t] \in Seq(Obj)
    BY <1>1, <1>2 DEF MutexTypes
  <2> QED
    BY <1>6, <2>1
<1>8. held'[t] # << >> => held'[t][1] = held[t][1]
  <2>1. /\ Len(RemoveAt(held[t], n)) = n - 1
        /\ \A j \in 1 .. n - 1 :
              RemoveAt(held[t], n)[j] = IF j < n THEN held[t][j] ELSE held[t][j + 1]
    BY <1>7, RemoveAtSpec
  <2>2. held'[t] # << >> => n - 1 # 0
    <3>1. held'[t] \in Seq(Obj)
      BY <1>1, <1>5
    <3>2. held'[t] # << >> => Len(held'[t]) # 0
      BY <3>1, EmptySeq
    <3>3. Len(held'[t]) = n - 1
      BY <1>6, <1>7, <2>1
    <3> QED
      BY <3>2, <3>3
  <2>3. n - 1 # 0 => 1 \in 1 .. n - 1 /\ 1 < n
    <3>1. n \in Nat /\ n > 0
      BY <1>7
    <3> QED
      BY <3>1
  <2> QED
    BY <1>6, <1>7, <2>1, <2>2, <2>3
<1>9. FirstRemembers'
  BY <1>1, <1>5, <1>6, <1>8 DEF LentInv, FirstRemembers
<1>10. PriorityRestored'
  BY <1>1 DEF LentInv, PriorityRestored
<1>11. GrantRemembers'
  <2>1. \A u \in Thread : \A o \in Obj : HandedOver(u, o)' <=> HandedOver(u, o)
    BY <1>1 DEF HandedOver, Taking
  <2>2. \A o \in Obj : ~HandedOver(t, o)
    BY <1>1 DEF HandedOver, Taking
  <2> QED
    BY <1>1, <1>5, <2>1, <2>2 DEF LentInv, GrantRemembers
<1> QED
  BY <1>9, <1>10, <1>11 DEF LentInv

\* The mutex passes to the first waiter.
LEMMA ReleaseHandsOverLent ==
    ASSUME MutexInv, LentInv, NEW t \in User, NEW m \in Obj, Last(held[t]) = m,
           ReleaseHandsOver(t, m)
    PROVE  LentInv'
<1>0. PICK n : n = PriorityBack(m, t)
  OBVIOUS
<1>1. PICK w : w = Head(k.q[m])
  OBVIOUS
<1>2. /\ CallsOn(t, "release", m) /\ owner[m] = t /\ hold[m] = 1
      /\ owner' = [owner EXCEPT ![m] = w]
      /\ orig' = [orig EXCEPT ![m] = k.prio[w]]
      /\ held' = [held EXCEPT ![t] = OneLess(held[t], m)]
  BY <1>1 DEF ReleaseHandsOver, GiveTo
<1>3. /\ w \in Thread /\ w # t /\ k'.prio = n.prio
      /\ \A u \in Thread : \A o \in Obj :
            HandedOver(u, o)' <=> HandedOver(u, o) \/ (u = w /\ o = m)
      /\ \A o \in Obj : ~HandedOver(w, o)
  BY <1>0, <1>1, HandsOverFrame
<1>4. /\ pc[t].at = "run" /\ t \in Thread
      /\ \A u \in Thread : n.prio[u] = IF u = t THEN orig[m] ELSE k.prio[u]
  BY <1>0, <1>2, LastRelease
<1>5. \A u \in Thread : k'.prio[u] = IF u = t THEN orig[m] ELSE k.prio[u]
  BY <1>3, <1>4
<1>6. /\ orig'[m] = k.prio[w]
      /\ \A o \in Obj \ {m} : owner'[o] = owner[o] /\ orig'[o] = orig[o]
  BY <1>2 DEF MutexInv, MutexTypes
<1>7. PriorityRestored' /\ FirstRemembers'
  BY <1>2, <1>4, <1>5, <1>6, LastLent
<1>8. \A u \in Thread \ {t} : held'[u] = held[u]
  BY <1>2, <1>4, LastTake
<1>9. \A u \in Thread : ~HandedOver(u, m)
  BY <1>2, <1>4, LastTake
<1>10. GrantRemembers'
  <2>1. \A o \in Obj : ~HandedOver(t, o)
    BY <1>4 DEF HandedOver, Taking
  <2>2. held[w] = << >> => orig'[m] = InitPrio[w]
    BY <1>3, <1>6, OwnsNothing DEF LentInv, PriorityRestored
  <2> QED
    BY <1>3, <1>4, <1>6, <1>8, <1>9, <2>1, <2>2 DEF LentInv, GrantRemembers
<1> QED
  BY <1>7, <1>10 DEF LentInv

\* The mutex is free.
LEMMA ReleaseFreesLent ==
    ASSUME MutexInv, LentInv, NEW t \in User, NEW m \in Obj, Last(held[t]) = m,
           ReleaseFrees(t, m)
    PROVE  LentInv'
<1>0. PICK n : n = PriorityBack(m, t)
  OBVIOUS
<1>1. /\ CallsOn(t, "release", m) /\ owner[m] = t /\ hold[m] = 1 /\ k' = n
      /\ owner' = [owner EXCEPT ![m] = Nobody]
      /\ orig' = [orig EXCEPT ![m] = PrioMax]
      /\ held' = [held EXCEPT ![t] = OneLess(held[t], m)] /\ pc' = pc
  BY <1>0 DEF ReleaseFrees
<1>2. /\ pc[t].at = "run" /\ t \in Thread /\ OnlyPriority(k, n)
      /\ \A u \in Thread : n.prio[u] = IF u = t THEN orig[m] ELSE k.prio[u]
  BY <1>0, <1>1, LastRelease
<1>3. \A u \in Thread : k'.prio[u] = IF u = t THEN orig[m] ELSE k.prio[u]
  BY <1>1, <1>2
<1>4. \A o \in Obj \ {m} : owner'[o] = owner[o] /\ orig'[o] = orig[o]
  BY <1>1 DEF MutexInv, MutexTypes
<1>5. PriorityRestored' /\ FirstRemembers'
  BY <1>1, <1>2, <1>3, <1>4, LastLent
<1>6. \A u \in Thread \ {t} : held'[u] = held[u]
  BY <1>1, <1>2, LastTake
<1>7. \A u \in Thread : ~HandedOver(u, m)
  BY <1>1, <1>2, LastTake
<1>8. GrantRemembers'
  <2>1. \A u \in Thread : \A o \in Obj : HandedOver(u, o)' <=> HandedOver(u, o)
    BY <1>1, <1>2 DEF HandedOver, Taking, OnlyPriority
  <2>2. \A o \in Obj : ~HandedOver(t, o)
    BY <1>2 DEF HandedOver, Taking
  <2> QED
    BY <1>4, <1>6, <1>7, <2>1, <2>2 DEF LentInv, GrantRemembers
<1> QED
  BY <1>5, <1>8 DEF LentInv

\* A thread that owns no mutex has the priority it was created with: what it was lent
\* is given back when it releases its last mutex, whoever waited and gave up in the
\* meantime, with recursive takes, nested mutexes and handovers; if the threads
\* release in the reverse of the order in which they took, and no one else changes
\* priorities.  Released in another order a lent priority can stay for good:
\* rt_mutex_release writes back what was current when that mutex was taken.
THEOREM PrioritiesRestored ==
    ASSUME MaxHeld < HoldMod, "control" \notin Ops, ReverseOrder
    PROVE  Spec => []PriorityRestored
<1>1. Init => MutexInv /\ LentInv
  <2> SUFFICES ASSUME Init PROVE MutexInv /\ LentInv
    OBVIOUS
  <2>1. k.prio = InitPrio /\ \A t \in Thread : \A o \in Obj : ~Taking(t, o)
    BY IpcInitOrder DEF Init
  <2>2. \A t \in Thread : held[t] = << >>
    BY DEF Init
  <2> QED
    BY <2>1, <2>2, InitInv
       DEF LentInv, PriorityRestored, FirstRemembers, GrantRemembers, HandedOver
<1>2. MutexInv /\ PlainPc /\ LentInv /\ [Next]_vars => (MutexInv /\ LentInv)'
  <2> SUFFICES ASSUME MutexInv, PlainPc, LentInv, [Next]_vars PROVE LentInv'
    BY NextInv
  <2>0. User \subseteq Thread
    BY DEF User
  <2>1. CASE IpcStep(Obj) /\ UNCHANGED <<mutex, held>>
    <3>1. Steady
      BY <2>1, IpcStepSteady DEF MutexInv
    <3> QED
      BY <2>1, <3>1, SteadyLent DEF Steady
  <2>2. ASSUME NEW t \in User, TakeReturns(t) PROVE LentInv'
    BY <2>0, <2>2, TakeReturnsLent
  <2>3. ASSUME NEW t \in User, NEW m \in Obj,
               \/ TakeAvailable(t, m) \/ TakeAgain(t, m)
               \/ \E time \in Times : TakeBlocks(t, m, time)
        PROVE  LentInv'
    BY <2>3, TakeAvailableLent, TakeAgainLent, TakeBlocksLent
  <2>4. ASSUME NEW t \in User, NEW m \in Obj, TakeFails(t, m) \/ ReleaseRefused(t, m)
        PROVE  LentInv'
    <3>1. PICK e \in Error :
            /\ k.cur = t /\ pc[t].at = "run" /\ k' = SetError(t, e)
            /\ UNCHANGED <<isr, pc, dead, fault, mutex, held>> /\ t \in Thread
      BY <2>4 DEF TakeFails, ReleaseRefused, CallsOn, Calls, Is, User, Error
    <3>2. IpcInv
      BY DEF MutexInv
    <3>3. Steady /\ k'.prio = k.prio
      BY <3>1, <3>2, ErrorStep
    <3> QED
      BY <3>1, <3>3, SteadyLent DEF Steady
  <2>5. ASSUME NEW t \in User, NEW m \in Obj, InOrder(t, m),
               ReleaseInner(t, m) \/ ReleaseHandsOver(t, m) \/ ReleaseFrees(t, m)
        PROVE  LentInv'
    <3>1. owner[m] = t /\ pc[t].at = "run" /\ t \in Thread
      BY <2>5 DEF ReleaseInner, ReleaseHandsOver, ReleaseFrees, CallsOn, Calls, Is, User
    <3>2. Last(held[t]) = m
      BY <2>5, <3>1, ReleaseLast
    <3> QED
      BY <2>5, <3>2, ReleaseInnerLent, ReleaseHandsOverLent, ReleaseFreesLent
  <2>6. CASE UNCHANGED vars
    <3>1. k' = k /\ pc' = pc /\ UNCHANGED <<mutex, held>>
      BY <2>6 DEF vars, mutex
    <3>2. \A u \in Thread : \A o \in Obj : HandedOver(u, o)' <=> HandedOver(u, o)
      BY <3>1 DEF HandedOver, Taking
    <3> QED
      BY <3>1, <3>2, SteadyLent
  <2> QED
    BY <2>1, <2>2, <2>3, <2>4, <2>5, <2>6 DEF Next, Release
<1>3. LentInv => PriorityRestored
  BY DEF LentInv
<1> QED
  BY <1>1, <1>2, <1>3, MutexPlain, PTL DEF Spec

-----------------------------------------------------------------------------
(* Priorities are inherited                                                *)

\* What the priority protocol is proved for: one mutex, whose waiters are sorted
\* by priority, and no other changes of priority.  With two mutexes rt_mutex_take
\* does not pass a priority on along a chain of owners.
OneSortedMutex ==
    /\ \A x, y \in Obj : x = y
    /\ \A m \in Obj : Flag[m] = "PRIO"
    /\ "control" \notin Ops

\* The waiters stay sorted when only the priorities of others change.
LEMMA SortedWaiters ==
    ASSUME NEW x, NEW n, NEW o \in Obj, Sorted(x, o), x.q[o] \in Seq(Thread),
           KeepsOrder(x.q[o], n.q[o]),
           \A u \in Thread : Linked(x, u, o) => n.prio[u] = x.prio[u]
    PROVE  Sorted(n, o)
<1> SUFFICES ASSUME NEW i \in 1 .. Len(n.q[o]), NEW j \in 1 .. Len(n.q[o]), i < j
             PROVE  n.prio[n.q[o][i]] <= n.prio[n.q[o][j]]
  BY DEF Sorted
<1>1. PICK a1 \in 1 .. Len(x.q[o]), a2 \in 1 .. Len(x.q[o]) :
        a1 < a2 /\ x.q[o][a1] = n.q[o][i] /\ x.q[o][a2] = n.q[o][j]
  BY DEF KeepsOrder
<1>2. x.prio[x.q[o][a1]] <= x.prio[x.q[o][a2]]
  BY <1>1 DEF Sorted
<1>3. \A a \in 1 .. Len(x.q[o]) : x.q[o][a] \in Thread /\ Linked(x, x.q[o][a], o)
  BY DEF Linked, ToSet
<1>4. /\ n.prio[x.q[o][a1]] = x.prio[x.q[o][a1]]
      /\ n.prio[x.q[o][a2]] = x.prio[x.q[o][a2]]
  BY <1>3
<1> QED
  BY <1>1, <1>2, <1>4

\* The same of MostUrgentFirst
LEMMA WaitersStaySorted ==
    ASSUME MutexInv, MostUrgentFirst, OrderKept(k, k'),
           \A o \in Obj : \A u \in Thread : Linked(k, u, o) => k'.prio[u] = k.prio[u]
    PROVE  MostUrgentFirst'
<1>1. \A o \in Obj : Flag[o] = "PRIO" => Sorted(k, o)
  BY DEF MostUrgentFirst, Sorted
<1>2. \A o \in Obj : k.q[o] \in Seq(Thread)
  BY IpcInvGood DEF MutexInv, Good, Kstate, Lists
<1>3. \A o \in Obj : Flag[o] = "PRIO" => Sorted(k', o)
  BY <1>1, <1>2, SortedWaiters DEF OrderKept
<1> QED
  BY <1>3 DEF MostUrgentFirst, Sorted

\* Inheritance in terms of the waiters
LEMMA InheritanceIs ==
    /\ Inheritance <=> \A m \in Obj : owner[m] # Nobody =>
          \A t : Linked(k, t, m) => k.prio[owner[m]] <= k.prio[t]
    /\ Inheritance' <=> \A m \in Obj : owner'[m] # Nobody =>
          \A t : Linked(k', t, m) => k'.prio[owner'[m]] <= k'.prio[t]
BY DEF Inheritance, Linked

\* A waiter is a thread.
LEMMA WaiterIsThread ==
    ASSUME NEW x, Good(x, {}), NEW m \in Obj, NEW t, Linked(x, t, m)
    PROVE  t \in Thread
<1>1. x.q[m] \in Seq(Thread)
  BY DEF Good, Kstate, Lists
<1> QED
  BY <1>1, ToSetType DEF Linked

\* A step that changes no owner and no priority
LEMMA SteadyInherits ==
    ASSUME MutexInv, MutexInv', MostUrgentFirst, Inheritance, NoNewWaiter(k, k'),
           OrderKept(k, k'), k'.prio = k.prio, owner' = owner
    PROVE  MostUrgentFirst' /\ Inheritance'
<1>1. MostUrgentFirst'
  BY OrderMostUrgent
<1>2. Good(k', {})
  <2>1. k' \in Kstate /\ KernelOK(k', {})
    BY DEF MutexInv, IpcInv, IpcTypeOK
  <2> QED
    BY <2>1, FlatIff DEF Good
<1>3. ASSUME NEW m \in Obj, owner'[m] # Nobody, NEW t, Linked(k', t, m)
      PROVE  k'.prio[owner'[m]] <= k'.prio[t]
  <2>1. t \in Thread
    BY <1>2, <1>3, WaiterIsThread
  <2>2. Linked(k, t, m)
    BY <1>3, <2>1 DEF NoNewWaiter
  <2> QED
    BY <1>3, <2>2, InheritanceIs
<1> QED
  BY <1>1, <1>3, InheritanceIs

\* A free mutex is taken: nobody waits for it.
LEMMA TakeAvailableInherits ==
    ASSUME MutexInv, MostUrgentFirst, Inheritance, NEW t \in User, NEW m \in Obj,
           TakeAvailable(t, m)
    PROVE  MostUrgentFirst' /\ Inheritance'
<1>1. /\ k.cur = t /\ pc[t].at = "run" /\ value[m] > 0
      /\ owner' = [owner EXCEPT ![m] = t]
      /\ k' = SetError(t, "EOK")
      /\ UNCHANGED <<isr, pc, dead, fault>> /\ t \in Thread
  BY DEF TakeAvailable, CallsOn, Calls, Is, GiveTo, User
<1>2. IpcInv /\ MutexTypes /\ Nobody \notin Thread /\ "EOK" \in Error
  BY MutexAssumption DEF MutexInv, Error
<1>3. Steady /\ k'.prio = k.prio /\ k'.q = k.q
  BY <1>1, <1>2, ErrorStep
<1>4. k.q[m] = << >>
  BY <1>1, <1>2 DEF MutexInv, OwnershipAgrees, MutexTypes, NoLostHandover
<1>5. \A u : ~Linked(k', u, m)
  BY <1>3, <1>4 DEF Linked, ToSet
<1>6. \A o \in Obj \ {m} : owner'[o] = owner[o]
  BY <1>1, <1>2 DEF MutexTypes
<1>7. \A u : \A o \in Obj : Linked(k', u, o) <=> Linked(k, u, o)
  BY <1>3 DEF Linked
<1>8. MostUrgentFirst'
  BY <1>3, OrderMostUrgent DEF Steady
<1> QED
  BY <1>3, <1>5, <1>6, <1>7, <1>8, InheritanceIs

\* The caller waits: its priority is lent to the owner, who waits for nothing.
LEMMA TakeBlocksInherits ==
    ASSUME MutexInv, MutexInv', MostUrgentFirst, Inheritance, OneSortedMutex,
           NEW t \in User, NEW m \in Obj, NEW time \in Times, TakeBlocks(t, m, time)
    PROVE  MostUrgentFirst' /\ Inheritance'
<1>0. PICK n : n = LendPriority(m, t)
  OBVIOUS
<1>1. /\ (\A o \in Obj : Flag[o] = "PRIO" => Sorted(n, o)) => MostUrgentFirst'
      /\ k'.prio = n.prio
      /\ \A u \in Thread : \A o \in Obj :
            Linked(k', u, o) <=> Linked(k, u, o) \/ (u = t /\ o = m)
      /\ owner[m] \in Thread /\ owner[m] # t
      /\ OnlyPriority(k, n)
  BY <1>0, TakeBlocksFrame
<1>2. PICK u0 \in Thread : u0 = owner[m]
  BY <1>1
<1>3. owner' = owner /\ t \in Thread
  BY DEF TakeBlocks, User, mutex
<1>4. /\ \A u \in Thread \ {owner[m]} : n.prio[u] = k.prio[u]
      /\ n.prio[owner[m]] <= k.prio[t] /\ n.prio[owner[m]] <= k.prio[owner[m]]
  BY <1>0, <1>1, <1>3, LendFrame DEF MutexInv
<1>5. Good(k, {}) /\ Good(k', {}) /\ Good(n, {})
  <2>1. k' \in Kstate /\ KernelOK(k', {})
    BY DEF MutexInv, IpcInv, IpcTypeOK
  <2> QED
    BY <1>1, <2>1, IpcInvGood, FlatIff DEF Good, MutexInv, OnlyPriority
<1>6. \A o \in Obj : o = m /\ ~Linked(k, u0, o)
  BY <1>2 DEF OneSortedMutex, MutexInv, NotOwnWaiter
<1>7. \A o \in Obj : Flag[o] = "PRIO" => Sorted(n, o)
  <2> SUFFICES ASSUME NEW o \in Obj, Flag[o] = "PRIO" PROVE Sorted(n, o)
    OBVIOUS
  <2>1. Sorted(k, o)
    BY DEF MostUrgentFirst, Sorted
  <2>2. k.q[o] \in Seq(Thread) /\ KeepsOrder(k.q[o], n.q[o])
    BY <1>1, <1>5 DEF Good, Kstate, Lists, OnlyPriority, OrderKept
  <2>3. \A u \in Thread : Linked(k, u, o) => n.prio[u] = k.prio[u]
    BY <1>2, <1>4, <1>6
  <2> QED
    BY <2>1, <2>2, <2>3, SortedWaiters
<1>8. /\ k'.prio[u0] <= k.prio[t] /\ k'.prio[u0] <= k.prio[u0]
      /\ \A u \in Thread \ {u0} : k'.prio[u] = k.prio[u]
  BY <1>1, <1>2, <1>4
<1>9. \A u \in Thread : k.prio[u] \in Int /\ k'.prio[u] \in Int
  BY <1>5, KernelAssumption DEF Good, Kstate, Prio
<1>10. ASSUME NEW o \in Obj, owner'[o] # Nobody, NEW u, Linked(k', u, o)
       PROVE  k'.prio[owner'[o]] <= k'.prio[u]
  <2>1. u \in Thread /\ o = m /\ owner'[o] = u0
    BY <1>2, <1>3, <1>5, <1>6, <1>10, WaiterIsThread
  <2>2. CASE u = t
    BY <1>1, <1>2, <1>8, <2>1, <2>2
  <2>3. CASE u # t
    <3>1. Linked(k, u, m) /\ u # u0
      BY <1>1, <1>6, <1>10, <2>1, <2>3
    <3>2. k.prio[u0] <= k.prio[u]
      BY <1>2, <3>1, InheritanceIs, MutexAssumption
    <3>3. k'.prio[u] = k.prio[u] /\ k'.prio[u0] <= k.prio[u0]
      BY <1>8, <2>1, <3>1
    <3>4. k'.prio[u0] <= k'.prio[u]
      BY <1>9, <2>1, <3>2, <3>3
    <3> QED
      BY <2>1, <3>4
  <2> QED
    BY <2>2, <2>3
<1> QED
  BY <1>1, <1>7, <1>10, InheritanceIs

\* The mutex passes to the first waiter, who is the most urgent one.
LEMMA HandsOverInherits ==
    ASSUME MutexInv, MutexInv', MostUrgentFirst, Inheritance, OneSortedMutex,
           NEW t \in User, NEW m \in Obj, ReleaseHandsOver(t, m)
    PROVE  MostUrgentFirst' /\ Inheritance'
<1>0. PICK n : n = PriorityBack(m, t)
  OBVIOUS
<1>1. PICK w : w = Head(k.q[m])
  OBVIOUS
<1>2. /\ CallsOn(t, "release", m) /\ owner[m] = t /\ k.q[m] # << >>
      /\ owner' = [owner EXCEPT ![m] = w]
  BY <1>1 DEF ReleaseHandsOver, GiveTo
<1>3. /\ w \in Thread /\ w # t /\ k'.prio = n.prio
      /\ LosesWaiter(k, k', w) /\ OrderKept(k, k')
  BY <1>0, <1>1, HandsOverFrame
<1>4. /\ t \in Thread /\ OnlyPriority(k, n)
      /\ \A u \in Thread : n.prio[u] = IF u = t THEN orig[m] ELSE k.prio[u]
      /\ \A o \in Obj : ~Linked(k, t, o)
  BY <1>0, <1>2, LastRelease
<1>5. \A u \in Thread \ {t} : k'.prio[u] = k.prio[u]
  BY <1>3, <1>4
<1>6. MostUrgentFirst'
  BY <1>3, <1>4, <1>5, WaitersStaySorted
<1>7. Good(k, {}) /\ Good(k', {})
  <2>1. k' \in Kstate /\ KernelOK(k', {})
    BY DEF MutexInv, IpcInv, IpcTypeOK
  <2> QED
    BY <2>1, IpcInvGood, FlatIff DEF Good, MutexInv
<1>8. owner'[m] = w /\ \A o \in Obj : o = m
  BY <1>2 DEF OneSortedMutex, MutexInv, MutexTypes
<1>9. ASSUME NEW o \in Obj, NEW u, Linked(k', u, o)
      PROVE  k'.prio[owner'[o]] <= k'.prio[u]
  <2>1. u \in Thread /\ o = m /\ owner'[o] = w
    BY <1>7, <1>8, <1>9, WaiterIsThread
  <2>2. Linked(k, u, m) /\ u # w
    BY <1>3, <1>9, <2>1 DEF LosesWaiter
  <2>3. k.q[m] \in Seq(Thread) /\ w = k.q[m][1]
    BY <1>1, <1>2, <1>7 DEF Good, Kstate, Lists
  <2>4. PICK i \in 1 .. Len(k.q[m]) : k.q[m][i] = u
    BY <2>2 DEF Linked, ToSet
  <2>5. 1 \in 1 .. Len(k.q[m]) /\ 1 < i
    <3>1. i # 1
      BY <2>2, <2>3, <2>4
    <3> QED
      BY <2>3, <2>4, <3>1
  <2>6. k.prio[k.q[m][1]] <= k.prio[k.q[m][i]]
    BY <2>4, <2>5 DEF MostUrgentFirst, OneSortedMutex
  <2>7. k.prio[w] <= k.prio[u]
    BY <2>3, <2>4, <2>6
  <2>8. u # t
    BY <1>4, <2>2
  <2> QED
    BY <1>3, <1>5, <2>1, <2>7, <2>8
<1> QED
  BY <1>6, <1>9, InheritanceIs

\* The mutex is free: nobody waited for it.
LEMMA FreesInherits ==
    ASSUME MutexInv, MostUrgentFirst, Inheritance, OneSortedMutex,
           NEW t \in User, NEW m \in Obj, ReleaseFrees(t, m)
    PROVE  MostUrgentFirst' /\ Inheritance'
<1>0. PICK n : n = PriorityBack(m, t)
  OBVIOUS
<1>1. /\ CallsOn(t, "release", m) /\ owner[m] = t /\ k' = n
      /\ owner' = [owner EXCEPT ![m] = Nobody]
  BY <1>0 DEF ReleaseFrees
<1>2. /\ t \in Thread /\ OnlyPriority(k, n)
      /\ \A u \in Thread : n.prio[u] = IF u = t THEN orig[m] ELSE k.prio[u]
      /\ \A o \in Obj : ~Linked(k, t, o)
  BY <1>0, <1>1, LastRelease
<1>3. \A o \in Obj : \A u \in Thread : Linked(k, u, o) => k'.prio[u] = k.prio[u]
  BY <1>1, <1>2
<1>4. MostUrgentFirst'
  BY <1>1, <1>2, <1>3, WaitersStaySorted DEF OnlyPriority
<1>5. \A o \in Obj : owner'[o] = Nobody
  BY <1>1 DEF OneSortedMutex, MutexInv, MutexTypes
<1> QED
  BY <1>4, <1>5 DEF Inheritance

\* The priority protocol of one mutex with any number of threads: its owner is at least
\* as urgent as every thread that waits for it, and a thread that does not own it
\* has the priority it was created with.
THEOREM PriorityInheritance ==
    ASSUME MaxHeld < HoldMod, OneSortedMutex
    PROVE  Spec => []PriorityProtocol
<1>0. "control" \notin Ops /\ ReverseOrder
  BY DEF OneSortedMutex, ReverseOrder
<1>1. Init => MostUrgentFirst /\ Inheritance
  <2> SUFFICES ASSUME Init PROVE MostUrgentFirst /\ Inheritance
    OBVIOUS
  <2>1. MostUrgentFirst
    BY IpcInitOrder DEF Init
  <2>2. \A m \in Obj : owner[m] = Nobody
    BY DEF Init
  <2> QED
    BY <2>1, <2>2 DEF Inheritance
<1>2. MutexInv /\ MutexInv' /\ MostUrgentFirst /\ Inheritance /\ [Next]_vars
        => MostUrgentFirst' /\ Inheritance'
  <2> SUFFICES ASSUME MutexInv, MutexInv', MostUrgentFirst, Inheritance, [Next]_vars
               PROVE  MostUrgentFirst' /\ Inheritance'
    OBVIOUS
  <2>0. User \subseteq Thread /\ IpcInv
    BY DEF User, MutexInv
  <2>1. CASE IpcStep(Obj) /\ UNCHANGED <<mutex, held>>
    <3>1. NoNewWaiter(k, k') /\ Steady /\ owner' = owner
      BY <2>0, <2>1, IpcStepInv, IpcStepSteady DEF mutex
    <3> QED
      BY <1>0, <3>1, SteadyInherits DEF Steady
  <2>2. CASE k' = k /\ owner' = owner
    <3>1. NoNewWaiter(k, k') /\ OrderKept(k, k')
      BY <2>2, SameListsOrder DEF NoNewWaiter
    <3> QED
      BY <2>2, <3>1, SteadyInherits
  <2>3. ASSUME NEW t \in User, NEW e \in Error, k.cur = t, pc[t].at = "run",
               k' = SetError(t, e), UNCHANGED <<isr, pc, dead, fault>>, owner' = owner
        PROVE  MostUrgentFirst' /\ Inheritance'
    <3>1. Steady /\ NoNewWaiter(k, k') /\ k'.prio = k.prio
      BY <2>0, <2>3, ErrorStep
    <3> QED
      BY <2>3, <3>1, SteadyInherits DEF Steady
  <2>4. ASSUME NEW t \in User, TakeReturns(t) PROVE MostUrgentFirst' /\ Inheritance'
    BY <2>2, <2>4 DEF TakeReturns, mutex
  <2>5. ASSUME NEW t \in User, NEW m \in Obj, TakeAvailable(t, m)
        PROVE  MostUrgentFirst' /\ Inheritance'
    BY <2>5, TakeAvailableInherits
  <2>6. ASSUME NEW t \in User, NEW m \in Obj,
               TakeAgain(t, m) \/ TakeFails(t, m) \/ ReleaseRefused(t, m)
        PROVE  MostUrgentFirst' /\ Inheritance'
    <3>1. PICK e \in Error :
            /\ k.cur = t /\ pc[t].at = "run" /\ k' = SetError(t, e)
            /\ UNCHANGED <<isr, pc, dead, fault>> /\ owner' = owner
      BY <2>6 DEF TakeAgain, TakeFails, ReleaseRefused, CallsOn, Calls, Is, Error, mutex
    <3> QED
      BY <2>3, <3>1
  <2>7. ASSUME NEW t \in User, NEW m \in Obj, NEW time \in Times, TakeBlocks(t, m, time)
        PROVE  MostUrgentFirst' /\ Inheritance'
    BY <2>7, TakeBlocksInherits
  <2>8. ASSUME NEW t \in User, NEW m \in Obj, ReleaseInner(t, m)
        PROVE  MostUrgentFirst' /\ Inheritance'
    BY <2>2, <2>8 DEF ReleaseInner
  <2>9. ASSUME NEW t \in User, NEW m \in Obj, ReleaseHandsOver(t, m) \/ ReleaseFrees(t, m)
        PROVE  MostUrgentFirst' /\ Inheritance'
    BY <2>9, HandsOverInherits, FreesInherits
  <2>10. CASE UNCHANGED vars
    BY <2>2, <2>10 DEF vars
  <2> QED
    BY <2>1, <2>4, <2>5, <2>6, <2>7, <2>8, <2>9, <2>10 DEF Next, Release
<1>3. Spec => []MutexInv
  BY MutexInvariance
<1>4. Spec => []PriorityRestored
  BY <1>0, PrioritiesRestored
<1>5. Spec => []Inheritance
  BY <1>1, <1>2, <1>3, PTL DEF Spec
<1>6. Inheritance /\ PriorityRestored => PriorityProtocol
  BY DEF PriorityProtocol
<1> QED
  BY <1>4, <1>5, <1>6, PTL
=============================================================================
