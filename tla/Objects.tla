------------------------------- MODULE Objects -------------------------------
(***************************************************************************)
(* Systems whose threads and interrupt handlers synchronise through an     *)
(* event, a memory pool, a completion or a work queue, or use the heap.    *)
(***************************************************************************)
EXTENDS Event, MemPool, Completion, WorkQueue, Heap

CONSTANTS
    Systems     \* the objects a system has, and "sleep" or "control" if threads
                \* sleep or change priorities; the threads that run in it, that
                \* give (send, submit) and that take (receive, wait, allocate)

\* No thread but the worker runs the work queue's loop; the idle thread makes no
\* call.
ASSUME ObjectsAssumption ==
    /\ Thread \cap Obj = {} /\ Worker \in User
    /\ {Ev, Mp, Cp, WqSem} \subseteq Obj /\ Cardinality({Ev, Mp, Cp, WqSem}) = 4
    /\ \A o \in {Ev, Mp, Cp, WqSem} : Second[o] = o
    /\ \A s \in Systems :
        /\ s.live \subseteq Thread /\ Idle \in s.live
        /\ s.producer \cup s.consumer \subseteq User \ {Worker}

VARIABLES
    sys         \* the system: one of these

vars == <<kernel, waiting, event, mp, completed, wq, heap, sys>>

Init ==
    /\ sys \in Systems
    /\ k = Booted(sys.live, InitPrio) /\ isr = "none"
    /\ pc = [t \in Thread |-> [at |-> IF t = Worker THEN "wq_check" ELSE "run", arg |-> t]]
    /\ WaitingInit
    /\ EvInit /\ MpInit /\ CpInit /\ WqInit /\ HpInit

\* The pool has its own delete.  A resumed receiver does not look at the event
\* again.
Deletable == IF "event" \in sys.has THEN {Ev} ELSE {}

Next ==
    /\ \/ /\ IpcStep(Deletable) /\ Elapse
          /\ "control" \in sys.has \/ k'.prio = k.prio
          /\ "sleep" \in sys.has \/ \A t \in User : pc'[t].at # "sleep_sched"
          /\ UNCHANGED <<event, mp, completed, wq, heap>>
       \/ "event" \in sys.has /\ EvStep(sys.producer, sys.consumer)
          /\ UNCHANGED <<mp, completed, wq, heap>>
       \/ "pool" \in sys.has /\ MpStep(sys.consumer) /\ UNCHANGED <<event, completed, wq, heap>>
       \/ "completion" \in sys.has /\ CpStep(sys.producer, sys.consumer)
          /\ UNCHANGED <<event, mp, wq, heap>>
       \/ "workqueue" \in sys.has /\ WqStep(sys.producer) /\ UNCHANGED <<event, mp, completed, heap>>
       \/ "heap" \in sys.has /\ HpStep(sys.consumer) /\ UNCHANGED <<event, mp, completed, wq>>
    /\ UNCHANGED sys

Spec == Init /\ [][Next]_vars

-----------------------------------------------------------------------------

\* The states of the event, the pool, the completion, the work queue and the heap
\* have their types; no counter becomes negative.
ObjectsTypeOK ==
    /\ WaitingTypeOK
    /\ ev \in [set : SUBSET Bit, owed : [Bit -> Nat]]
    /\ want \in [Thread -> [set : SUBSET Bit, all : BOOLEAN, clear : BOOLEAN]]
    /\ mp \in [list : Seq(Block), free : Nat, count : Nat,
              used : SUBSET Block, late : Nat]
    /\ completed \in BOOLEAN
    /\ wq \in [list : Seq(Work), cur : Work \cup {Null}, pending : SUBSET Work,
               armed : SUBSET Delayed, attached : SUBSET Delayed,
               stray : BOOLEAN, cancelled : SUBSET Work]
    /\ heap.lfree \in 0 .. End /\ heap.used_mem \in 0 .. End /\ heap.trimmed \in BOOLEAN
    /\ \A p \in DOMAIN heap.hdr : heap.hdr[p] \in [used : BOOLEAN, next : 0 .. End, prev : 0 .. End]
\* The objects keep to their types, the kernel below them is consistent, and the
\* suspend lists hold exactly the threads that wait in the calls.
ObjectsConsistent == ObjectsTypeOK /\ KernelConsistent /\ WaitersListed

\* Nobody waits in vain: not a receiver for event bits that are set, not a thread
\* for a block that is free, not the worker while there is work, not a thread for a
\* work that is done, not a thread on an object that was deleted.
ObjectsServed ==
    NoSatisfiedWaiter /\ PoolServed /\ WorkerAwake /\ SyncServed /\ DeleteWakesAll

\* Event bits, blocks, waiters of the pool and completions are neither lost nor
\* made up by any interleaving of threads and handlers.
NothingLost == BitsConserved /\ BlocksConserved /\ CountIsWaiters /\ CompletionExact
=============================================================================
