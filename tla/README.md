# RT-Thread kernel on the STM32F407 core board: TLA+ models and proofs

The repository is the RT-Thread 4.0.2 kernel (`src/`, `include/`, `components/`)
with a board support package for an STM32F407 (`bsp/stm32/stm32f407-st-discovery`).
The board's `rtconfig.h` fixes the variant that is modelled: one core, 32
priorities, no signals, one timer list (no `RT_USING_TIMER_SOFT`), semaphores,
mutexes, events, mailboxes, message queues, memory pools and the small-memory heap
compiled in, device IPC with the system work queue, serial devices with DMA, no
POSIX layer. Paths in this document are relative to the repository root.

## 1. Inventory

| component | state it keeps | operations | interacts with | what makes it correct |
|---|---|---|---|---|
| scheduler (`src/scheduler.c`) | ready table, priority bitmap, `rt_current_thread`, lock nesting | insert, remove, `rt_schedule`, enter/exit critical, start | called by everything that changes a thread's state | table, bitmap and states agree; the most urgent ready thread runs unless the scheduler is locked |
| threads (`src/thread.c`) | `stat`, priorities, list node, error, embedded timer | create, startup, delete, exit, sleep, yield, suspend, resume, timeout, control | scheduler, timers, IPC lists, idle thread | a node is in one list; a closed thread stays closed; a sleeper wakes |
| idle thread (`src/idle.c`) | `rt_thread_defunct` | reap, free | threads | nothing leads to freed memory |
| clock (`src/clock.c`) | `rt_tick`, time slices | `rt_tick_increase` in the tick interrupt | scheduler, timers | round robin; correct across the wrap |
| timers (`src/timer.c`) | sorted timer list, flag and period of each timer | start, stop, control, detach, check | threads, clock, timeout functions | sorted across the wrap, neither early nor late, stopped timers do not fire |
| suspend lists (`src/ipc.c`) | a list of threads per object | suspend, resume one, resume all | threads, scheduler | exactly the waiters, in the order of the flag |
| semaphore (`src/ipc.c`) | value | take, trytake, release, reset, delete | suspend lists, timers, handlers | units conserved, no lost wake-up |
| mutex (`src/ipc.c`) | value, owner, hold, original priority | take, release, delete | suspend lists, priority control | mutual exclusion, recursion, inheritance and its end |
| event (`src/ipc.c`) | the bits; what each waiter wants | send, recv, reset, delete | suspend list | a clearing receiver gets a bit alone, no satisfied waiter waits |
| mailbox (`src/ipc.c`) | a ring of mails, senders' and receivers' list | send, send_wait, recv, reset, delete | suspend lists, timers | a bounded FIFO; nobody waits for what is there; time limits kept |
| message queue (`src/ipc.c`) | queue and free list through the same slots | send, urgent, recv, reset, delete | suspend list, timers | as the mailbox; no slot lost or shared |
| memory pool (`src/mempool.c`) | free list, free count, waiters and their count | alloc, free, delete | suspend list | blocks conserved, count equals waiters |
| heap (`src/mem.c`) | boundary-tagged blocks, `lfree`, `used_mem` | malloc, realloc, free | a semaphore as lock | blocks tile the heap, neighbours merged, `lfree` valid |
| completion, data queue, work queue (`components/drivers/src`) | flag; indexes and cells; work list, current work, delayed works | wait, done; push, pop, reset; submit, critical, cancel, cancel_sync | threads suspended and resumed directly, timers, handlers | nothing lost or made up, the worker is awake while there is work |
| ring buffer (`components/drivers/src/ringbuffer.c`) | indexes with mirror bits | put, put_force, get, the same for one byte, reset | its users serialise the calls | a bounded byte stream |
| serial device (`components/drivers/serial/serial.c`) | receive FIFO, `activated`, data queue of buffers | read, write, the handlers for RX, RX DMA, TX DMA | UART, DMA controller, data queue | newest bytes in order; each buffer once and in order; no stall |
| objects, devices, services (`src/object.c`, `device.c`, `kservice.c`) | object lists, reference counts | init, find, detach; open, close | everything, by name | - |
| other drivers, shell, AT client, network, file systems | - | - | devices, IPC | mostly I/O or third-party code |
| board and application (`bsp/.../applications/main.c`) | socket number, send flag | poll loop, TCP callback | network library | - |

**What is hard.** Every kernel function is a sequence of windows with interrupts
disabled; between two windows the tick interrupt, another handler or, after a
switch, another thread runs. State read before a window and used in it, work
split over several windows, timeouts that race a hand-over, a wait that ends in
vain and begins again with what is left of its time, the wrap of `rt_tick` and of
narrow counters, and priorities that change while a thread sits in an ordered list
are what tests hardly reach. `PROJECT.json` lists these places line by line
under `hazards`.

## 2. Modules

| module | models |
|---|---|
| `Kernel` | no variables: the kernel state as a record and each function of `scheduler.c`, `thread.c`, `timer.c`, `clock.c`, `ipc.c` that runs inside one window, as an operator from state to state; `KernelOK`, its consistency |
| `System` | the processor: the current thread or the tick interrupt, the program counter of each thread inside a kernel call, boot, sleep, the call of `rt_schedule` at the end of a call |
| `Threads` | thread life cycle, suspend/resume, critical sections, idle thread, a handler that resumes threads |
| `Ipc` | what IPC objects share: delete with the windows of `rt_ipc_list_resume_all`, priority changes by the application |
| `Semaphore`, `Mutex` | the two objects, each a system of its own |
| `Waiting` | the loop in which a blocking call waits, looks again, and waits for the rest of its time |
| `Mailbox`, `MessageQueue`, `DataQueue`, `RingBuffer`, `Serial` | what carries data; `Serial` uses the actions of `DataQueue` for its buffers |
| `Messages` | systems with one of these, threads and handlers |
| `Channel`, `Stream` | abstract specifications: a bounded FIFO channel, a bounded byte stream |
| `Event`, `MemPool`, `Completion`, `WorkQueue`, `Heap` | what threads synchronise with or share |
| `Objects` | systems with one of these, threads and handlers |
| `Timers` | application timers against the tick handler, on the list operators of `Kernel` |
| `MC...` | instances for TLC |
| `KernelProofs`, `IpcProofs`, `SemaphoreProofs`, `MutexProofs`, `ThreadsProofs`, `TimersProofs`, `MessagesProofs`, `ObjectsProofs` | proofs, layered like the modules |

EXTENDS: `Kernel <- System <- Threads`;
`Kernel <- System <- Ipc <- Semaphore | Mutex | Waiting`;
`Waiting <- Mailbox, MessageQueue, DataQueue <- Serial`, and with `RingBuffer`, which
stands alone, these are `Messages`; `Waiting <- Event, MemPool, Completion, WorkQueue,
Heap <- Objects`; `Kernel <- Timers`. `Mailbox`, `MessageQueue` and `DataQueue` instantiate
`Channel`, `RingBuffer` instantiates `Stream`, each with a refinement mapping that reads
the content off the ring, the linked slots, the indexes or the mirrors.

`Messages` and `Objects` choose in their initial state one of several systems (`sys`):
which objects it has, which threads run in it and which of them give and take. One
run thus covers every object without the product of their states.

### How state and steps correspond to the code

* `k` is the kernel state; the comment at the head of `Kernel` names the C
  variable behind each field. A thread's list node is in a list exactly when
  the thread occurs in the sequence `k.q[l]`; `rt_list_remove` is `Unlink`. The
  fields `number_mask` and `high_mask` are functions of the priority.
* A step is the code between two points at which interrupts are enabled. The
  windows of a function that a thread executes are separate actions: `Delete`,
  `DeleteTimer`, `DeleteClose` for `rt_thread_delete`; `ResumeCheck`,
  `ResumeWindow`, `ResumeInsert` for `rt_thread_resume`; `SuspendOther`,
  `SuspendWindow` for `rt_thread_suspend`; `WakeCheck`, `WakeOne` for the loop of
  `rt_ipc_list_resume_all`; `Start`, `StartTick`, `StartLink` for `rt_timer_start`;
  `MqSend`, `MqLink` and `MqRecv`, `MqCopied` around the copying of a message. Called
  with interrupts disabled (from a handler or from inside a window of `ipc.c`) the
  same function is one operator of `Kernel`.
* A call that ends in `rt_schedule` reaches one of the points `DOMAIN After`;
  `CallSchedule` makes the call. The thread goes on when it is current again.
* A context switch is immediate. In the code `rt_schedule` sets
  `rt_current_thread` and pends PendSV, which is taken as soon as interrupts are
  enabled; no thread code runs in between.
* `isr = "timer_check"` while the tick handler is in the loop of
  `rt_timer_check`; every expired timer is a step of its own. Handlers do not
  nest: the tick and the modelled device handlers work on kernel state with
  interrupts disabled throughout. `isr = "masked"` is the loop of
  `rt_sem_control`, which runs in one window. A call from a handler is one step.
* Deleting a mutex and deleting a semaphore have the same body; `Ipc!Delete`
  stands for both, for mailbox (two lists), message queue and event, and for
  `detach`, whose object is static. The pool has a loop of its own (`MpDelete`).
* A call that fails at once (time 0, full, empty, busy) returns an error and changes
  nothing, so it is a stuttering step. `rt_thread_control` with an unknown command likewise.
* Ring buffer operations are one step because the buffer does no locking and its callers
  hold a mutex or mask interrupts (`at_cli.c` does neither). A `read` of
  the serial device in interrupt mode takes one byte per step, as the code does; in DMA
  mode the copy and the index update are one window. The sections of `mem.c` between taking and releasing `heap_sem` are one step.
  `rt_workqueue_cancel_work_sync` takes its semaphore with interrupts disabled, as the code does.
* To keep the state space finite, data that no later step reads is normalised: a thread's
  error once the call has returned, cells and slots that are free, the ticks spent in a
  wait beyond its limit, a timer's distance below `-HalfTick`.
* History variables, used by properties only: `limit` (ticks left of a call's time),
  `rxin` (bytes reported and not read), `due` (ticks left of a timer's time), `held`, `stopped`,
  `ev.owed`, `mp.used`, `wq.cancelled`, `heap.own`, `fault` and `wq.stray` (a list head
  was used as a thread or a work).
* Left out everywhere: hooks, debug output, reference by name, allocation
  failure (the caller gets RT_NULL and nothing has changed), the stack overflow
  check (it halts the system).

### What callers are assumed to do

Blocking calls are not made with the scheduler locked (`k.lock = 0`); no thread
starts a call on an object after its deletion has begun, and none is deleted while a
resumed thread has yet to look at it (`NoneWoken`); threads do not start
a call about a thread that another thread's call is about (`Busy`), and do
not delete one that is inside such a call; a completion has one waiter; a delayed work that is
pending is not cancelled (`_workqueue_cancel_delayed_work` and `rt_workqueue_cancel_work`
call each other without end); a periodic timer has a period of at least 1. The kernel documents
only the completion's rule. Combinations in which a property is known to fail are
switched on by a word in `Ops`:

| word | lets happen |
|---|---|
| `delete_timed` | delete a thread with an armed timer, or an object whose waiters can time out |
| `resume_race` | a handler resumes the thread another call is resuming |
| `lifo` | (restricts) threads release mutexes in the reverse order |
| `mp_late` | a block is freed, or a timed wait begun, after a wait on the pool has timed out |
| `wq_race` | submit or cancel in the windows of the worker and of other submitters |
| `dq_wrap` | the 16-bit put index of the data queue wraps |
| `reset_race` | a handler or timeout empties a list of the data queue within a reset |
| `restart` | a one-shot timer is started in its own timeout function |
| `rx_torn` | a reader copies bytes that the DMA controller has overwritten and not reported |
| `tx_late` | a writer looks at `activated` only after its buffer has gone out |
| constant `RbLap` | a forced put laps the reader within one mirror |

## 3. Runs

The thread and IPC instances have an idle thread and three user threads: an urgent one
and two equals, or three different priorities for the mutex. That is the least with
preemption, round robin and a bystander of middle priority at once. `Objects` has a
worker besides. In a system of `Messages` or `Objects` every object is small enough to
be full and empty within a few steps (two mails, slots, items, blocks; a ring of three
bytes and blocks of up to four; a receive FIFO of four cells) and its users are on both
sides: two producers or two consumers where they compete, one urgent.

| bound | stands for | why it is enough |
|---|---|---|
| `TickMod` 8 (6 in `Threads_life`, 16 in `Timers`) | 2^32 ticks | the tick wraps many times within a behaviour; delays, times and periods of 0, 1, 2 lie below half the range, as `rt_timer_start` asserts |
| `Slice` 1 | time slices | each tick is a round-robin decision |
| `ValueMod` 4, `MaxUnits` 2 | 2^16, units outstanding | value 0, 1, more; no wrap |
| `HoldMod` 4, `MaxHeld` 2 | 2^8, takes outstanding per thread | recursion, two mutexes; no wrap |
| `IdxMod` 4 | 2^16, the data queue's indexes | the indexes pass the size of 2; the wrap is `dq_wrap` |
| `MaxNest` 1 | depth of critical sections | outermost enter and exit are what matters |
| `MaxLag` 1 (`Timers`) | ticks within the window of `rt_timer_start` | less than the period: the timer may be due when it is linked |
| `MemSize` 18, `SizeofMem` = `MinSize` = 3, `Sizes` {1, 8} (words) | heap, header, smallest block on the 32-bit target, requests | two blocks and a rest; requests below `MIN_SIZE` and ones that fit once; a larger heap of 21 words was checked separately |
| `Patient` | threads that wait for ever | the others wait with a limit of 2: both kinds meet in every system |

| run | result | shows |
|---|---|---|
| `Threads_life` | holds | `ThreadsConsistent`, `FreedUnreachable`, `Preemptive`, `TimersReady`, `ClosedStaysClosed` over create/startup/sleep/yield/exit/delete/reap with critical sections; under fairness `SleepEnds`, `TurnComes` |
| `Threads_suspend` | holds | `KernelConsistent` under suspend and resume by threads and handlers and priority changes |
| `Semaphore_safe` | holds | `UnitsConserved`, `NoLostWakeup`, `WaitersListed`, `MostUrgentFirst`, `PreemptiveWhileAlive`, `DeleteWakesAll`, `KernelConsistent`, `SemTypeOK` with timeouts, handlers, reset and delete |
| `Mutex_safe` | holds | one PRIO mutex with time limits: `MutexConsistent` (mutual exclusion, recursion, exact suspend list), `NoLostHandover`, `PriorityProtocol`; under fairness `InversionEnds`, `TimedTakeReturns` |
| `Mutex_nested` | holds | `PriorityRestored` for two mutexes released in reverse order |
| `Messages` | holds | mailbox, message queue and data queue implement `Channel`, the ring buffer implements `Stream` (`MailboxIsChannel`, `QueueIsChannel`, `DataQueueIsChannel`, `RingIsStream`); `MessagesConsistent`, `MessagesServed`, `MessageDeadlineKept`, `SerialExact` |
| `Objects` | holds | event, pool, completion, work queue, heap: `ObjectsConsistent`, `ObjectsServed`, `NothingLost`, `WorkQueueExact`, `HeapWellFormed`, `AllocationsIntact` |
| `Timers` | holds | `TimersExact`, `StoppedStaysStopped`, `ExpiresOnTime`; under fairness `TimersFire` |
| `Threads_delete_race` | refutes `NodesLinkedOnce` | the tick makes the victim of `rt_thread_delete` ready between its windows; its node is then inserted into the defunct list while it is in the ready list |
| `MemPool_timeout` | refutes `PoolResumesThreads` | a timeout leaves `suspend_thread_count` too high; the next `rt_mp_free` resumes the list head |
| `WorkQueue_race` | refutes `WorkerFindsWork` | a submitter resumes a worker that has done the work already; it takes the list head for a work |
| `DataQueue_wrap` | refutes `DataQueueWithinSize` | with the put index wrapped and the get index not, the queue never looks full |

Many of these properties are conjunctions whose parts are defined, named and explained one by
one in the module of the component: `MessagesServed`, say, is the absence of lost wake-ups
in each of the objects.

The four refuting runs contradict what the code or its comments say; each has an
entry under `findings` in `PROJECT.json` that quotes the line. In `Threads_delete_race`
the sequence `k.q[l]` is what the lists would hold if an insertion left the other list
alone; in memory the second insertion overwrites the pointers of the first. The
counterexample is the first state in which the two disagree, so what the corrupted list
does next is not modelled. The same goes for a list head used as a thread or a work.

**Where properties stop holding.** The passing runs leave out, on purpose,
combinations in which a property is known to fail. They are obtained by changing
constants of the same modules:

* `NodesLinkedOnce` with `resume_race` (with `isr_resume`): a handler and a thread resume
  the same thread and link it twice.
* `ClosedStaysClosed` with `suspend_other` and `exit` in `Ops`: a thread exits between
  the test of its state and the window of `rt_thread_suspend` and becomes SUSPEND.
* `KernelConsistent` with `resume` in `Ops` where threads sleep: the timer of a sleeper expires between
  the state test and the window of `rt_thread_resume`, which then links the thread again.
* `TimersReady` with `TickMod` 4, too narrow for a sleep of 0 ticks.
* `Preemptive` with `control` in `Ops` (a priority change does not reschedule), with
  `suspend_other` and `delete` (a deleter suspended between its windows leaves a READY
  victim without a place in the ready table), with
  `delete` on a semaphore (the waiters are woken without `rt_schedule`; hence
  `PreemptiveWhileAlive`), and for a mutex with time limits (when the waiter that lent its
  priority has timed out, the release lowers the owner and does not reschedule).
* `MostUrgentFirst` with `control`: a priority change does not move a waiter within
  its suspend list.
* `DeleteWakesAll` with `delete_timed`: the last waiter times out between the emptiness
  test and the window of `rt_ipc_list_resume_all`.
* `UnitsConserved` with `MaxUnits` at `ValueMod`: `sem->value` wraps to 0. `MutexConsistent`
  likewise with `MaxHeld` at `HoldMod`.
* `PriorityRestored` with two mutexes and no `lifo`: releasing in the order of the takes leaves
  a lent priority behind.
* `Inheritance` with two mutexes (releasing the inner one takes away what the outer
  one lent, and a loan is not passed along a chain of owners) and with a FIFO
  mutex (the next owner runs at its own priority while a more urgent thread waits
  behind it).
* `TimersExact` with `restart`: a one-shot timer started in its own timeout function is linked
  and loses its flag, so that `rt_timer_stop` refuses to stop it.
* `MessagesServed` with `reset_race`: `rt_data_queue_reset` finds its list emptied between test
  and window. The data queue is not in `MessageDeadlineKept`: its calls wait for their
  whole time again after a wait that ended in vain.
* `RingIsStream` with `RbLap`: a forced put of more than the free space, with reader and writer
  in the same mirror, flips both mirrors; the full buffer looks empty.
* `SerialExact` with `rx_torn` (bytes overwritten by the controller before its interrupt), with
  `tx_late` or with two writers (a buffer is transmitted twice and another one popped).
* `LowestFree` without its exemption for a heap in which `rt_realloc` has cut a block: the
  free rest lies below `lfree` and `rt_malloc` does not find it. Also, `rt_malloc` does not
  look at a block that begins at `mem_size_aligned - size`: the last exact fit is never given out.

**Fairness.** `FairSpec` assumes that the tick interrupt keeps occurring and its
handler returns: weak fairness of the steps that enter and leave it
(`TickFairness`). The SysTick timer is free running, its handler contains no wait and finds
finitely many expired timers. `Threads` assumes also that a thread which is given the
processor finishes its kernel call and that a critical section comes to an end; `Mutex`, that a thread which is given the processor again and again finishes the
kernel call it is in (no kernel function of the models loops without bound) and gives its
mutexes back; `Timers`, that a thread in the middle of `rt_timer_start` comes to its end.
That critical sections end and mutexes are given back is an assumption about the
application, without which no lock is ever obtained. Nothing is assumed about when a
thread makes calls: it may compute for ever, and the middle thread of `Mutex_safe` does.

## 4. Proofs

| theorem | module | states | under |
|---|---|---|---|
| `TypeCorrect`, `Consistent`, `Listed`, `NoLoss` | `SemaphoreProofs` | `[]SemTypeOK`, `[]KernelConsistent`, `[]WaitersListed`, `[]NoLostWakeup` | - |
| `Conserved` | | `[]UnitsConserved` | `MaxUnits < ValueMod` |
| `UrgentFirst` | | `[]MostUrgentFirst` | no `control` |
| `FullPreemption` | | `[]PreemptiveWhileAlive` | no `control` |
| `DeleteComplete` | | `[]DeleteWakesAll` | no `delete_timed` |
| `MutualExclusion`, `HandoverNotLost` | `MutexProofs` | `[]MutexConsistent`, `[]NoLostHandover` | `MaxHeld < HoldMod` |
| `PrioritiesRestored` | | `[]PriorityRestored` | also no `control`, `ReverseOrder` |
| `PriorityInheritance` | | `[]PriorityProtocol` | also `OneSortedMutex` |
| `ThreadsStayConsistent`, `KernelStaysConsistent`, `FreedIsUnreachable` | `ThreadsProofs` | `[]ThreadsConsistent`, `[]KernelConsistent`, `[]FreedUnreachable` | `Disciplined` |
| `ClosedForGood` | | `ClosedStaysClosed` | `Disciplined` |
| `TimersAreReady` | | `[]TimersReady` | `Disciplined`, `TickMod > 4` |
| `ThreadsArePreemptive` | | `[]Preemptive` | `Disciplined`, `Preemptible` |
| `TimerListExact`, `StoppedForGood`, `TimersExpireOnTime` | `TimersProofs` | `[]TimersExact`, `[]StoppedStaysStopped`, `ExpiresOnTime` | no `restart` |
| `MailboxImplementsChannel` | `MessagesProofs` | `MailboxIsChannel` | - |
| `MessageQueueImplementsChannel`, `SlotsStayAccounted` | | `QueueIsChannel`, `[]SlotsAccounted`, a part of `MessagesConsistent` | - |
| `DataQueueImplementsChannel`, `DataQueueStaysWithinSize` | | `DataQueueIsChannel`, `[]DataQueueWithinSize` | no `dq_wrap` |
| `RingImplementsStream` | | `RingIsStream` | `~RbLap` |
| `SerialDelivers` | | `[](SerialExact /\ SerialServed)` | `TxDisciplined`, no `rx_torn` |
| `HeapStaysWellFormed`, `AllocationsStayIntact` | `ObjectsProofs` | `[]HeapWellFormed`, `[]AllocationsIntact` | - |
| `NobodyWaitsInVain`, `NothingIsLost`, `ObjectsStayConsistent` | | `[]ObjectsServed`, `[]NothingLost`, `[]ObjectsConsistent` | no `mp_late`, `delete_timed`, `wq_race`; `OneWaiter` |
| `WorkListStaysExact` | | `[]WorkListExact`, a part of `WorkQueueExact` | the same |

Each is proved of `Spec`, for all values of the constants that satisfy the named
assumptions and the hypotheses of the last column: any number of threads, priorities and
objects, any flags, any calls in use, any width of the tick and of the
counters, any size of the buffers.

*Assumptions.* `KernelAssumption`: finitely many threads, one of which is the idle
thread; at least one priority; the three kinds of list heads are different;
ticks have at least two bits; slices are positive. `SystemAssumption`,
`IpcAssumption`: delays and waiting times are below half the tick range, which is
what `rt_timer_start` asserts; every object has a second list, possibly its own.
`SemaphoreAssumption`, `MutexAssumption`: the initial value is in range; semaphores and
mutexes have one list. `MessagesAssumption`: producers and consumers are threads
other than the idle thread, and the points of the different calls have different names.
`ObjectsAssumption`: the objects are different, nobody but the worker runs the worker's
loop, and the idle thread makes no calls. `EventAssumption`, `MemPoolAssumption`, `WorkQueueAssumption`:
a request names at least one bit, a pool has finitely many blocks, delayed works are works.
The remaining ones, `HeapAssumption` among them, say that sizes are positive.

*Hypotheses.* All but two exclude what section 3 lists under "where properties stop
holding", and none of those can be dropped: TLC refutes the property without it.

* A counter must be able to count what is outstanding, since the code increments
  `sem->value` and `mutex->hold` without a test.
* `Disciplined` (in `ThreadsProofs`) excludes `delete_timed` and `resume_race`, resuming
  threads that may be asleep, and suspending others where threads exit.
* `TickMod > 4`: with two bits half the range is one tick, and a sleep of 0 ticks is never
  found expired. The tick of the code has 32 bits.
* `Preemptible` (in `ThreadsProofs`) excludes `control`, and suspending others together with
  deleting.
* `TxDisciplined` (in `MessagesProofs`) is one writer that is in time and makes no other call
  between its push and its look at `activated` (no `sleep`), and no `dq_wrap`.
* The words excluded for `Objects` are those whose races section 3 describes. `OneWaiter` is the
  completion's own rule, "only one thread can suspend on complete" (`completion.c:44`), which
  `rt_completion_wait` asserts.
* The two that exclude more than is known to fail are `ReverseOrder`, which for one mutex
  says nothing and for more is the word `lifo`, and `OneSortedMutex`.

*The inductive invariants.* No property is inductive as it stands: after a step
that wakes or suspends a thread one has to know which lists the thread was in. TLC
checked each invariant on instances before it was proved: `ThreadsInv` on five, with up to
4.5 million states, `TimersInv` and `Ahead` on three each, `RxGood` and `TxGood` for queues of 1, 2 and 3 items.

* `SemInv`: `KernelOK(k, {})` (nodes are in one list, the ready table holds exactly the
  READY threads at their priorities, the bitmap has the bits of the non-empty
  lists, only suspended threads wait or have an armed timer, one thread runs);
  `CurrentRuns` (the current thread is RUNNING except between suspending itself
  and its `rt_schedule`; without it a thread could suspend itself twice);
  `WaitersListed` and the well-formedness of the object remembered by a thread
  inside a call (only a blocking take, which tests the value in the same window, adds to a
  suspend list); `k.lock = 0`, since no action of these models locks the scheduler.
* `MutexInv`: the same for mutexes (`IpcInv`), with the agreement of owner, hold and the
  history of the takes, no owner among its own waiters, and a known `orig` for every owned
  mutex. `LentInv` adds for the priorities that the first mutex a thread took, and one that is
  being handed to a thread without any, remember the priority the thread was created with.
* `ThreadsInv`: `Good(k, Deleting)`, the consistency of the kernel with the threads under
  deletion set apart; `Sound`, what a call in the middle of delete, resume or suspend knows of
  the thread it is about although interrupts are enabled; `CallsApart`, no two calls are about
  one thread and a thread being deleted is in no call itself; nothing leads to a freed thread.
* `TimersInOrder`: the timers are in the order of expiry as seen from the tick, and while the
  tick handler runs as seen from the tick before, since those due now are still at the head.
* `Ahead`: priorities are the initial ones; outside a deletion no READY thread is more urgent
  than the current one; a deleter is itself ready to run and at least as urgent as a READY
  victim, unless it has locked the scheduler.
* `TimersInv`: `ListGood`, every timer in the list is as far from its timeout as is left of its
  time, and all of them are within half the tick range of each other, so that unsigned
  comparison sorts them; `Listed`, a timer in the list is initialised, not stopped and, unless
  a call is about it, activated; `CallGood`, what a thread in a window of start, stop or
  control knows of its timer although the tick handler may run; `CallbackGood`, whether the
  running timeout function has started or stopped its own timer.
* `MqInv`: each slot of the message queue is in the queue, in the free list or in the hands of
  the one thread that copies into or out of it, once; the two lists are chains of `next` pointers
  that end, so that `Path`, which follows them for as many steps as there are slots, returns them.
* `MbGood`, `DqGood`, `RbGood`: the indexes, counters and mirrors are in range and agree with
  the content; `SendersHold`: a waiting sender still has what it sends.
* `HeapInv`: what the two heap properties say, with every block's room known; `HpInv` adds
  that a thread between the sections of a moving `rt_realloc` still owns the old block.
* `ObjInv`, for `Objects`: `Base`, that is `IpcInv` with exact suspend lists and the points at which
  a thread may be; `EvInv`, no waiter's request is satisfied by the bits that are there, and the
  bits owed are those present and those that receivers are about to return with; `MpInv`, the
  counter counts the waiters that have not answered, and each free block somebody waits for has
  a thread coming for it; `CpInv`; `WqInv`, with the place at which the worker is while it has a work,
  is about to suspend itself, and is suspended; `Emptied`, a delete in progress is the only one
  and its object's remaining waiters have no timer. TLC checked it on the instance of the run `Objects`.
* `RxGood`, `TxGood`: what was reported is what lies in the FIFO; what was pushed and not yet
  completed is on the wire, in the queue or with the one writer, which is on its way to start the
  transmission when nothing is on the wire.

*The argument.* `KernelProofs` says first what removal, sorted insertion and append do to
a sequence without repetitions, and when one sorted by a key stays sorted. It shows then
for each operator of `Kernel` that it preserves well-typedness and `KernelOK`, which threads it
links where, and what it spares (other lists, priorities, the error and timer of other threads);
only its first lemmas look at sequences, the rest reasons about the predicates
`Linked` and `Armed`. Its sections on ticks and on the timer list reason about differences
modulo `TickMod`, which gives `TimersInOrder`; its last one shows that the boot state is
consistent and what a tick does. `IpcProofs` has one lemma per action shared by IPC objects, for
any set of objects that may be deleted and any assignment of second lists; these lemmas also say
that no thread is added to a suspend list and in which order the waiters stay. The modules
on top have one lemma per action of their component; `TimersProofs` needs of the kernel only the
lists and ticks. In `ObjectsProofs` every step keeps `Base` and leaves the other objects'
waiters and points alone (`Keeps`, `Untouched`, `Still`), so that each object's invariant is kept by
its own steps for its own reasons and by all others for one. Where the code walks along a list
(`rt_event_send`, resume all, the reset of a message queue) or sums up blocks, induction goes by the least counterexample
(`AllNumbers`): the set of numbers up to which the claim holds contains 0 and with each number its
successor. The refinements take each step of `Next`
and show that the ring, the links, the indexes or the mirrors before and after map to a step of `Channel`
or `Stream`, or to the same content.

*Only model-checked.* Liveness (`SleepEnds`, `TurnComes`, `TimedTakeReturns`,
`InversionEnds`, `TimersFire`) is out of the prover's reach. `WorkerFindsWork`, the other half of
`WorkQueueExact`, depends on who is more urgent than the worker in the instance. Of
`MessagesConsistent` only `SlotsAccounted` is proved, of `MessagesServed` only `SerialServed`; their
other parts and `MessageDeadlineKept` are checked on the instances above.

## 5. Not modelled

* Of modelled components: `rt_thread_detach` (delete of a static thread) and the idle
  hooks; the soft timer thread and `rt_timer_next_timeout_tick` (not used in this build);
  `rt_workqueue_cancel_all_work` (not in the header) and `rt_workqueue_destroy`
  (`rt_thread_delete` of the worker); open, close, control, polling and interrupt-mode
  transmission of the serial device. `rt_serial_close` frees the receive FIFO before it
  disables the interrupt that fills it; that race needs a model of the device's life.
* Wait queues and pipes serve the POSIX file layer, which the board does not include; ring
  blocks have no user.
* Objects, devices, kernel services and start-up do name lookup, formatting and
  one-time initialisation. Signals, SMP, memheap and slab are not compiled in. The context
  switch is assembly. Other drivers, shell, AT client, vendor HAL, network and file
  system libraries are I/O or third-party code. `PROJECT.json` gives the reason for each.

The repository contains about two million lines, nearly all of them vendor libraries, board
packages for other chips and tables: the modelled sources (`scheduler.c`, `thread.c`, `idle.c`,
`clock.c`, `timer.c`, `ipc.c`, `mempool.c`, `mem.c`, `completion.c`, `dataqueue.c`,
`workqueue.c`, `ringbuffer.c`, part of `serial.c`) are where the concurrency of the
system is, and only a fraction of a percent of its lines.

## 6. Plan

1. Theorems: the consistency and the served waiters of `Messages` (`MessagesConsistent`,
   `MessagesServed`), with the technique of `ObjectsProofs`; `WorkerFindsWork` for a worker that is
   the most urgent thread of its system.
2. The life of a serial device: open, close and the handlers in between; the AT client over
   `Serial` and `Semaphore`.
