SPECIFICATION Spec
CONSTANTS
  Idle = idle
  Worker = worker
  hi = hi
  a = a
  b = b
  Null = null
  Ev = ev
  Mp = mp
  Cp = cp
  WqSem = wq_sem
  Thread <- MCThread
  PrioMax = 4
  Obj <- MCObj
  Flag <- MCFlag
  Second <- MCSecond
  Defunct = defunct
  TickMod = 8
  Slice = 1
  InitPrio <- MCInitPrio
  Delays = {1}
  Times <- MCTimes
  Patient <- MCPatient
  Bit = {1, 2}
  Request <- MCRequest
  Block = {b1, b2}
  Work = {w1, w2, d}
  Delayed = {d}
  SizeofMem = 3
  MinSize = 3
  MemSize = 18
  Sizes = {1, 8}
  Systems <- MCWorkQueueOnly
  Ops = {"sleep", "wq_submit", "wq_race"}
INVARIANTS
  WorkerFindsWork
