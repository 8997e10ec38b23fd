SPECIFICATION Spec
CONSTANTS
  Idle = idle
  Worker = worker
  hi = hi
  a = a
  b = b
  Null = null
  Ev = ev
  Mp = mp
  Cp = cp
  WqSem = wq_sem
  Thread <- MCThread
  PrioMax = 4
  Obj <- MCObj
  Flag <- MCFlag
  Second <- MCSecond
  Defunct = defunct
  TickMod = 8
  Slice = 1
  InitPrio <- MCInitPrio
  Delays = {1}
  Times <- MCTimes
  Patient <- MCPatient
  Bit = {1, 2}
  Request <- MCRequest
  Block = {b1, b2}
  Work = {w1, w2, d}
  Delayed = {d}
  SizeofMem = 3
  MinSize = 3
  MemSize = 18
  Sizes = {1, 8}
  Systems <- MCSystems
  Ops = {"sleep", "control", "delete", "ev_send", "ev_isr_send", "ev_recv", "ev_reset",
         "mp_alloc", "mp_isr_alloc", "mp_free", "mp_isr_free",
         "cp_wait", "cp_done", "cp_isr_done",
         "wq_submit", "wq_critical", "wq_cancel", "wq_sync", "dw_submit", "dw_cancel",
         "hp_malloc", "hp_free", "hp_realloc"}
INVARIANTS
  ObjectsConsistent
  ObjectsServed
  
  WorkQueueExact
  HeapWellFormed
  AllocationsIntact
SYMMETRY MCSymmetry
