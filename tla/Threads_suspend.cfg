SPECIFICATION Spec
CONSTANTS
  Idle = idle
  hi = hi
  a = a
  b = b
  Thread <- MCThread
  PrioMax = 3
  Obj = {}
  Defunct = defunct
  TickMod = 4
  Slice = 1
  InitPrio <- MCInitPrio
  Delays = {}
  Live = {idle, hi, a, b}
  MaxNest = 1
  Ops = {"suspend_self", "suspend_other", "resume", "isr_resume", "control"}
INVARIANTS
  KernelConsistent
