SPECIFICATION Spec
CONSTANTS
  Idle = idle
  hi = hi
  a = a
  b = b
  s1 = s1
  Thread <- MCThread
  PrioMax = 3
  Obj <- MCObj
  Flag <- MCPrio
  Defunct = defunct
  TickMod = 8
  Slice = 1
  InitPrio <- MCInitPrio
  InitValue = 1
  ValueMod = 4
  Delays = {1}
  Second <- MCSecond
  Times <- MCTimes
  MaxUnits = 2
  Ops = {"take", "release", "isr_release", "reset", "delete"}
INVARIANTS
  SemTypeOK
  KernelConsistent
  UnitsConserved
  NoLostWakeup
  WaitersListed
  MostUrgentFirst
  PreemptiveWhileAlive
  DeleteWakesAll
