SPECIFICATION Spec
CONSTANTS
  Idle = idle
  hi = hi
  mid = mid
  lo = lo
  m1 = m1
  m2 = m2
  Nobody = nobody
  Thread <- MCThread
  PrioMax = 4
  Obj <- MCTwo
  Flag <- MCPrio
  Defunct = defunct
  TickMod = 8
  Slice = 1
  InitPrio <- MCInitPrio
  Delays = {1}
  Second <- MCSecond
  Times <- MCForever
  HoldMod = 4
  MaxHeld = 2
  Ops = {"take", "release", "sleep", "lifo"}
INVARIANTS
  PriorityRestored
