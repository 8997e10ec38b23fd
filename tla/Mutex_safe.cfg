SPECIFICATION FairSpec
CONSTANTS
  Idle = idle
  hi = hi
  mid = mid
  lo = lo
  m1 = m1
  m2 = m2
  Nobody = nobody
  Thread <- MCThread
  PrioMax = 4
  Obj <- MCOne
  Flag <- MCPrio
  Defunct = defunct
  TickMod = 8
  Slice = 1
  InitPrio <- MCInitPrio
  Delays = {1}
  Second <- MCSecond
  Times <- MCTimes
  HoldMod = 4
  MaxHeld = 2
  Ops = {"take", "release", "sleep"}
INVARIANTS
  MutexConsistent
  NoLostHandover
  PriorityProtocol
PROPERTIES
  InversionEnds
  TimedTakeReturns
