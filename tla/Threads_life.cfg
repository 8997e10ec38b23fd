SPECIFICATION FairSpec
CONSTANTS
  Idle = idle
  hi = hi
  a = a
  b = b
  Thread <- MCThread
  PrioMax = 3
  Obj = {}
  Defunct = defunct
  TickMod = 6
  Slice = 1
  InitPrio <- MCTwoUrgent
  Delays = {0, 1}
  Live = {idle, hi, a}
  MaxNest = 1
  Ops = {"create", "startup", "sleep", "yield", "exit", "delete", "critical"}
INVARIANTS
  ThreadsConsistent
  FreedUnreachable
  Preemptive
  TimersReady
PROPERTIES
  ClosedStaysClosed
  SleepEnds
  TurnComes
