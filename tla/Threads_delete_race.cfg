SPECIFICATION Spec
CONSTANTS
  Idle = idle
  hi = hi
  a = a
  b = b
  Thread <- MCThread
  PrioMax = 3
  Obj = {}
  Defunct = defunct
  TickMod = 8
  Slice = 1
  InitPrio <- MCInitPrio
  Delays = {1}
  Live = {idle, hi, a, b}
  MaxNest = 1
  Ops = {"sleep", "delete", "delete_timed"}
INVARIANTS
  NodesLinkedOnce
