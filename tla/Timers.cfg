SPECIFICATION FairSpec
CONSTANTS
  Idle = idle
  a = a
  u1 = u1
  u2 = u2
  Null = null
  Thread <- MCThread
  PrioMax = 1
  Obj = {}
  Defunct = defunct
  TickMod = 16
  Slice = 1
  Timer <- MCTimer
  Periods = {1, 2}
  MaxLag = 1
  Ops = {"start", "stop", "detach", "control", "cb_start", "cb_stop"}
INVARIANTS
  TimersExact
  StoppedStaysStopped
PROPERTIES
  ExpiresOnTime
  TimersFire
