SPECIFICATION Spec
CONSTANTS
  Idle = idle
  hi = hi
  a = a
  b = b
  Null = null
  MbRx = mb_rx
  MbTx = mb_tx
  MqRx = mq_rx
  DqPop = dq_pop
  DqPush = dq_push
  Thread <- MCThread
  PrioMax = 3
  Obj <- MCObj
  Flag <- MCFlag
  Second <- MCSecond
  Defunct = defunct
  TickMod = 8
  Slice = 1
  InitPrio <- MCInitPrio
  Delays = {}
  Times <- MCTimes
  Patient <- MCPatient
  Mail = {m1, m2}
  MbSize = 2
  Message = {m1, m2}
  Slot = {1, 2}
  Item = {m1, m2}
  DqSize = 2
  DqLwm = 0
  IdxMod = 4
  RbSize = 3
  RbByte = {m1, m2}
  RbBlock = 4
  RbNone = null
  RbLap = FALSE
  RxByte = {m1, m2}
  Bufsz = 4
  Systems <- MCSystems
  Ops = {"mb_send", "mb_recv", "mb_isr_send", "mb_isr_recv", "mb_reset",
         "mq_send", "mq_urgent", "mq_recv", "mq_isr_send", "mq_reset",
         "dq_push", "dq_pop", "dq_isr_push", "dq_isr_pop", "dq_reset", "delete"}
INVARIANTS
  MessagesConsistent
  MessagesServed
  MessageDeadlineKept
  SerialExact
PROPERTIES
  MailboxIsChannel
  QueueIsChannel
  DataQueueIsChannel
  RingIsStream
SYMMETRY MCSymmetry
