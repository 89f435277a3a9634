\* Kernels, copies and markers ordered by events; destruction and ring replacement
SPECIFICATION FairSpec
CONSTANTS
  t1 = t1
  t2 = t2
  q0 = q0
  q1 = q1
  e1 = e1
  e2 = e2
  Threads = {t1, t2}
  Queues = {q0, q1}
  Events = {e1, e2}
  NoThread = NoThread
  NoQueue = NoQueue
  NoEvent = NoEvent
  DefaultQueue = q0
  PacketCount = 3
  BarrierWidth = 1
  Programs <- SmallPrograms
INVARIANTS
  NoDanglingRetirement
  RingAccounted
PROPERTIES
  SignalReuseSafe
  CallsReturn
