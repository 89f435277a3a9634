\* Queues, events and copies of the HSA backend: ring pressure, destruction in
\* use, dependencies across queues and copies among kernels
SPECIFICATION FairSpec
CONSTANTS
  t1 = t1 t2 = t2 q0 = q0 q1 = q1 e1 = e1 e2 = e2
  NoThread = NoThread NoQueue = NoQueue NoEvent = NoEvent NoSignal = NoSignal
  Threads = {t1, t2}
  Queues = {q0, q1}
  Events = {e1, e2}
  Signals = {s1, s2, s3, s4}
  DefaultQueue = q0
  QueueSize = 3
  BarrierWidth = 2
  Programs <- AllPrograms
INVARIANTS
  OrderHonoured
  NothingDangles
  SignalsIntact
  BookkeepingSound
PROPERTIES
  QueueCallsReturn
CHECK_DEADLOCK FALSE
