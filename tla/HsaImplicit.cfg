\* Kernels of the default queue and copies ordered after them
SPECIFICATION Spec
CONSTANTS
  t1 = t1 t2 = t2 q0 = q0 q1 = q1 e1 = e1 e2 = e2
  NoThread = NoThread NoQueue = NoQueue NoEvent = NoEvent NoSignal = NoSignal
  Threads = {t1}
  Queues = {q0, q1}
  Events = {e1}
  Signals = {s1, s2}
  DefaultQueue = q0
  QueueSize = 3
  BarrierWidth = 2
  Programs <- ImplicitPrograms
INVARIANTS
  CopySignalsIntact
