SPECIFICATION FairSpec
CONSTANTS
  t1 = t1
  t2 = t2
  e1 = e1
  e2 = e2
  Threads = {t1, t2}
  Events = {e1, e2}
  x1 = x1
  x2 = x2
  x3 = x3
  x4 = x4
  x5 = x5
  Dispatches = {x1, x2, x3, x4, x5}
  Nil = Nil
  QueueCount = 2
  PacketCount = 4
  BarrierWidth = 1
  Faults = {"signal", "submit", "release", "queue", "replace", "device"}
  Programs <- BoundedPrograms
INVARIANTS
  NothingDangles
  
  EventsTracked
PROPERTY
  CallsReturn
CHECK_DEADLOCK FALSE
