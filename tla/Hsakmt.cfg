SPECIFICATION FairSpec
CONSTANTS
  t1 = t1
  t2 = t2
  k1 = k1
  k2 = k2
  q1 = q1
  q2 = q2
  s1 = s1
  b1 = b1
  x1 = x1
  h1 = h1
  Threads = {t1, t2}
  Sessions = {k1, k2}
  Queues = {q1, q2}
  Signals = {s1}
  Buffers = {b1}
  Blocks = {x1}
  Hosts = {h1}
  PoolCount = 3
  PoolSize = 4
  Alignment = 2
  Programs <- AllPrograms
INVARIANTS
  ScratchAccounted
  GpuReachable
PROPERTY
  CallsReturn
CHECK_DEADLOCK FALSE
