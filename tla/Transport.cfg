SPECIFICATION FairSpec
CONSTANTS
  t1 = t1
  t2 = t2
  q1 = q1
  q2 = q2
  g1 = g1
  g2 = g2
  g3 = g3
  i1 = i1
  o1 = o1
  h1 = h1
  s1 = s1
  s2 = s2
  s3 = s3
  Threads = {t1, t2}
  Queues = {q1, q2}
  Pages = {g1, g2, g3}
  Images = {i1}
  Operations = {o1}
  Hosts = {h1}
  Signals = {s1, s2, s3}
  PoolSize = 3
  SlotCount = 2
  Programs <- AllPrograms
INVARIANTS
  NothingLost
  GpuReachable
  

  
CHECK_DEADLOCK FALSE
