SPECIFICATION FairSpec
CONSTANTS
  t1 = t1
  t2 = t2
  d1 = d1
  d2 = d2
  h1 = h1
  m1 = m1
  Threads = {t1, t2}
  Nil = Nil
  Mem = {d1, d2}
  HostMem = {h1}
  Modules = {m1}
  Space = 5
  RingSize = 2
  StagingSize = 2
  Faults = {"init", "sync", "release", "queue", "allocate", "load", "hsa_shut_down"}
  Programs <- BoundedPrograms
INVARIANTS
  ReferencesLive
  StatsBalanced
  
PROPERTIES
  CopyExact
  CallsReturn
CHECK_DEADLOCK FALSE
