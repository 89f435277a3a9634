\* Queue operations, recording, replay and lifetimes; a thread may wait forever
\* for a semaphore nobody signals
SPECIFICATION FairSpec
CONSTANTS
  t1 = t1
  t2 = t2
  d1 = d1
  d2 = d2
  b1 = b1
  b2 = b2
  h1 = h1
  e1 = e1
  c1 = c1
  s1 = s1
  s2 = s2
  f1 = f1
  a1 = a1
  a2 = a2
  Nil = Nil
  Threads = {t1, t2}
  Devices = {d1, d2}
  Allocators = {a1, a2}
  Buffers = {b1, b2, h1}
  HostBuffers = {h1}
  Executables = {e1}
  CommandBuffers = {c1}
  Semaphores = {s1, s2, f1}
  Foreign = {f1}
  Size = 2
  Modulus = 3
  MaxBindings = 2
  BindingCapacity = 2
  MaxFileOffset = 4
  KernelNames = {"k"}
  Faults = {"lr_init", "lr_device_open", "lr_malloc", "lr_launch", "lr_memcpy", "lr_synchronize", "lr_shutdown", "module", "record"}
  Programs <- PassPrograms
CHECK_DEADLOCK FALSE
INVARIANTS
  RefsBalanced
  NothingDangles
PROPERTIES
  ImplementsTimeline
  OperationsReturn
