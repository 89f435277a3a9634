# Verification of light-rocm-runtime

TLA+ modules, TLC configurations and TLAPS proofs kept beside the runtime.
Every definition is translated from the sources under `src/`; `PROJECT.json`
maps each one to the lines it stands for and lists runs, mutants, findings,
hazards and theorems.

## 1. The system

light-rocm-runtime is a small GPU runtime: a C interface (`lrrt.h`) to devices,
memory, modules, queues, launches and events. One of three backends is chosen
when it is built:

| backend | talks to the GPU through | locking |
|---|---|---|
| HSA (default) | ROCr: `hsa_queue_t`, `hsa_signal_t`, `hsa_amd_memory_async_copy` | registry lock `g_devices_mutex` (shared/exclusive), then one mutex per queue; both released around waits |
| hsakmt (`LRRT_ENABLE_LIGHT_ROCR`) | libhsakmt: own AQL queue and signals | registry lock held through a call, waits included, except the host wait of `lr_event_synchronize` |
| direct KFD (`LRRT_ENABLE_LIGHT_ROCR_KFD`) | ioctls on `/dev/kfd` | registry lock, released around waits |

### Inventory

| part | state | operations that change it | what makes it hard | correct when |
|---|---|---|---|---|
| AQL producer (`aql_producer.cpp`) | ring slots, write and read index, doorbell | submit, batch submit, prevalidated submit | packet processor reads a slot between two stores; ring wraps; batch and one doorbell | each packet is executed once, in order, with the body its producer wrote |
| queues (`queue.cpp`) | pending dispatches, barriers, events, synchronisations; signal and kernarg pools; pins; `destroying` | create, destroy, synchronise, reap, wait for progress | host waits without locks on signals that other threads recycle; capacity checked before a wait | bounded ring use, no signal re-armed under a reader, calls return |
| launches (`launch.cpp`) | the above, dependency pins | launch, with dependencies, on a queue, local fast path | dependencies collected, locks dropped, resources acquired in turn | a kernel starts after everything it was ordered behind |
| events (`event.cpp`) | kind, completed, signal, recording queue, pins, pending lists | create, record, synchronise, destroy | one signal reused by each recording while packets, copies and threads refer to it | signal re-armed only when nothing refers to it |
| copies (`memory.cpp`) | event kind, dependent copies | `lr_memcpy_async`, with dependencies | copy engine reads signals after the call returned | same as events |
| memory (`memory.cpp`) | allocation registry, statistics, operation pins | malloc, free, host malloc, host free, memcpy | free against running operations | no allocation freed under an operation |
| lifetime pins (`runtime_internal.hpp`) | atomic count, mutex, condition variable | retain, release, wait until empty | last release races the destroyer | no free under a pin, no lost wake-up |
| modules (`module.cpp`) | module registry, pins | load, destroy, get kernel | destroy unlocks, waits, locks | no kernel of a destroyed module runs |
| lifecycle (`runtime.cpp`) | `g_initialized`, devices | init, shutdown, open | shutdown against running calls; failing shutdown | shutdown leaves nothing in flight |
| device synchronisation (`device_synchronization.cpp`) | host wait set | `lr_synchronize` | queues created and destroyed while it waits | returned means idle |
| pipeline (`pipeline.hpp`) | two slots and their states | acquire, copy, mark, finish | a slot reused too early | device work of a slot ended before reuse |
| stateful graph executor (`executor/stateful_graph`) | status, phase, claimed and completed masks | claim, execute, complete, advance phase; stage barriers | several words read without a snapshot; one counter reused by all stages | every task once, after its dependencies; workers leave together |
| IREE HAL driver (`executor/iree/hal_driver.c`) | semaphores, command buffers, reference counts | submit, record, replay | process-wide plain counters | signals after the work |
| light-rocr transports (`light-rocr/transport`) | kernel queues, address ranges, memory objects | create, map, release | failure after each acquisition | nothing leaked, nothing released twice |
| light-rocr loader and image (`light-rocr/loader`, `runtime`) | load plan, image, kernarg buffer | parse, plan, validate, place, relocate, fill arguments | range arithmetic on numbers a file states; two validators that must agree | no access outside, image as meant |

`PROJECT.json` repeats the list as `components` with what is modelled of each
part and why the rest is not.

## 2. Modules

### The ring: `AqlRing`, `PacketFifo`, `AqlRingProofs`

`AqlRing` models `aql_producer.cpp`. Each producer action is one shared access:
load of the read index, reservation (`reserve_packet`), header invalidation,
body copy, header publication, doorbell. The packet processor (external) fetches
a slot when its header is valid, possibly before the doorbell, and advances the
read index. A body is the id of the packet it was built for, so a fetch of a
stale or half-written slot is visible. `PacketFifo` is the abstract
specification: a bounded queue that delivers ids in order. `ImplementsFifo` is
the refinement, checked by TLC and proved.

### The HSA backend: `HsaQueue`, ..., `HsaRuntime`, `MCHsa`

One specification in a chain of modules, each extending the previous one:

| module | code |
|---|---|
| `HsaQueue` | `QueueState`, `lr_event_t`, pools, helpers, locks, the GPU and the copy engine (external); reaping, finishing events, waiting for progress, capacity |
| `HsaLaunch` | dependency collection and barriers, `lr_launch`, `lr_launch_with_dependencies`; launch on an explicit queue with its local fast path, `lr_queue_synchronize`, tail markers |
| `HsaEvent` | making an event quiescent: synchronisers, pending wait, consumers; record, destroy, create, synchronise, asynchronous copies |
| `HsaRuntime` | queue destruction and creation, `Next`, specification, properties |

A thread in a call has a stack `k` of labels: what it does next, then what
follows when that has returned. A C++ call pushes labels (`Then`, `Goto`), an
early return drops them. A label is a stretch of code between two points where
another thread or the device can be observed: a lock taken or released, a load
of a signal. The two passes of a reap are therefore separate steps, one per
pending entry, because the code reads each signal separately.

A signal is 1 or 0. The history variable `recycled` records what kind of
reader still referred to a signal (a waiting barrier packet, the packet that
completes it, a copy, a sleeping thread) when the host armed or destroyed it.
`BarrierWidth` stands for the five dependencies of a barrier-AND packet and
`QueueSize` for the queue capacity.

### The hsakmt backend: `LightRocrQueue`, `MCLightRocr` and four proof modules

The same calls in the backend with one lock: launch, copy kernels, record,
event synchronise and destroy, queue and device synchronise, queue destroy,
scratch growth that replaces the ring, and submission failures with their roll
back. Packets in flight are a set with positions; pending lists are sets that
keep the source's order through ids. `WellFormed` says what a call may be given: a
queue, an event, or both, as its signature asks; a kernel launch has no event of its
own, and a copy goes to the default queue.

### Lifetime pins: `LifetimePinCount`, `LifetimePinCountProofs`

`LifetimePinCount` of `runtime_internal.hpp` with any number of pinning threads
and one destroyer, at the granularity of the atomic decrement, the mutex and
the sleep of the condition variable. `ChecksFirst` distinguishes a queue, whose
destroyer tests the count before it waits, from a module.

### The stateful graph executor: `GraphTables`, `TaskGraph`, `ResidentScheduler`, `StatefulGraph`, `MCGraph`

`GraphTables` holds the pure part: phases packed into a word, the validators of
the host and of the device, and the compiler that cuts a program into stages. A
dependency mask is the set of task indices it selects. `ResidentScheduler` is
the kernel of `device_scheduler.hpp` and what both kernels share,
`StatefulGraph` adds the stage walk of `compiled_scheduler.hpp`, `__syncthreads`
and the properties.

A worker is a workgroup of `WaveCount` waves, each with a program counter; wave 0
holds thread 0, which schedules. Every load or atomic operation on global memory
is a step, and a mask of more than `WordSize` tasks is read in two. A barrier is
passed when every wave that has not returned waits at one. What a task
computes is left open: thread 0 of a workload may set the predicate and the
branch value to anything.

`TaskGraph` is the abstract specification: each task of a phase is completed
once, after its dependencies; after the last one a single transition picks the
next program or ends the launch; a cyclic graph is refused before a task runs.
Both kernels are shown to implement it (`ImplementsTaskGraph`); for the dynamic
one a task is done when its completed bit is set, for the compiled one when all
waves have executed it.

### The direct KFD backend: `DirectKfdQueue`, `DirectKfd`, `MCDirectKfd`

The third set of `queue.cpp`, `event.cpp`, `launch.cpp` and `memory.cpp`: the
registry lock is released in every wait (capacity, consumers, queue and device
synchronisation), so a call finds a changed world when it takes it again.
`DirectKfdQueue` has queues, events, the kernel-argument arena, the GPU (external)
and the routines of `queue.cpp`, `DirectKfd` the calls.
Threads have the label stacks of the HSA modules. Dispatch signals and arena slots
are identities (`Dispatches`), kernel arguments take one page each.

### Registries and lifecycle: `RegistryState`, `Registry`, `MCRegistry`

`lr_init`, `lr_shutdown`, `lr_device_open`, allocation, free, synchronous copy,
module load, lookup, launch and destruction, for all three builds: the variable
`backend` selects the variant, because the three differ in where the lock is held.
Addresses are `0 .. Space - 1`, an allocation is an interval, and a copy moves
cells through a staging buffer of `StagingSize` in the direction the code picks,
so an overlapping copy is exact or visibly wrong. Queues are reduced to a bounded
number of launches in flight; their detail is in the backend modules.

### The IREE HAL driver: `HalCommands`, `HalTimeline`, `IreeObjects`, `IreeHal`, `MCIree`

`IreeObjects` holds the reference counts of `hal_driver.c` and what each object
keeps alive, allocation, mapping, executables and the recording of command
buffers, `IreeHal` queue operations: wait for semaphores, execute or replay
on the caller's thread, signal. `HalCommands` says what a command does to memory.
`HalTimeline` is the abstract specification: an operation starts when its waits are
satisfied, executes its commands in order, and signals last. `ImplementsTimeline`
is the refinement.

### The transports: `Outcomes`, `Transport*`, `Hsakmt*`, `MCTransport`, `MCHsakmt`

Functions of the transports are sequences of system calls, any of which may fail.
`Outcomes` writes such a function as an operator from a world to the set of
worlds it may leave; `w.faults` bounds how many calls fail and `w.may` which.
`TransportMemory` and `TransportQueue` are the direct KFD transport's `memory.cpp`,
with the scratch pool, and `queue.cpp`; `Transport` adds sessions,
signals, images and code-cache operations and lets two threads use them, a step
for each time the code takes a lock. `HsakmtMemory` and `HsakmtTransport` are the
same for libhsakmt: pools, leases, the reservation per node, queues, images. What
the kernel driver really holds (`va`, `bo`, `gpu`) is kept apart from what the code
remembers of it (`reservation`, `handle`, `mapped`); the properties compare the two.

### The loader: `CodeObject`, `KernelMetadata`, `ExecutableImage`, `Loader`, `MCLoader`, `LoaderProofs`

The pure functions of `light-rocr/loader` and `light-rocr/runtime` keep their names:
`CodeObject` has segments, the dynamic table, the relocation tables and the load
plan, `KernelMetadata` notes, descriptors and argument layouts,
`ExecutableImage` the second validation, placement and relocation. `Loader` runs them
as the code does, one step per phase or per round of a loop, and notes in `access`
the ranges the step touched. A `uint64` is a number of two digits of base `Base`, so
additions overflow within reach; a cell of file or memory is a digit. Tables in
the file are records at an offset. The reference the result is compared with
(`MeantCell`, `Justified`) is written from the raw entries of the object, without the
plan. `std::sort` is any rearrangement sorted by the key (`Sortings`): it is not stable.

## 3. Runs

| run | instance | distinct states | shows |
|---|---|---|---|
| `aql_ring` | two producers, ring of 4, batches up to 5 (more than the ring holds), 9 packets: the ring wraps twice | 6,214 | intact delivery, refinement of the FIFO, every reservation executed |
| `hsa` | two threads, four signals, ring of 3, barrier width 2: launches against synchronise and destroy; events recorded again while other queues and copies depend on them; copies among default-queue kernels | 267,914 | dependencies and order honoured, nothing dangles, signals intact, bookkeeping agrees with the ring, calls return |
| `light_rocr` | two threads, two queues, ring of 3, barrier width 1, submission failures; destroy, synchronise and ring replacement against use | 300,135 | retirement never dangles, lists agree with the ring and a synchronised queue is idle, signal reuse safe, calls return |
| `pin_count` | four pinning threads and a destroyer | 964 | no deletion under a pin, destruction ends |
| `graph` | both schedulers, two workers of two waves: a join and a fork over two mask words, a branch whose phases may run out, a graph not in stage order, a cyclic one | 306,369 | schedulers sound, both implement `TaskGraph`, every launch ends |
| `iree_hal` | two threads, two devices, one command buffer, one foreign semaphore; every runtime call may fail | 126,142 | counts equal holders, nothing dangles, implements `HalTimeline`, operations return |
| `direct_kfd` | two threads, two queues, ring of 4, barrier width 1, five dispatches, failures | 121,914 | nothing dangles, synchronised work complete, events tracked, calls return |
| `registry` | two threads, three builds, two device and one pinned allocation, one module, failures of init, synchronise, release, load and shutdown | 37,939 | references live, statistics balance, lifecycle consistent, copies exact, calls return |
| `transport` | two threads, two queues, three signal pages of two slots, scratch pool of 3 units, one or two failing system calls | 15,799 | nothing lost, GPU reaches only owned memory, scratch partitioned, calls return |
| `hsakmt_transport` | two threads with a session each, three pools of 4 units, up to two failing KMT calls | 12,239 | one registered reservation per node and partitioned pools, GPU reach, calls return |
| `loader` | 5,551 code objects around the boundaries of segments, dynamic table, hash, relocations, kernel symbols and argument layouts; four places | 53,366 | accesses in bounds, image as meant or refused for a reason, hidden arguments exact |
| `hsa_implicit` | the finding below | - | expected to be violated |

**Bounds.** Threads make a bounded number of calls, chosen from small sets; a member
of `Programs`, picked initially, says which, so that one run covers several
programs. Two threads suffice for the races listed under hazards: each is between
one thread that waits or destroys and one that uses. Rings of 2 to 4 slots are
filled and wrapped by the calls allowed; a barrier width of 1 or 2 yields full and
partial batches. Pools hold fewer signals than calls need, so signals are recycled.
The graphs have at most three tasks: with `WordSize` 1 a join already has
dependencies in both mask words, two workers suffice for every pair of racing
thread 0s, and two waves for a wave that lags behind thread 0. In the registry,
`Space` 5 makes allocations adjacent and `StagingSize` 2 cuts a copy into chunks. In
the transports two faults are a failure and the failure of its roll back; pools of
3 or 4 units split and merge. In the loader `Base` 8 makes a `uint64` a number below
64, a page is 4 cells and a table entry one; places are page-aligned, as the
transports allocate.

Deadlock is checked except where the system may stop: when the programs have ended
(`direct_kfd`, `registry`, `transport`, `hsakmt_transport`, `loader`), at the last
packet id (`aql_ring`), when a thread waits for a semaphore nobody signals
(`iree_hal`), and in `hsa`, where a copy ordered implicitly may close a circular wait
on the device. For the same reason `QueueCallsReturn` is about the programs without
implicit copies and without events that are recorded again.

**Fairness.** Weak fairness of each thread's next step, of the completion of an
executable packet or kernel and of a copy whose dependencies are satisfied. A
thread not blocked is scheduled by the operating system; the device makes progress
on its own. Mutex acquisition is a step of the thread: weak fairness is enough,
because the number of calls is bounded and a lock cannot be taken over and over. In
`transport` the GPU is not fair: a code-cache packet may never execute, the case the
time-out is for. For the stateful graph each wave, each thread 0 and each workgroup
barrier is weakly fair. That is the admission rule stated in
`compiled_scheduler.hpp` and `docs/stateful-graph.md`: every launched workgroup is
resident, so the hardware keeps scheduling its waves.

**Mutants.** Each property of a passing run has a mutant in `PROJECT.json`, a
plausible error in one mapped definition under which TLC finds the property
violated.

## 4. Findings and known limits of the properties

The run `hsa_implicit` disagrees with `lrrt.h`: `lr_memcpy_async` passes the completion
signals of pending default-queue dispatches to the copy engine without retaining
them; a reap re-arms them before the copy has seen them complete. The copy then
waits for a later kernel, which may itself wait for the copy.

The models show further behaviour that the passing runs leave out or do not claim.
Each can be reproduced by the change of a configuration named here:

- HSA event reuse (`Hsa.cfg` with `Programs <- ReusePrograms`, property
  `EventReuseReturns`). `reap_completed_queue_work_locked` retires barriers, then
  dispatches. A dispatch that completes between the two passes has its signal
  re-armed although a pending barrier still names it; the event that barrier
  depends on keeps a consumer, and recording it again never returns
  (`queue.cpp:379`; `docs/design.md:157-161`). The other two backends check for a naming
  barrier first.
- Stateful graph (`Graph.cfg` with `Graphs <- OnePair`, property `ExecutedOnce`). After the
  barrier that ends a round of the dynamic scheduler every wave reads the status
  for itself. If the launch ends between two of these reads, a wave finds the task
  selected last in shared memory and executes its part again
  (`docs/stateful-graph.md:36`). The compiled scheduler is not affected.
- Lifetime pins (`PinCount.cfg`, property `ReleaseOnLiveOwner`).
  `LifetimePinCount::release` locks the mutex of an object that the destroyer may have
  deleted as soon as the count was zero (`runtime_internal.hpp:46`).
- Direct KFD (`DirectKfd.cfg` with `Programs <- CopyRace` or `CapacityRace`, property
  `NothingDangles`). Destroying a copy event that another thread's synchronisation is
  finishing, and a capacity waiter that waits on the front pending event, which no
  pin protects (`queue.cpp:1548`, `1616`).
- IREE (`IreeHal.cfg` with `Programs <- RacePrograms`, property `NothingDangles`).
  `docs/iree-hal-mapping.md:85` has the allocator own the runtime lifetime its buffers
  need, but the process-wide reference is a plain counter (`hal_driver.c:256`): two
  threads that open and release devices at once may shut the runtime down under a
  buffer.

## 5. Proofs

TLAPS proves, for all values of the constants:

- `AqlRingProofs`: `RingInvariance`, `PacketsDeliveredIntact`,
  `OnlyFreeSlotsWritten`, `RingImplementsFifo`. Assumption: `RingAssumption`
  (positive ring and batch size). `DeliveredIntact` is not inductive: it needs
  that slots are congruent to ids (`SlotsDistinct`, `SlotPeriodic`), that one
  producer at a time is between reservation and doorbell (`MutexInv`), and for
  each id between the indices what its slot holds, given how far the producer is
  in its batch (`OpInv`, `SlotInv`). The refinement proof maps each fetch to a
  delivery and every other step to a reservation, a retirement or a stutter.
- `LifetimePinCountProofs`: `PinInvariance`, `PinsKeepOwnerAlive`,
  `NoLostWakeUp`, for any finite set of users. The invariant equates the count
  with the number of threads holding a pin and says that a sleeping destroyer
  has a pin holder or a notifier ahead.
- `LightRocrProofs`: `TypeCorrect` and `RetirementNeverDangles`, for any threads,
  queues, events and programs. The invariant is `TypeOK` with
  `NoDanglingRetirement`; the decisive step is `ReapDispatch`, whose guard
  `Reapable` refuses a dispatch that a pending barrier names.
- `LightRocrRing`, `LightRocrThreadProofs`, `LightRocrRingProofs`: `RingIsAccounted`
  (`RingAccounted`: everything in flight is on a list of its queue, the ring never
  holds more than its slots, it is freed idle, and a synchronisation returns with what
  it drained idle) and the action property `SignalsReusedSafely` (`SignalReuseSafe`: a
  signal is re-armed or freed only when no packet in flight and no thread refers to
  it), for any threads, queues, events, ring size and barrier width. Assumptions:
  `QueueAssumption` and `ProgramsAssumption` (each call is `WellFormed`).
  Neither property is inductive. `RingInv`, which TLC confirms on the instance of
  `light_rocr`, adds three things. `SharedInv`: positions in flight are distinct and
  written, a barrier stands before the dispatch that retires it, an event is on one
  list only. `CallInv`, for every thread in a call: its stack is one the routines
  can build (`Stacked`: which label may stand above which), and a call waiting
  without the lock has its event pinned, or marked for destruction. `HeldInv`, for
  the holder of the lock: what it has found out and will act upon, that is the event
  it is finishing (`FinishInv`), the event whose signal it is going to use again
  (`QuiesceInv`), the room it has waited for (`SubmitInv`) and the queues it has
  drained (`DrainInv`). The proof has one lemma per group of routines for the thread
  that moves (`OwnSteps`), frame lemmas for the others (`EventFrames`, `ThreadsKept`: an
  event another thread has pinned keeps its value and stays alive) and one for the
  packets and lists (`SharedSteps`, `DeviceShared`).
- `LoaderProofs`: `LoaderAccesses`, that is `AccessesInBounds` for every set of code
  objects, every word and page width, every place and every launch. Assumptions:
  `CellAssumption` (sizes are natural numbers, those divided by are positive),
  `ObjectAssumption` (objects are records of the fields the readers read, with an
  entry for each symbol the hash table counts and each relocation of a table that
  fits in the file) and `LaunchAssumption` (arguments are sequences of cells).
  `AccessesInBounds` speaks of the last step only. `LoaderInv` adds what the steps
  before it established: once past the first phase the segments passed
  `parse_segments`, so that an address `virtual_address_to_file` finds is in the file
  (`Lookup`), and from allocation to relocation the plan passed `validate_plan`, so
  that each copy, fill and relocation is in the image (`ValidPlan`, `ImageAccess`).
  The parser's checks bound what the readers touch and `validate_plan` what building
  the image touches; the argument nowhere needs the two to agree.

Only model-checked: every liveness property (the prover does not handle fairness
or `ENABLED`), the HSA and direct KFD backends, the registries, the stateful graph
executor, the IREE driver, the transports, and `LoadFaithful` and `KernargExact` of
the loader. Of the hsakmt backend only liveness (`CallsReturn`) is left to TLC.

## 6. Not modelled

General: error codes beyond success and failure, profiling, and failures of ROCr
calls that the code reports and that leave its state alone. Objects keep their
identity after deletion, so an access to freed memory shows only through the
properties that look for it; iterators into the registries kept across a wait
(`event.cpp:815`, `lr_free`) are below that level. Signals have no negative values.

By part:

- HSA: `lr_synchronize` of a whole device, shutdown's variants of the waits, the
  allocation lookup of copies.
- hsakmt backend: failures to release a kernarg buffer or a signal.
- Direct KFD backend: replacing the ring for scratch while another thread's marker is
  unconsumed (about `queue.cpp:1713`). Waiting for the markers of all queues is one
  step, and the device's queues are in creation order. Events exist from the start.
- Registries: `lr_init` concurrent with `lr_shutdown`; HSA calls inside the unlocked part
  of device synchronisation while `lr_shutdown` runs (`runtime.cpp:275`); rounding and
  overflow checks of sizes; partial acquisition of the VM; read-only getters. The
  allocator takes the lowest hole.
- Stateful graph: a second upload into the same buffers, and a launch without a new
  initialize.
- IREE: executable preparation from files and the marshalling of parameters.
  `Faults` leaves out a dispatch whose recording fails half-way
  (`hal_driver.c:2855`), which releases more than it retained; a failed wait that
  leaves the signal semaphores of its operation unresolved is modelled as the code
  does it. The product of workgroup count and size (2451) is not bounded to 32 bits.
- KFD transport: the end of a session, its monitor thread and fork. A shared page, trap
  handler or event page whose roll back fails as well is lost, as the comment at
  `kfd/queue.cpp:717` says; the programs of `SharedSignals` leave out `munmap` for that
  reason. Doorbell pages are part of the queue.
- hsakmt transport: one GPU node; invalid arguments are one fault; a buffer whose
  mapping and whose free both fail is lost by `KfdSession::allocate`, which no property
  claims otherwise; misaligned signal storage and exhaustion of host memory.
- Loader: MessagePack, ELF identification and most fields of a kernel descriptor are
  flags of the code object, parse errors are one; group and private segment sizes and
  the dynamic-stack refusal of a launch. Scratch sizing, signal layout and
  cache-maintenance packets are constant data layout.
- C++ wrappers and the double-buffer helper, the workload adapters (Triton, Qwen,
  SparseWave), bundles, the VMFB runner, topology, tools and examples have no module:
  they are clients of the interface, file formats, or I/O with the driver.
  `PROJECT.json` gives the reason for each.

## 7. Where to go on

1. Proofs: `SchedulersSound` for any number of workers and waves; the invariant of the
   hsakmt backend carried over to the direct KFD and HSA backends, whose waits give up
   the lock; the pools of the HSA backend.
2. Device synchronisation of the HSA backend, composed with `Registry`.
3. Session end and fork of the KFD transport with its monitor thread.
4. The double-buffer helper over an abstract event.
