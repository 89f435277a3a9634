------------------------------ MODULE Registry ------------------------------
(***************************************************************************)
(* The public calls on runtime, device, memory and modules, for the three  *)
(* builds.  A call that needs the device idle gives the lock up while it   *)
(* waits (HSA, direct KFD) or keeps it (hsakmt).                           *)
(***************************************************************************)
EXTENDS RegistryState, FiniteSetsExt

hsa == backend = "hsa"
hsakmt == backend = "hsakmt"
kfd == backend = "kfd"

MayFail(f) == f \in Faults
Open == dev.published /\ (hsa \/ (dev.opened /\ session))
OpenQueue == dev.published /\ (hsa \/ dev.opened) /\ (hsakmt \/ dev.queue)

memVars == <<mem, cleanup, stats, bytes>>

----------------------------------------------------------------------------
(* lr_init and lr_shutdown *)


(* The session opens before g_devices is filled; a failure takes the flag    *)
(* back.  hsa_init is process-wide at once, a KFD session only when it is   *)
(* published.                                                               *)
OpenSession(t) ==
  /\ At(t, "open")
  /\ \/ /\ session' = (session \/ hsa)
        /\ Goto(t, <<"publish">>)
        /\ init' = init
     \/ /\ MayFail("init")
        /\ init' = FALSE /\ session' = session
        /\ Return(t)
  /\ UNCHANGED <<backend, dev, lock, memVars, mod, work, left>>

PublishDevices(t) ==
  /\ At(t, "publish") /\ lock = Nil
  /\ dev' = [NoDevice EXCEPT !.published = TRUE]
  /\ stats' = NoStats
  /\ \/ session' = TRUE /\ init' = init
     \/ /\ hsa /\ MayFail("init")  \* select_device_regions fails: hsa_shut_down
        /\ session' = FALSE /\ init' = FALSE
  /\ Return(t)
  /\ UNCHANGED <<backend, lock, mem, cleanup, bytes, mod, work, left>>

(* The threads whose calls keep a queue pinned: submissions and, in the     *)
(* direct KFD build, device synchronisations and launches waiting for room. *)
Submitting(t) == At(t, "submit")
CapacityWaiting(t) == At(t, "capacity") \/ At(t, "retake")
Synchronizing(t) == kfd /\ (At(t, "device_wait") \/ (At(t, "relock") /\ "finish" \in Range(th[t].k)))

WaitForQueues(t) ==
  /\ Await(t, "queues_idle",
           \A o \in Threads : ~Submitting(o) /\ ~CapacityWaiting(o) /\ ~Synchronizing(o))
  /\ UNCHANGED <<lifeVars, dev, memVars, mod, work, left>>

wait_for_memory_operations(t) ==
  /\ Await(t, "memory_idle",
           \A m \in Mem \cup HostMem : mem[m].active = 0 /\ (kfd => ~mem[m].destroying))
  /\ UNCHANGED <<lifeVars, dev, memVars, mod, work, left>>

(* The last wait keeps the lock; hsakmt waits inside the release of queues. *)
(* drain_device_locked waits for everything even when a signal reports an   *)
(* error, the other two return at the first one.                            *)
DrainDevices(t) ==
  /\ At(t, "drain") /\ lock = t
  /\ \/ work = {} /\ Goto(t, <<>>)
     \/ /\ MayFail("sync") /\ (hsa => work = {})
        /\ th' = [th EXCEPT ![t].ok = FALSE, ![t].k = Tail(@)]
  /\ UNCHANGED <<lifeVars, dev, lock, memVars, mod, work, left>>

(* Everything that can be released is; what fails keeps its owner. *)
LiveMem == {m \in Mem \cup HostMem : mem[m].live}
Owned == LiveMem \cup {m \in Modules : mod[m].state # "none"}
         \cup (IF cleanup THEN {"cleanup"} ELSE {})
         \cup (IF dev.queue THEN {"queue"} ELSE {})
         \cup (IF dev.copy # "none" THEN {"copy"} ELSE {})

Erased(m) == [m EXCEPT !.live = FALSE, !.active = 0, !.destroying = FALSE]
release_modules(R) == mod' = [m \in Modules |-> IF m \in R THEN NoModule ELSE mod[m]]
(* Mutation: host memory leaves the registry and not the counters. *)
ReleaseUncounted(R) ==
  /\ mem' = [m \in Mem \cup HostMem |-> IF m \in R THEN Erased(mem[m]) ELSE mem[m]]
  /\ cleanup' = (cleanup /\ "cleanup" \notin R)
  /\ stats' = [stats EXCEPT
       !.device = record_free(@, MapThenSumSet(LAMBDA m : mem[m].size, R \cap Mem))]

release_memory_allocations(R) ==
  /\ mem' = [m \in Mem \cup HostMem |-> IF m \in R THEN Erased(mem[m]) ELSE mem[m]]
  /\ cleanup' = (cleanup /\ "cleanup" \notin R)
  /\ stats' = [stats EXCEPT
       !.device = record_free(@, MapThenSumSet(LAMBDA m : mem[m].size, R \cap Mem)),
       !.host = record_free(@, MapThenSumSet(LAMBDA m : mem[m].size, R \cap HostMem))]

(* HSA releases everything whatever fails.  hsakmt releases the queues      *)
(* first and nothing more if that fails; direct KFD goes through its stages *)
(* in order and stops at the first that fails.                              *)
Stages == IF kfd THEN <<{"copy"}, Modules, {"queue"}, LiveMem \cup {"cleanup"}>>
          ELSE <<{"queue"}, {"copy"} \cup Modules \cup LiveMem \cup {"cleanup"}>>
Releasable(bad) ==
  LET stop == {i \in DOMAIN Stages : Stages[i] \cap bad # {}}
      last == IF stop = {} THEN Len(Stages) ELSE Min(stop)
  IN  UNION {Stages[i] : i \in 1 .. last} \ bad

ReleaseRuntime(t) ==
  /\ At(t, "release") /\ lock = t
  /\ \E bad \in SUBSET Owned :
       LET R == IF hsa THEN Owned ELSE IF th[t].ok THEN Releasable(bad) ELSE {}
           done == Owned \subseteq R
       IN  /\ bad = {} \/ (MayFail("release") /\ ~hsa /\ th[t].ok)
           /\ release_modules(R)
           /\ release_memory_allocations(R)
           /\ dev' = IF done THEN NoDevice
                     ELSE [dev EXCEPT !.queue = @ /\ "queue" \notin R,
                                      !.copy = IF "copy" \in R THEN "none"
                                               ELSE IF "copy" \in bad /\ kfd THEN "broken"
                                               ELSE @]
           /\ session' = (session /\ IF hsa THEN th[t].ok ELSE ~done)
           /\ init' = (init \/ ~done)
           /\ IF hsa /\ th[t].ok THEN Goto(t, <<"hsa_shut_down">>) ELSE Return(t)
  /\ lock' = Nil
  /\ UNCHANGED <<backend, bytes, work, left>>

HsaShutDown(t) ==
  /\ At(t, "hsa_shut_down")
  /\ \/ session' = FALSE /\ init' = init
     \/ MayFail("hsa_shut_down") /\ init' = TRUE /\ session' = session
  /\ Return(t)
  /\ UNCHANGED <<backend, dev, lock, memVars, mod, work, left>>

lr_device_open(t) ==
  /\ Locked(t, "device_open")
  /\ \/ /\ dev.published
        /\ dev' = [dev EXCEPT !.queue = TRUE, !.opened = ~hsa]
     \/ /\ ~dev.published \/ MayFail("queue")  \* acquire_vm or the default queue
        /\ dev' = dev
  /\ Return(t)
  /\ UNCHANGED <<lifeVars, lock, memVars, mod, work, left>>

----------------------------------------------------------------------------
(* Synchronising the device *)

SyncDevice == IF hsakmt THEN <<"synchronize">>
              ELSE (IF kfd THEN <<"device_idle">> ELSE <<>>)
                   \o <<"prepare", "device_wait", "relock", "finish">>

(* synchronize_light_rocr_device_locked *)
SynchronizeLocked(t) ==
  /\ At(t, "synchronize") /\ lock = t
  /\ \/ work = {} /\ Goto(t, <<>>)
     \/ MayFail("sync") /\ th' = [th EXCEPT ![t].ok = FALSE, ![t].k = Tail(@)]
  /\ UNCHANGED <<lifeVars, dev, lock, memVars, mod, work, left>>

(* Mutation: the markers do not wait for launches that wait for room. *)
MarkAtOnce(t) ==
  /\ Await(t, "device_idle", TRUE)
  /\ UNCHANGED <<lifeVars, dev, memVars, mod, work, left>>

(* No queue is waiting for room when the markers go in. *)
DeviceIdle(t) ==
  /\ Await(t, "device_idle", \A o \in Threads : ~CapacityWaiting(o))
  /\ UNCHANGED <<lifeVars, dev, memVars, mod, work, left>>

(* The markers stand behind everything submitted; a marker that cannot be   *)
(* submitted ends the preparation, and what was marked is still waited for. *)
prepare_device_synchronization(t) ==
  /\ At(t, "prepare") /\ lock = t
  /\ \/ th' = [th EXCEPT ![t].waits = work, ![t].k = Tail(@)]
     \/ MayFail("sync") /\ th' = [th EXCEPT ![t].ok = FALSE, ![t].k = Tail(@)]
  /\ lock' = Nil
  /\ UNCHANGED <<lifeVars, dev, memVars, mod, work, left>>

wait_for_device_synchronization(t) ==
  /\ At(t, "device_wait") /\ th[t].waits \cap work = {}
  /\ Goto(t, <<>>)
  /\ UNCHANGED <<lifeVars, dev, lock, memVars, mod, work, left>>

finish_device_synchronization(t) ==
  /\ At(t, "finish") /\ lock = t
  /\ th' = [th EXCEPT ![t].waits = {}, ![t].k = Tail(@)]
  /\ UNCHANGED <<lifeVars, dev, lock, memVars, mod, work, left>>

lr_synchronize(t) ==
  /\ Locked(t, "synchronize")
  /\ IF OpenQueue THEN lock' = t /\ Goto(t, SyncDevice \o <<"unlock">>)
     ELSE lock' = lock /\ Return(t)
  /\ UNCHANGED <<lifeVars, dev, memVars, mod, work, left>>

Unlock(t) ==
  /\ At(t, "unlock")
  /\ lock' = Nil
  /\ Return(t)
  /\ UNCHANGED <<lifeVars, dev, memVars, mod, work, left>>

----------------------------------------------------------------------------
(* lr_malloc, lr_host_malloc, lr_free, lr_host_free and the counters *)

Allocate(t) ==
  LET c == th[t].call
      kind == Kind(c.obj)
      holes == Holes(kind, c.size)
  IN  /\ Open /\ holes # {}
      /\ mem' = [mem EXCEPT ![c.obj] =
                   [NoMem EXCEPT !.live = TRUE, !.base = Min(holes), !.size = c.size]]
      /\ stats' = [stats EXCEPT ![kind] = record_allocation(@, c.size)]
      /\ cleanup' = cleanup
CannotAllocate(c) ==
  Open => MayFail("allocate") \/ Holes(Kind(c.obj), c.size) = {}

(* A block that could not be mapped nor released is kept for lr_shutdown.   *)
lr_malloc(t) ==
  LET c == th[t].call
  IN  /\ Locked(t, "malloc") /\ c.obj \in Mem
      /\ \/ Allocate(t)
         \/ /\ CannotAllocate(c)
            /\ cleanup' = cleanup \/ (Open /\ ~hsa /\ MayFail("release") /\ cleanup' = TRUE)
            /\ UNCHANGED <<mem, stats>>
      /\ Return(t)
      /\ UNCHANGED <<lifeVars, dev, lock, bytes, mod, work, left>>

(* Pinned memory that could not be registered is unpinned at once.          *)
lr_host_malloc(t) ==
  LET c == th[t].call
  IN  /\ Locked(t, "malloc") /\ c.obj \in HostMem
      /\ \/ Allocate(t)
         \/ CannotAllocate(c) /\ UNCHANGED <<mem, cleanup, stats>>
      /\ Return(t)
      /\ UNCHANGED <<lifeVars, dev, lock, bytes, mod, work, left>>

FreeBegin(t) ==
  LET m == th[t].call.obj
  IN  /\ Locked(t, "free")
      /\ IF mem[m].live /\ ~mem[m].destroying /\ (hsa \/ dev.opened)
         THEN /\ mem' = [mem EXCEPT ![m].destroying = TRUE]
              /\ lock' = t
              /\ Goto(t, <<"operations_done", "recheck">> \o SyncDevice \o <<"free">>)
         ELSE UNCHANGED <<mem, lock>> /\ Return(t)
      /\ UNCHANGED <<lifeVars, dev, cleanup, stats, bytes, mod, work, left>>

OperationsDone(t) ==
  /\ Await(t, "operations_done", mem[th[t].call.obj].active = 0)
  /\ UNCHANGED <<lifeVars, dev, memVars, mod, work, left>>

(* Only the HSA build looks the pointer up again after that wait. *)
Recheck(t) ==
  /\ At(t, "recheck")
  /\ IF hsa /\ ~mem[th[t].call.obj].live
     THEN lock' = Nil /\ Return(t)
     ELSE lock' = lock /\ Goto(t, <<>>)
  /\ UNCHANGED <<lifeVars, dev, memVars, mod, work, left>>

(* An error leaves the allocation registered and usable. *)
FreeEnd(t) ==
  LET m == th[t].call.obj
      kind == Kind(m)
  IN  /\ At(t, "free") /\ lock = t
      /\ \/ /\ th[t].ok
            /\ mem' = [mem EXCEPT ![m] = Erased(@)]
            /\ stats' = [stats EXCEPT ![kind] = record_free(@, mem[m].size)]
         \/ /\ ~th[t].ok \/ MayFail("release")
            /\ mem' = [mem EXCEPT ![m].destroying = FALSE]
            /\ stats' = stats
      /\ lock' = Nil
      /\ Return(t)
      /\ UNCHANGED <<lifeVars, dev, cleanup, bytes, mod, work, left>>

FreeSteps(t) == FreeBegin(t) \/ OperationsDone(t) \/ Recheck(t) \/ FreeEnd(t)
lr_free(t) == th[t].call.obj \in Mem /\ FreeSteps(t)
lr_host_free(t) == th[t].call.obj \in HostMem /\ FreeSteps(t)

lr_reset_memory_stats(t) ==
  /\ Locked(t, "reset_stats")
  /\ stats' = IF dev.published THEN [k \in DOMAIN stats |-> [stats[k] EXCEPT !.peak = stats[k].live]]
              ELSE stats
  /\ Return(t)
  /\ UNCHANGED <<lifeVars, dev, lock, mem, cleanup, bytes, mod, work, left>>

----------------------------------------------------------------------------
(* lr_memcpy and lr_memcpy_async.  obj is the destination and src the       *)
(* source; the side that is not a device pointer is a pinned host pointer,  *)
(* or Nil for pageable memory.                                              *)

To(c) == Address(c.obj, c.off)
From(c) == Address(c.src, c.soff)
DeviceToDevice(c) == c.obj \in Mem /\ c.src \in Mem
Overlaps(d, s, n) == d < s + n /\ s < d + n

(* Per side of the copy: its pointer and address *)
Sides(c) == {<<c.obj, To(c)>>, <<c.src, From(c)>>}
SideOk(c, s) ==
  IF s[1] \in Mem THEN find_allocation(s[2], c.size) # {}
  ELSE translate_host_pointer(s[2], c.size) # "Invalid"
CopyValid(c) == \A s \in Sides(c) : SideOk(c, s)

(* hsakmt copies only pinned memory asynchronously, and the copy kernel of  *)
(* the direct KFD build no overlapping ranges.                              *)
HsakmtAsyncValid(c) ==
  CopyValid(c) /\ \A s \in Sides(c) : s[1] \in Mem \/ HostOwner(s[2]) # {}
KfdAsyncValid(c) ==
  /\ CopyValid(c)
  /\ DeviceToDevice(c) => To(c) = From(c) \/ ~Overlaps(To(c), From(c), c.size)
AsyncValid(c) == CASE hsa -> CopyValid(c)
                   [] hsakmt -> HsakmtAsyncValid(c)
                   [] kfd -> KfdAsyncValid(c)

(* What the copy touches of what the runtime owns, and what it pins *)
Touched(c) ==
  UNION {Bytes(Kind(s[1]), s[2], c.size) : s \in {x \in Sides(c) : x[1] # Nil}}
PinnedBy(c) ==
  UNION {IF s[1] \in Mem THEN find_allocation(s[2], c.size) ELSE HostOwner(s[2]) :
           s \in Sides(c)}

(* A kernel copies a whole range at once.  Overlapping ranges go through    *)
(* the staging buffer chunk by chunk, from the end when moving up.          *)
CopyRange(b, d, s, n) ==
  [a \in DOMAIN b |-> IF a \in d .. d + n - 1 THEN b[s + a - d] ELSE b[a]]
ChunkCount(n) == (n + StagingSize - 1) \div StagingSize
ForwardChunks(n) ==
  [i \in 1 .. ChunkCount(n) |->
     LET off == (i - 1) * StagingSize IN [off |-> off, len |-> Min({n - off, StagingSize})]]
(* Mutation: the chunks of a copy that moves up are taken from the start. *)
ChunksFromStart(n) == ForwardChunks(n)

BackwardChunks(n) ==
  [i \in 1 .. ChunkCount(n) |->
     LET rest == n - (i - 1) * StagingSize
         len == Min({rest, StagingSize})
     IN  [off |-> rest - len, len |-> len]]
CopyDevice(b, d, s, n) ==
  LET chunk(acc, x) == CopyRange(acc, d + x.off, s + x.off, x.len)
  IN  CASE d = s -> b
        [] ~Overlaps(d, s, n) -> CopyRange(b, d, s, n)
        [] Overlaps(d, s, n) /\ d > s -> FoldLeft(chunk, b, BackwardChunks(n))
        [] Overlaps(d, s, n) /\ d < s -> FoldLeft(chunk, b, ForwardChunks(n))

MemcpyBegin(t, pins, steps) ==
  /\ Locked(t, "memcpy")
  /\ IF Open /\ CopyValid(th[t].call)
     THEN /\ mem' = [m \in DOMAIN mem |->
                      IF m \in pins THEN [mem[m] EXCEPT !.active = @ + 1] ELSE mem[m]]
          /\ lock' = t
          /\ th' = [th EXCEPT ![t].pins = pins, ![t].k = SyncDevice \o steps \o <<"memcpy_end">>]
     ELSE UNCHANGED <<mem, lock>> /\ Return(t)
  /\ UNCHANGED <<lifeVars, dev, cleanup, stats, bytes, mod, work, left>>

HsaMemcpy(t) == hsa /\ MemcpyBegin(t, PinnedBy(th[t].call), <<"host_copy", "relock">>)
HsakmtMemcpy(t) == hsakmt /\ MemcpyBegin(t, {}, <<>>)
KfdMemcpy(t) == kfd /\ MemcpyBegin(t, PinnedBy(th[t].call), <<"copy_state">>)

(* hsa_memory_copy runs without the lock. *)
HostCopy(t) ==
  /\ At(t, "host_copy") /\ lock = t
  /\ IF th[t].ok THEN lock' = Nil /\ Goto(t, <<>>)
     ELSE lock' = lock /\ Goto(t, <<"memcpy_end">>)
  /\ UNCHANGED <<lifeVars, dev, memVars, mod, work, left>>

(* The copy kernel and its staging memory are made at the first copy. *)
EnsureCopyState(t) ==
  /\ At(t, "copy_state") /\ lock = t
  /\ \/ /\ th[t].ok /\ (dev.copy = "ready" \/ (dev.copy = "none" /\ (kfd => dev.queue)))
        /\ dev' = [dev EXCEPT !.copy = "ready"]
        /\ Goto(t, <<>>)
     \/ /\ ~th[t].ok \/ dev.copy = "broken" \/ (dev.copy = "none" /\ (MayFail("load") \/ ~dev.queue))
        /\ dev' = dev
        /\ th' = [th EXCEPT ![t].ok = FALSE, ![t].k = <<"memcpy_end">>]
  /\ UNCHANGED <<lifeVars, lock, memVars, mod, work, left>>

(* Mutation: a copy that failed leaves its allocations pinned. *)
MemcpyEndPinned(t) ==
  LET c == th[t].call
  IN  /\ At(t, "memcpy_end") /\ lock = t
      /\ mem' = [m \in DOMAIN mem |->
                   IF th[t].ok /\ m \in th[t].pins /\ mem[m].live
                   THEN [mem[m] EXCEPT !.active = @ - 1] ELSE mem[m]]
      /\ lock' = Nil
      /\ Return(t)
      /\ UNCHANGED <<lifeVars, dev, cleanup, stats, bytes, mod, work, left>>

MemcpyEnd(t) ==
  LET c == th[t].call
  IN  /\ At(t, "memcpy_end") /\ lock = t
      /\ bytes' = IF th[t].ok /\ DeviceToDevice(c)
                  THEN IF kfd THEN CopyDevice(bytes, To(c), From(c), c.size)
                       ELSE CopyRange(bytes, To(c), From(c), c.size)
                  ELSE bytes
      /\ mem' = [m \in DOMAIN mem |->
                   IF m \in th[t].pins /\ mem[m].live
                   THEN [mem[m] EXCEPT !.active = @ - 1] ELSE mem[m]]
      /\ lock' = Nil
      /\ Return(t)
      /\ UNCHANGED <<lifeVars, dev, cleanup, stats, mod, work, left>>

(* An asynchronous copy pins nothing: it is work the destructors wait for. *)
Submitted(t, m, addresses) ==
  work' = work \cup {[id |-> <<t, Len(left[t])>>, mod |-> m, uses |-> addresses]}

AsyncBegin(t) ==
  /\ Locked(t, "memcpy_async")
  /\ IF Open /\ AsyncValid(th[t].call)
     THEN lock' = t /\ Goto(t, (IF hsa THEN <<>> ELSE <<"copy_state">>) \o <<"async_submit">>)
     ELSE lock' = lock /\ Return(t)
  /\ UNCHANGED <<lifeVars, dev, memVars, mod, work, left>>

AsyncSubmit(t) ==
  /\ At(t, "async_submit") /\ lock = t
  /\ hsa \/ ~dev.queue \/ Cardinality(work) < RingSize
  /\ IF hsa \/ dev.queue THEN Submitted(t, Nil, Touched(th[t].call)) ELSE work' = work
  /\ lock' = Nil
  /\ Return(t)
  /\ UNCHANGED <<lifeVars, dev, memVars, mod, left>>

----------------------------------------------------------------------------
(* Modules and launches *)

HsaModuleLoad(m) ==
  \/ Open /\ mod' = [mod EXCEPT ![m] = [NoModule EXCEPT !.state = "live"]]
  \/ (~Open \/ MayFail("load")) /\ mod' = mod

(* Freezing the image goes through the default queue, so it needs one. *)
HsakmtModuleLoad(m) ==
  \/ Open /\ dev.queue /\ mod' = [mod EXCEPT ![m] = [NoModule EXCEPT !.state = "live"]]
  \/ (~Open \/ ~dev.queue \/ MayFail("load")) /\ mod' = mod

(* A module whose clean-up fails is kept for lr_shutdown. *)
KfdModuleLoad(m) ==
  \/ HsakmtModuleLoad(m)
  \/ /\ Open /\ dev.queue /\ MayFail("load") /\ MayFail("release")
     /\ mod' = [mod EXCEPT ![m] = [NoModule EXCEPT !.state = "cleanup", !.destroying = TRUE]]

lr_module_load(t) ==
  LET m == th[t].call.obj
  IN  /\ Locked(t, "module_load")
      /\ \/ hsa /\ HsaModuleLoad(m)
         \/ hsakmt /\ HsakmtModuleLoad(m)
         \/ kfd /\ KfdModuleLoad(m)
      /\ Return(t)
      /\ UNCHANGED <<lifeVars, dev, lock, memVars, work, left>>

Registered(m) == mod[m].state = "live" /\ ~mod[m].destroying
valid_kernel(m) == Registered(m) /\ mod[m].kernels

lr_kernel_get(t) ==
  LET m == th[t].call.obj
  IN  /\ Locked(t, "kernel_get")
      /\ mod' = IF Registered(m) /\ (hsa \/ dev.opened)
                THEN [mod EXCEPT ![m].kernels = TRUE] ELSE mod
      /\ Return(t)
      /\ UNCHANGED <<lifeVars, dev, lock, memVars, work, left>>

(* A kernel is given the whole of an allocation to work on. *)
KernelUses(m) == IF m = Nil THEN {} ELSE Bytes("device", mem[m].base, mem[m].size)

(* HSA pins the module and submits without the lock.  hsakmt waits for room *)
(* with the lock, direct KFD without it and turns away whoever finds the    *)
(* queue waiting.                                                           *)
LaunchBegin(t) ==
  LET c == th[t].call
  IN  /\ Locked(t, "launch")
      /\ IF /\ valid_kernel(c.obj) /\ dev.published /\ dev.queue
            /\ kfd => \A o \in Threads : ~CapacityWaiting(o)
         THEN /\ lock' = IF hsa THEN Nil ELSE t
              /\ mod' = IF hsa THEN [mod EXCEPT ![c.obj].pins = @ + 1] ELSE mod
              /\ Goto(t, IF hsa THEN <<"submit">> ELSE <<"launch">>)
         ELSE UNCHANGED <<lock, mod>> /\ Return(t)
      /\ UNCHANGED <<lifeVars, dev, memVars, work, left>>

HsaSubmit(t) ==
  LET c == th[t].call
  IN  /\ Submitting(t)
      /\ Submitted(t, c.obj, KernelUses(c.src))
      /\ mod' = [mod EXCEPT ![c.obj].pins = @ - 1]
      /\ Return(t)
      /\ UNCHANGED <<lifeVars, dev, lock, memVars, left>>

LaunchSubmit(t) ==
  LET c == th[t].call
      room == Cardinality(work) < RingSize
  IN  /\ At(t, "launch") /\ lock = t
      /\ \/ /\ room
            /\ Submitted(t, c.obj, KernelUses(c.src))
            /\ Return(t)
         \/ /\ kfd /\ ~room
            /\ th' = [th EXCEPT ![t].waits = work, ![t].k = <<"capacity", "retake", "launch">>]
            /\ work' = work
      /\ lock' = Nil
      /\ UNCHANGED <<lifeVars, dev, memVars, mod, left>>

(* The signal of the oldest dispatch: one of those that were in the ring. *)
CapacityWait(t) ==
  /\ At(t, "capacity") /\ ~(th[t].waits \subseteq work)
  /\ Goto(t, <<>>)
  /\ UNCHANGED <<lifeVars, dev, lock, memVars, mod, work, left>>

Retake(t) ==
  /\ At(t, "retake") /\ lock = Nil
  /\ lock' = t
  /\ th' = [th EXCEPT ![t].waits = {}, ![t].k = Tail(@)]
  /\ UNCHANGED <<lifeVars, dev, memVars, mod, work, left>>

ModuleDestroyBegin(t) ==
  LET m == th[t].call.obj
  IN  /\ Locked(t, "module_destroy")
      /\ IF Registered(m) /\ dev.published /\ (hsa \/ dev.opened)
         THEN /\ mod' = [mod EXCEPT ![m].destroying = TRUE]
              /\ lock' = IF hsa THEN Nil ELSE t
              /\ Goto(t, (IF hsa THEN <<"submissions_empty", "relock">> ELSE <<>>)
                         \o SyncDevice \o <<"unload">>)
         ELSE UNCHANGED <<lock, mod>> /\ Return(t)
      /\ UNCHANGED <<lifeVars, dev, memVars, work, left>>

(* module->active_submissions.wait_until_empty() *)
SubmissionsEmpty(t) ==
  /\ At(t, "submissions_empty") /\ mod[th[t].call.obj].pins = 0
  /\ Goto(t, <<>>)
  /\ UNCHANGED <<lifeVars, dev, lock, memVars, mod, work, left>>

Unload(t) ==
  LET m == th[t].call.obj
  IN  /\ At(t, "unload") /\ lock = t
      /\ \/ th[t].ok /\ mod' = [mod EXCEPT ![m] = NoModule]
         \/ /\ ~th[t].ok \/ (~hsa /\ MayFail("release"))
            /\ mod' = [mod EXCEPT ![m].destroying = FALSE]
      /\ lock' = Nil
      /\ Return(t)
      /\ UNCHANGED <<lifeVars, dev, memVars, work, left>>

----------------------------------------------------------------------------
(* The client: lr_init and lr_shutdown are not called at the same time, nor *)
(* anything during lr_init; a pointer is used once it has been returned.    *)
Running(t) == th[t].k # <<>>
Lifecycle == {"init", "shutdown"}
Exclusive(t, c) ==
  /\ c.name \in Lifecycle =>
       \A o \in Threads \ {t} : Running(o) => th[o].call.name \notin Lifecycle
  /\ \A o \in Threads \ {t} : Running(o) => th[o].call.name # "init"
  /\ c.name = "init" => \A o \in Threads : ~Running(o)
  /\ c.name # "malloc" => \A m \in {c.obj, c.src} \cap (Mem \cup HostMem) : mem[m].base # 0

Shutdown == IF hsa THEN <<"queues_idle", "memory_idle", "drain", "release">>
            ELSE IF hsakmt THEN <<"drain", "release">>
            ELSE <<"queues_idle", "memory_idle", "drain", "release">>

(* Every call reads g_initialized first; lr_init and lr_shutdown turn it.   *)
Invoke(t) ==
  /\ ~Running(t) /\ left[t] # <<>>
  /\ \E c \in Head(left[t]) :
       /\ Exclusive(t, c)
       /\ CASE c.name = "init" ->
                 /\ init' = TRUE
                 /\ th' = IF init THEN th
                          ELSE [th EXCEPT ![t] = [Idle EXCEPT !.call = c, !.k = <<"open">>]]
            [] c.name = "shutdown" ->
                 /\ init' = FALSE
                 /\ th' = IF init THEN [th EXCEPT ![t] = [Idle EXCEPT !.call = c,
                                          !.k = <<"relock">> \o Shutdown]] ELSE th
            [] c.name \notin Lifecycle ->
                 /\ init' = init
                 /\ th' = IF init THEN [th EXCEPT ![t] = [Idle EXCEPT !.call = c,
                                          !.k = <<"enter">>]] ELSE th
  /\ left' = [left EXCEPT ![t] = Tail(@)]
  /\ UNCHANGED <<backend, session, dev, lock, memVars, mod, work>>

Step(t) ==
  \/ OpenSession(t) \/ PublishDevices(t) \/ WaitForQueues(t)
  \/ wait_for_memory_operations(t) \/ DrainDevices(t) \/ ReleaseRuntime(t)
  \/ HsaShutDown(t) \/ lr_device_open(t) \/ Relock(t) \/ Unlock(t)
  \/ SynchronizeLocked(t) \/ DeviceIdle(t) \/ prepare_device_synchronization(t)
  \/ wait_for_device_synchronization(t) \/ finish_device_synchronization(t)
  \/ lr_synchronize(t) \/ lr_malloc(t) \/ lr_host_malloc(t) \/ lr_free(t)
  \/ lr_host_free(t) \/ lr_reset_memory_stats(t)
  \/ HsaMemcpy(t) \/ HsakmtMemcpy(t) \/ KfdMemcpy(t)
  \/ HostCopy(t) \/ EnsureCopyState(t) \/ MemcpyEnd(t) \/ AsyncBegin(t)
  \/ AsyncSubmit(t) \/ lr_module_load(t) \/ lr_kernel_get(t) \/ LaunchBegin(t)
  \/ HsaSubmit(t) \/ LaunchSubmit(t) \/ CapacityWait(t) \/ Retake(t)
  \/ ModuleDestroyBegin(t) \/ SubmissionsEmpty(t) \/ Unload(t)

Next ==
  \/ \E t \in Threads : Step(t) \/ Invoke(t)
  \/ WorkCompletes

Spec == Init /\ [][Next]_vars

(* Threads are scheduled and the device retires its work. *)
FairSpec ==
  /\ Spec
  /\ \A t \in Threads : WF_vars(Step(t))
  /\ WF_vars(WorkCompletes)

----------------------------------------------------------------------------
InCall(t, label) == label \in Range(th[t].k)

(* Nothing is released under its users.  Work on the device finds its       *)
(* module loaded and every address it touches inside a live allocation; a   *)
(* thread that copies, frees, unloads, submits or waits for the device      *)
(* without the lock finds what it will touch next still registered.         *)
ReferencesLive ==
  /\ \A w \in work : /\ w.uses \subseteq Occupied("device") \cup Occupied("host")
                      /\ w.mod # Nil => mod[w.mod].state = "live"
  /\ \A t \in Threads :
       /\ \A m \in th[t].pins : mem[m].live
       /\ InCall(t, "free") /\ ~InCall(t, "recheck") => mem[th[t].call.obj].live
       /\ InCall(t, "unload") \/ Submitting(t) => mod[th[t].call.obj].state = "live"
       /\ InCall(t, "finish") => dev.published

(* The live bytes lr_get_memory_stats reports are the sizes of the          *)
(* registered allocations, whatever failed or was retried; the peak is not  *)
(* below them.                                                              *)
StatsBalanced ==
  lock = Nil /\ dev.published =>
    \A k \in {"device", "host"} :
      LET S == {m \in LiveMem : Kind(m) = k}
      IN  /\ stats[k].live = MapThenSumSet(LAMBDA m : mem[m].size, S)
          /\ stats[k].peak >= stats[k].live


(* lr_memcpy between device ranges copies like memmove, overlapping or not. *)
CopyExact ==
  [][\A t \in Threads :
       At(t, "memcpy_end") /\ th[t].ok /\ th'[t].k = <<>> /\ DeviceToDevice(th[t].call) =>
         LET c == th[t].call
         IN  bytes' = CopyRange(bytes, To(c), From(c), c.size)]_vars

(* Every call returns. *)
CallsReturn == \A t \in Threads : Running(t) ~> ~Running(t)
=============================================================================
