---------------------------- MODULE IreeObjects -----------------------------
(***************************************************************************)
(* The objects of the IREE HAL adapter (executor/iree/hal_driver.c): the   *)
(* process-wide reference to the lrrt runtime, devices, allocators,        *)
(* buffers, executables and command buffers, who keeps whom alive, and     *)
(* what recording a command retains.  The adapter takes no lock: reference *)
(* counts of objects are atomic, the count of the runtime is a plain int   *)
(* whose increment is a load and a store.                                  *)
(*                                                                         *)
(*   runtime  the two globals, and whether lrrt is initialised             *)
(*   ref      reference counts, 0 before creation and after destruction    *)
(*   held     the handles the application holds                            *)
(*   mem      device memory of a buffer, NoMem when it has none            *)
(*   gpu      kernels launched and not complete, in launch order           *)
(*   th       the call a thread is in: pc is its next step, n a value it   *)
(*            has read, drop the objects it still has to release           *)
(***************************************************************************)
EXTENDS HalCommands, FiniteSets, SequencesExt

CONSTANTS Threads, Devices, Allocators, HostBuffers, Executables,
          CommandBuffers, Semaphores,
          Foreign,          \* semaphores of another driver
          MaxBindings,      \* LRRT_IREE_HAL_MAX_INLINE_BINDINGS
          BindingCapacity,  \* binding_capacity of a command buffer
          MaxFileOffset,    \* UINT64_MAX
          KernelNames,      \* the symbols of the module
          Faults,           \* the calls that may fail
          Programs          \* the calls of each thread: one of each set in turn

ASSUME IreeAssumption ==
  /\ HostBuffers \subseteq Buffers /\ Foreign \subseteq Semaphores
  /\ Size \in Nat \ {0} /\ Modulus \in Nat \ {0}
  /\ MaxBindings \in Nat /\ BindingCapacity \in Nat

VARIABLES runtime, ref, held, dev, buf, mem, exe, rec, sem, gpu, th, left

vars == <<runtime, ref, held, dev, buf, mem, exe, rec, sem, gpu, th, left>>

Objects == Devices \cup Allocators \cup Buffers \cup Executables \cup CommandBuffers

Idle == [pc |-> "idle", call |-> [op |-> "none"], i |-> 0, st |-> "ok", n |-> 0,
         stage |-> NoMem, drop |-> <<>>, then |-> "idle"]
NoBuffer == [alloc |-> Nil, usage |-> {}, shadow |-> NoMem]
NoModule == [loaded |-> FALSE, funcs |-> <<>>]
NewRecords == [cmds |-> <<>>, bindings |-> 0]

At(t, pc) == th[t].pc = pc
Call(t) == th[t].call
Goto(t, pc) == th' = [th EXCEPT ![t].pc = pc]
Error(t, pc) == th' = [th EXCEPT ![t].pc = pc, ![t].st = "err"]
Return(t) == th' = [th EXCEPT ![t] = Idle]

(* A call into lrrt or an allocation that the environment lets fail. *)
MayFail(what) == what \in Faults

(* Every object a command, or a call, names. *)
RefBuffers(refs) == {r.buf : r \in refs} \ {Nil}
CmdObjects(c) == RefBuffers(CmdRefs(c)) \cup (IF c.k = "dispatch" THEN {c.exe} ELSE {})

(* The references a record holds, one per mention. *)
CmdRetains(c) ==
  LET bufs == SelectSeq(CASE c.k = "dispatch" -> [i \in 1 .. Len(c.args) |-> c.args[i].buf]
                          [] c.k = "copy" -> <<c.src.buf, c.dst.buf>>
                          [] OTHER -> <<c.dst.buf>>, LAMBDA b : b # Nil)
  IN IF c.k = "dispatch" THEN Append(bufs, c.exe) ELSE bufs
RecordRetains(cb) == FlattenSeq([i \in 1 .. Len(rec[cb].cmds) |-> CmdRetains(rec[cb].cmds[i])])
Count(o, s) == Cardinality({i \in 1 .. Len(s) : s[i] = o})
Retain(f, s) == [o \in Objects |-> f[o] + Count(o, s)]
-----------------------------------------------------------------------------
(* The runtime reference *)

(* lrrt_iree_hal_runtime_retain: the first reference initialises lrrt *)
RuntimeRetain(t) ==
  /\ At(t, "retain")
  /\ \/ runtime.count # 0 /\ Goto(t, "retain_load") /\ UNCHANGED runtime
     \/ /\ runtime.count = 0
        /\ \/ Goto(t, "retain_load") /\ runtime' = [runtime EXCEPT !.up = TRUE, !.owns = ~runtime.up]
           \/ MayFail("lr_init") /\ ~runtime.up /\ Return(t) /\ UNCHANGED runtime
  /\ UNCHANGED <<ref, held, dev, buf, mem, exe, rec, sem, gpu, left>>

(* ++g_lrrt_iree_hal_runtime_ref_count: a load ... *)
RuntimeRetainLoad(t) ==
  /\ At(t, "retain_load")
  /\ th' = [th EXCEPT ![t].n = runtime.count, ![t].pc = "retain_store"]
  /\ UNCHANGED <<runtime, ref, held, dev, buf, mem, exe, rec, sem, gpu, left>>

(* ... and a store *)
RuntimeRetainStore(t) ==
  /\ At(t, "retain_store")
  /\ runtime' = [runtime EXCEPT !.count = th[t].n + 1]
  /\ Goto(t, "open")
  /\ UNCHANGED <<ref, held, dev, buf, mem, exe, rec, sem, gpu, left>>

(* lrrt_iree_hal_runtime_release: nothing to do at zero, else a load ... *)
RuntimeRelease(t) ==
  /\ At(t, "release")
  /\ th' = IF runtime.count = 0 THEN [th EXCEPT ![t].pc = "drop"]
           ELSE [th EXCEPT ![t].n = runtime.count, ![t].pc = "release_store"]
  /\ UNCHANGED <<runtime, ref, held, dev, buf, mem, exe, rec, sem, gpu, left>>

(* ... a store ... *)
RuntimeReleaseStore(t) ==
  /\ At(t, "release_store")
  /\ runtime' = [runtime EXCEPT !.count = th[t].n - 1]
  /\ Goto(t, "release_last")
  /\ UNCHANGED <<ref, held, dev, buf, mem, exe, rec, sem, gpu, left>>

(* ... and, at zero, lr_shutdown, which drains the device and releases all  *)
(* memory and modules, and whose status is ignored                          *)
RuntimeReleaseLast(t) ==
  /\ At(t, "release_last")
  /\ IF runtime.count = 0 /\ runtime.owns
     THEN \/ /\ gpu.fifo = <<>>
             /\ runtime' = [runtime EXCEPT !.up = FALSE, !.owns = FALSE]
             /\ mem' = [b \in Buffers |-> IF b \in HostBuffers THEN mem[b] ELSE NoMem]
             /\ exe' = [e \in Executables |-> [exe[e] EXCEPT !.loaded = FALSE]]
          \/ /\ MayFail("lr_shutdown")
             /\ runtime' = [runtime EXCEPT !.owns = FALSE] /\ UNCHANGED <<mem, exe>>
     ELSE UNCHANGED <<runtime, mem, exe>>
  /\ Goto(t, "drop")
  /\ UNCHANGED <<ref, held, dev, buf, rec, sem, gpu, left>>
-----------------------------------------------------------------------------
(* Devices and allocators *)

(* The rest of lrrt_iree_hal_allocator_create and _device_create once the  *)
(* runtime is retained: any failure gives the reference back               *)
OpenDevice(t) ==
  LET d == Call(t).dev IN
  /\ At(t, "open")
  /\ \/ /\ runtime.up
        /\ \E a \in Allocators :
             /\ ref[a] = 0
             /\ ref' = [ref EXCEPT ![a] = 1, ![d] = 1]
             /\ held' = [held EXCEPT ![d] = 1]
             /\ dev' = [dev EXCEPT ![d] = a]
             /\ Return(t)
     \/ /\ ~runtime.up \/ MayFail("lr_device_open")
        /\ Error(t, "release") /\ UNCHANGED <<ref, held, dev>>
  /\ UNCHANGED <<runtime, buf, mem, exe, rec, sem, gpu, left>>

(* lrrt_iree_hal_device_replace_allocator: the other device's allocator *)
ReplaceAllocator(t, c) ==
  /\ c.op = "replace" /\ dev[c.dev] # Nil /\ dev[c.from] # Nil
  /\ ref' = [ref EXCEPT ![dev[c.from]] = @ + 1]
  /\ dev' = [dev EXCEPT ![c.dev] = dev[c.from]]
  /\ th' = [th EXCEPT ![t].pc = "drop", ![t].drop = <<dev[c.dev]>>, ![t].call = c]
  /\ UNCHANGED <<runtime, held, buf, mem, exe, rec, sem, gpu>>
-----------------------------------------------------------------------------
(* Releasing *)

(* What the destructor of an object releases, in order *)
Owned(o) ==
  CASE o \in Devices -> <<dev[o]>>
    [] o \in Buffers -> <<buf[o].alloc>>
    [] o \in CommandBuffers -> RecordRetains(o)
    [] OTHER -> <<>>

(* One release of the list a thread works through.  The last reference     *)
(* destroys: a buffer or an executable goes through lr_free or             *)
(* lr_module_destroy, which wait for the kernels launched so far.          *)
DropOne(t) ==
  LET o == Head(th[t].drop)
      rest == Tail(th[t].drop)
  IN
  /\ At(t, "drop") /\ th[t].drop # <<>> /\ ref[o] > 0
  /\ IF ref[o] = 1 /\ o \in Buffers \cup Executables
     THEN th' = [th EXCEPT ![t].pc = "free", ![t].n = gpu.launched] /\ UNCHANGED <<ref, dev, rec>>
     ELSE /\ ref' = [ref EXCEPT ![o] = @ - 1]
          /\ th' = [th EXCEPT ![t].drop = IF ref[o] = 1 THEN Owned(o) \o rest ELSE rest,
                              ![t].pc = IF ref[o] = 1 /\ o \in Allocators THEN "release" ELSE "drop"]
          /\ dev' = IF ref[o] = 1 /\ o \in Devices THEN [dev EXCEPT ![o] = Nil] ELSE dev
          /\ rec' = IF ref[o] = 1 /\ o \in CommandBuffers THEN [rec EXCEPT ![o] = NewRecords] ELSE rec
  /\ UNCHANGED <<runtime, held, buf, mem, exe, sem, gpu, left>>

(* lrrt_iree_hal_buffer_destroy: shadow, device memory, allocator *)
BufferDestroy(t) ==
  LET b == Head(th[t].drop) IN
  /\ At(t, "free") /\ b \in Buffers
  /\ gpu.done >= th[t].n \/ ~runtime.up
  /\ mem' = [mem EXCEPT ![b] = NoMem]
  /\ buf' = [buf EXCEPT ![b] = NoBuffer]
  /\ ref' = [ref EXCEPT ![b] = 0]
  /\ th' = [th EXCEPT ![t].drop = Owned(b) \o Tail(@), ![t].pc = "drop"]
  /\ UNCHANGED <<runtime, held, dev, exe, rec, sem, gpu, left>>

(* lrrt_iree_hal_executable_destroy *)
ExecutableDestroy(t) ==
  LET e == Head(th[t].drop) IN
  /\ At(t, "free") /\ e \in Executables
  /\ gpu.done >= th[t].n \/ ~runtime.up
  /\ ref' = [ref EXCEPT ![e] = 0]
  /\ exe' = [exe EXCEPT ![e] = NoModule]
  /\ th' = [th EXCEPT ![t].drop = Tail(@), ![t].pc = "drop"]
  /\ UNCHANGED <<runtime, held, dev, buf, mem, rec, sem, gpu, left>>

(* Everything released: the call returns, or a queue operation goes on *)
Dropped(t) ==
  /\ At(t, "drop") /\ th[t].drop = <<>>
  /\ IF th[t].then = "idle" THEN Return(t) ELSE Goto(t, th[t].then)
  /\ UNCHANGED <<runtime, ref, held, dev, buf, mem, exe, rec, sem, gpu, left>>

-----------------------------------------------------------------------------
(***************************************************************************)
(* Allocation and mapping of buffers, executables, and the recording of    *)
(* command buffers in executor/iree/hal_driver.c.                          *)
(***************************************************************************)

(* lrrt_iree_hal_buffer_device_range: an offset and a length, possibly     *)
(* "the whole buffer", lie within a buffer backed by lrrt                  *)
InRange(off, len) ==
  /\ off <= Size
  /\ len = Whole \/ len <= Size - off
DeviceRange(b, off, len) == InRange(off, len) /\ b \notin HostBuffers

(* lrrt_iree_hal_allocator_query_buffer_compatibility *)
Compatible(type, size) ==
  size # 0 /\ type \in {"device_visible", "optimal", "host_local"}

(* Mutant: a buffer does not retain its allocator *)
AllocatesUnowned(d, b, type, size, usage) ==
  /\ Compatible(type, size) /\ runtime.up /\ ref[b] = 0
  /\ ref' = [ref EXCEPT ![b] = 1]
  /\ held' = [held EXCEPT ![b] = 1]
  /\ buf' = [buf EXCEPT ![b] = [alloc |-> dev[d], usage |-> usage, shadow |-> NoMem]]
  /\ mem' = [mem EXCEPT ![b] = [x \in Cells |-> Undefined]]

(* lrrt_iree_hal_allocator_allocate_buffer: lr_malloc, then the host       *)
(* object, which retains its allocator                                     *)
Allocates(d, b, type, size, usage) ==
  /\ Compatible(type, size) /\ runtime.up /\ ref[b] = 0
  /\ ref' = [ref EXCEPT ![b] = 1, ![dev[d]] = @ + 1]
  /\ held' = [held EXCEPT ![b] = 1]
  /\ buf' = [buf EXCEPT ![b] = [alloc |-> dev[d], usage |-> usage, shadow |-> NoMem]]
  /\ mem' = [mem EXCEPT ![b] = [x \in Cells |-> Undefined]]
AllocationFails(d, type, size) ==
  ~Compatible(type, size) \/ ~runtime.up \/ MayFail("lr_malloc")

AllocateBuffer(t, c) ==
  /\ c.op = "allocate" /\ ref[c.buf] = 0 /\ held[c.buf] = 0
  /\ \/ Allocates(c.dev, c.buf, c.type, c.size, c.usage)
     \/ AllocationFails(c.dev, c.type, c.size) /\ UNCHANGED <<ref, held, buf, mem>>
  /\ UNCHANGED <<runtime, dev, exe, rec, sem, gpu, th>>
-----------------------------------------------------------------------------
(* Mapping.  The client maps a range, works on the host shadow and unmaps. *)

(* lrrt_iree_hal_buffer_ensure_host_shadow: contents are undefined at first *)
Shadow(b) == IF buf[b].shadow # NoMem THEN buf[b].shadow ELSE [x \in Cells |-> Undefined]

(* lr_memcpy between shadow and device memory: waits for the kernels       *)
(* launched before it, and fails once lrrt has been shut down              *)
Drained(t) == gpu.done >= th[t].n
Copyable(b) == runtime.up /\ mem[b] # NoMem

MapBuffer(t, c) ==
  /\ c.op = "map" /\ ref[c.buf] > 0 /\ c.buf \notin HostBuffers
  /\ th' = [th EXCEPT ![t].call = c, ![t].n = gpu.launched,
                      ![t].pc = IF "read" \in c.access THEN "map_read" ELSE "mapped"]
  /\ buf' = [buf EXCEPT ![c.buf].shadow = Shadow(c.buf)]
  /\ UNCHANGED <<runtime, ref, held, dev, mem, exe, rec, sem, gpu>>

(* lrrt_iree_hal_buffer_map_range with read access, and                     *)
(* lrrt_iree_hal_buffer_invalidate_range: device to shadow                  *)
MapRead(t) ==
  LET c == Call(t) IN
  /\ At(t, "map_read") /\ Drained(t)
  /\ \/ /\ Copyable(c.buf)
        /\ buf' = [buf EXCEPT ![c.buf].shadow =
                     [x \in Cells |-> IF x \in Span(c) THEN mem[c.buf][x] ELSE @[x]]]
        /\ Goto(t, "mapped")
     \/ (~Copyable(c.buf) \/ MayFail("lr_memcpy")) /\ Return(t) /\ UNCHANGED buf
  /\ UNCHANGED <<runtime, ref, held, dev, mem, exe, rec, sem, gpu, left>>

(* The client writes the mapped range, if it may, and unmaps or flushes *)
ClientWrites(t) ==
  LET c == Call(t) IN
  /\ At(t, "mapped")
  /\ IF "write" \in c.access
     THEN /\ buf' = [buf EXCEPT ![c.buf].shadow =
                       [x \in Cells |-> IF x \in Span(c) THEN c.val ELSE @[x]]]
          /\ th' = [th EXCEPT ![t].pc = "unmap", ![t].n = gpu.launched]
     ELSE Return(t) /\ UNCHANGED buf
  /\ UNCHANGED <<runtime, ref, held, dev, mem, exe, rec, sem, gpu, left>>

(* lrrt_iree_hal_buffer_unmap_range and _flush_range: shadow to device *)
UnmapWrite(t) ==
  LET c == Call(t) IN
  /\ At(t, "unmap") /\ Drained(t)
  /\ \/ /\ Copyable(c.buf)
        /\ mem' = [mem EXCEPT ![c.buf] =
                     [x \in Cells |-> IF x \in Span(c) THEN buf[c.buf].shadow[x] ELSE @[x]]]
     \/ (~Copyable(c.buf) \/ MayFail("lr_memcpy")) /\ UNCHANGED mem
  /\ Return(t)
  /\ UNCHANGED <<runtime, ref, held, dev, buf, exe, rec, sem, gpu, left>>
-----------------------------------------------------------------------------
(* Executables *)

Formats == {"rocm-hsaco", "amdgpu-hsaco", "rocm-hsaco-fb"}

(* lrrt_iree_hal_executable_cache_can_prepare_format, and non-empty data *)
CanPrepare(c) == c.format \in Formats /\ c.modules > 0

(* lrrt_iree_hal_extract_rocm_hsaco_fb: exactly one module *)
Extracts(c) == c.format = "rocm-hsaco-fb" => c.modules = 1

(* lrrt_iree_hal_register_rocm_hsaco_fb_exports: every export is of module *)
(* 0, has block dimensions and names a kernel                              *)
Registers(c) ==
  c.format = "rocm-hsaco-fb" =>
    \A x \in Range(c.exports) : x.module = 0 /\ x.wg /\ x.name \in KernelNames

(* lrrt_iree_hal_executable_cache_prepare_executable; on a failure after   *)
(* lr_module_load_hsaco the module is destroyed again                      *)
PrepareExecutable(t, c) ==
  /\ c.op = "prepare" /\ ref[c.exe] = 0 /\ held[c.exe] = 0
  /\ \/ /\ CanPrepare(c) /\ Extracts(c) /\ runtime.up /\ Registers(c)
        /\ ref' = [ref EXCEPT ![c.exe] = 1] /\ held' = [held EXCEPT ![c.exe] = 1]
        /\ exe' = [exe EXCEPT ![c.exe] =
                     [loaded |-> TRUE,
                      funcs |-> IF c.format = "rocm-hsaco-fb"
                                THEN [i \in 1 .. Len(c.exports) |->
                                        [name |-> c.exports[i].name, wg |-> TRUE]]
                                ELSE <<>>]]
     \/ /\ ~(CanPrepare(c) /\ Extracts(c) /\ runtime.up /\ Registers(c)) \/ MayFail("module")
        /\ UNCHANGED <<ref, held, exe>>
  /\ UNCHANGED <<runtime, dev, buf, mem, rec, sem, gpu, th>>

(* lrrt_iree_hal_executable_lookup_function_by_name: found, or added       *)
(* without a default workgroup size                                        *)
LookupFunction(t, c) ==
  LET funcs == exe[c.exe].funcs IN
  /\ c.op = "lookup"
  /\ exe' = IF /\ \A i \in 1 .. Len(funcs) : funcs[i].name # c.name
               /\ exe[c.exe].loaded /\ c.name \in KernelNames
            THEN [exe EXCEPT ![c.exe].funcs = Append(@, [name |-> c.name, wg |-> FALSE])]
            ELSE exe
  /\ UNCHANGED <<runtime, ref, held, dev, buf, mem, rec, sem, gpu, th>>

(* lrrt_iree_hal_executable_resolve_workgroup_size: the function exists    *)
(* and the dispatch or the function gives a workgroup size                 *)
WorkgroupSize(c) ==
  LET funcs == exe[c.exe].funcs IN
  c.fn \in 1 .. Len(funcs) /\ (c.wg \/ funcs[c.fn].wg)
-----------------------------------------------------------------------------
(* Recording *)

(* lrrt_iree_hal_command_buffer_record_buffer_ref *)
SlotFits(r) == r.buf # Nil \/ r.slot + 1 <= BindingCapacity
NeededBindings(refs, n) ==
  LET needed == {r.slot + 1 : r \in {x \in refs : x.buf = Nil}} \cup {n}
  IN CHOOSE m \in needed : \A x \in needed : x <= m

CreateCommandBuffer(t, c) ==
  /\ c.op = "cb_create" /\ ref[c.cb] = 0 /\ held[c.cb] = 0
  /\ ref' = [ref EXCEPT ![c.cb] = 1] /\ held' = [held EXCEPT ![c.cb] = 1]
  /\ rec' = [rec EXCEPT ![c.cb] = NewRecords]
  /\ UNCHANGED <<runtime, dev, buf, mem, exe, sem, gpu, th>>

(* lrrt_iree_hal_command_buffer_begin: every record is reset *)
BeginCommandBuffer(t, c) ==
  /\ c.op = "cb_begin"
  /\ rec' = [rec EXCEPT ![c.cb] = NewRecords]
  /\ th' = [th EXCEPT ![t].pc = "drop", ![t].drop = RecordRetains(c.cb), ![t].call = c]
  /\ UNCHANGED <<runtime, ref, held, dev, buf, mem, exe, sem, gpu>>

(* Mutant: a copy record retains one of its two buffers *)
AppendsFirst(c) ==
  /\ rec' = [rec EXCEPT ![c.cb].cmds = Append(@, c.cmd),
                        ![c.cb].bindings = NeededBindings(CmdRefs(c.cmd), @)]
  /\ ref' = Retain(ref, IF CmdRetains(c.cmd) = <<>> THEN <<>> ELSE <<Head(CmdRetains(c.cmd))>>)

(* A record is appended and retains what it names *)
Appends(c) ==
  /\ rec' = [rec EXCEPT ![c.cb].cmds = Append(@, c.cmd),
                        ![c.cb].bindings = NeededBindings(CmdRefs(c.cmd), @)]
  /\ ref' = Retain(ref, CmdRetains(c.cmd))

(* The references of a transfer up to the first that does not fit raise    *)
(* binding_count even when the command is then refused                     *)
FittingRefs(s) ==
  LET bad == {i \in 1 .. Len(s) : ~SlotFits(s[i])}
      end == IF bad = {} THEN Len(s) ELSE (CHOOSE i \in bad : \A j \in bad : i <= j) - 1
  IN Range(SubSeq(s, 1, end))
RaiseBindings(cb, refs) == rec' = [rec EXCEPT ![cb].bindings = NeededBindings(refs, @)]

(* lrrt_iree_hal_command_buffer_fill_buffer, _update_buffer, _copy_buffer *)
RecordTransfer(t, c) ==
  LET refs == IF c.cmd.k = "copy" THEN <<c.cmd.src, c.cmd.dst>> ELSE <<c.cmd.dst>>
      shaped == c.cmd.k = "fill" => c.cmd.plen <= 4
  IN
  /\ c.op = "record" /\ c.cmd.k # "dispatch"
  /\ \/ shaped /\ (\A r \in Range(refs) : SlotFits(r)) /\ Appends(c)
     \/ /\ ~shaped /\ UNCHANGED <<rec, ref>>
     \/ /\ shaped /\ ((\E r \in Range(refs) : ~SlotFits(r)) \/ MayFail("record"))
        /\ RaiseBindings(c.cb, FittingRefs(refs)) /\ UNCHANGED ref
  /\ UNCHANGED <<runtime, held, dev, buf, mem, exe, sem, gpu, th>>

(* lrrt_iree_hal_command_buffer_require_dispatch_shape *)
DispatchShape(c) == c.direct /\ WorkgroupSize(c) /\ Len(c.args) <= MaxBindings

(* What lrrt_iree_hal_command_buffer_dispatch has retained when it fails    *)
(* after the record has been filled in: nothing when the constants cannot  *)
(* be allocated; the executable and the buffers before the first binding   *)
(* that does not fit.                                                      *)
Misfit(args) == {i \in 1 .. Len(args) : ~SlotFits(args[i])}
Before(args) ==
  SubSeq(args, 1, (CHOOSE i \in Misfit(args) : \A j \in Misfit(args) : i <= j) - 1)
PartialRecords(c) ==
  (IF MayFail("constants") THEN {[retained |-> <<>>, refs |-> {}]} ELSE {})
    \cup (IF Misfit(c.args) = {} THEN {}
          ELSE {[retained |-> CmdRetains([c EXCEPT !.args = Before(@)]),
                 refs |-> Range(Before(c.args))]})

(* lrrt_iree_hal_command_buffer_dispatch.  Such a failure resets the       *)
(* record, which releases the executable and every buffer it names.        *)
RecordDispatch(t, c) ==
  /\ c.op = "record" /\ c.cmd.k = "dispatch"
  /\ \/ DispatchShape(c.cmd) /\ Misfit(c.cmd.args) = {} /\ Appends(c) /\ UNCHANGED th
     \/ ~DispatchShape(c.cmd) /\ UNCHANGED <<rec, ref, th>>
     \/ DispatchShape(c.cmd) /\ MayFail("record") /\ UNCHANGED <<rec, ref, th>>
     \/ \E part \in PartialRecords(c.cmd) :
          /\ DispatchShape(c.cmd)
          /\ ref' = Retain(ref, part.retained)
          /\ th' = [th EXCEPT ![t].pc = "drop", ![t].drop = CmdRetains(c.cmd), ![t].call = c]
          /\ RaiseBindings(c.cb, part.refs)
  /\ UNCHANGED <<runtime, held, dev, buf, mem, exe, sem, gpu>>
=============================================================================
