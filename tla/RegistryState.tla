--------------------------- MODULE RegistryState ---------------------------
(***************************************************************************)
(* The process-wide registries behind g_devices_mutex: the lifecycle of    *)
(* the runtime, its device, device and pinned host allocations and loaded  *)
(* modules.  One model stands for the three builds; backend says which.    *)
(* How queues and events work is the subject of other modules: here the    *)
(* device runs work, a set of kernels and copies that name the addresses   *)
(* and the module they use.                                                *)
(*                                                                         *)
(*   init     g_initialized                                                *)
(*   session  hsa_init has succeeded, or g_kfd_session is open             *)
(*   dev      g_devices[0]: published when g_devices is not empty          *)
(*   mem      g_allocations and g_host_allocations                         *)
(*   cleanup  g_light_rocr_pending_cleanup is not empty                    *)
(*   mod      g_modules; "cleanup" is in g_module_cleanup_owners           *)
(*   stats    live and peak bytes of lr_memory_stats_t                     *)
(*   bytes    what device memory holds                                     *)
(***************************************************************************)
EXTENDS Integers, FiniteSets, Sequences, SequencesExt

CONSTANTS Threads, Nil,
          Mem, HostMem,   \* pointers from lr_malloc and from lr_host_malloc
          Modules,
          Space,          \* bytes of device and of pinned host memory
          RingSize,       \* work a queue has room for
          StagingSize,    \* bytes of the staging buffer of a direct KFD copy
          Faults,         \* which external operations may fail
          Programs        \* the build and what the threads call

VARIABLES backend, init, session, dev, lock, mem, cleanup, mod, stats, bytes,
          work, th, left

vars == <<backend, init, session, dev, lock, mem, cleanup, mod, stats, bytes,
          work, th, left>>
lifeVars == <<backend, init, session>>

Call(name, obj, src, off, soff, size) ==
  [name |-> name, obj |-> obj, src |-> src, off |-> off, soff |-> soff, size |-> size]

(* A thread runs a call as a stack k of labels, the head being the next     *)
(* step.  waits is the work a device synchronisation waits for, pins the    *)
(* allocations MemoryOperationPins holds, ok the status.                    *)
Idle == [k |-> <<>>, call |-> Call("none", Nil, Nil, 0, 0, 0), waits |-> {},
         pins |-> {}, ok |-> TRUE]

NoMem == [live |-> FALSE, base |-> 0, size |-> 0, active |-> 0, destroying |-> FALSE]
NoModule == [state |-> "none", destroying |-> FALSE, pins |-> 0, kernels |-> FALSE]
NoDevice == [published |-> FALSE, opened |-> FALSE, queue |-> FALSE, copy |-> "none"]
NoStats == [device |-> [live |-> 0, peak |-> 0], host |-> [live |-> 0, peak |-> 0]]

Init ==
  \E p \in Programs :
    /\ backend = p.backend
    /\ left = p.calls
    /\ init = FALSE /\ session = FALSE /\ dev = NoDevice /\ lock = Nil
    /\ mem = [m \in Mem \cup HostMem |-> NoMem] /\ cleanup = FALSE
    /\ mod = [m \in Modules |-> NoModule]
    /\ stats = NoStats
    /\ bytes = [a \in 1 .. Space |-> a]
    /\ work = {}
    /\ th = [t \in Threads |-> Idle]

----------------------------------------------------------------------------
(* The running thread *)

At(t, label) == th[t].k # <<>> /\ Head(th[t].k) = label
Goto(t, labels) == th' = [th EXCEPT ![t].k = labels \o Tail(@)]
Return(t) == th' = [th EXCEPT ![t] = Idle]

(* The first locked step of a call: the flag was read before. *)
Locked(t, name) == At(t, "enter") /\ th[t].call.name = name /\ lock = Nil

(* condition_variable_any::wait: the lock is given up while P is false. *)
Await(t, label, P) ==
  /\ At(t, label)
  /\ IF lock = t
     THEN IF P THEN Goto(t, <<>>) /\ lock' = lock
          ELSE lock' = Nil /\ th' = th
     ELSE lock = Nil /\ P /\ lock' = t /\ Goto(t, <<>>)

Relock(t) ==
  /\ At(t, "relock") /\ lock = Nil
  /\ lock' = t
  /\ Goto(t, <<>>)
  /\ UNCHANGED <<lifeVars, dev, mem, cleanup, mod, stats, bytes, work, left>>

(* The device retires work (external). *)
WorkCompletes ==
  \E w \in work :
    /\ work' = work \ {w}
    /\ UNCHANGED <<lifeVars, dev, lock, mem, cleanup, mod, stats, bytes, th, left>>

----------------------------------------------------------------------------
(* Allocations and pointer lookup *)

Kind(o) == IF o \in Mem THEN "device" ELSE "host"
Bytes(kind, a, n) == {<<kind, x>> : x \in a .. a + n - 1}
Occupied(kind) ==
  UNION {Bytes(kind, mem[m].base, mem[m].size) :
           m \in {o \in Mem \cup HostMem : mem[o].live /\ Kind(o) = kind}}

(* The allocator (external) returns any block that is free; the lowest one. *)
Holes(kind, n) ==
  {a \in 1 .. Space - n + 1 : Bytes(kind, a, n) \cap Occupied(kind) = {}}

Address(o, off) == IF o = Nil THEN 0 ELSE mem[o].base + off

find_allocation_base(a, n) ==
  {m \in Mem : /\ mem[m].live /\ ~mem[m].destroying
               /\ mem[m].base <= a
               /\ a - mem[m].base <= mem[m].size
               /\ n <= mem[m].size - (a - mem[m].base)}
find_light_rocr_allocation(a, n) ==
  {m \in Mem : /\ mem[m].live /\ ~mem[m].destroying
               /\ mem[m].base <= a
               /\ a - mem[m].base < mem[m].size
               /\ n <= mem[m].size - (a - mem[m].base)}
find_allocation(a, n) ==
  IF backend = "hsa" THEN find_allocation_base(a, n) ELSE find_light_rocr_allocation(a, n)

(* The pinned allocation that a host pointer is in, whatever its range. *)
HostOwner(a) ==
  {h \in HostMem : mem[h].live /\ mem[h].base <= a /\ a - mem[h].base < mem[h].size}

translate_host_pointer(a, n) ==
  LET owner == HostOwner(a)
  IN  IF owner = {} THEN "Unregistered"
      ELSE IF \A h \in owner : ~mem[h].destroying /\ n <= mem[h].size - (a - mem[h].base)
           THEN "Valid" ELSE "Invalid"

record_allocation(s, n) ==
  [live |-> s.live + n, peak |-> IF s.live + n > s.peak THEN s.live + n ELSE s.peak]
record_free(s, n) == [s EXCEPT !.live = IF n > @ THEN 0 ELSE @ - n]
=============================================================================
