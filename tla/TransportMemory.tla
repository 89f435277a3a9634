-------------------------- MODULE TransportMemory --------------------------
(***************************************************************************)
(* Memory of the direct KFD transport (light-rocr/transport/kfd): address  *)
(* reservations, KFD buffers and GPU mappings, each acquired by a system   *)
(* call that may fail, and the owners that must be able to give them back. *)
(*                                                                         *)
(* Functions are outcome sets (Outcomes).  Of a memory object m the fields *)
(* va, bo and gpu are the kernel's truth; the others are what its owner    *)
(* (RawMemoryAllocation) believes.                                         *)
(***************************************************************************)
EXTENDS Outcomes, Sequences, FiniteSets, SequencesExt

CONSTANTS
  Threads, Queues, Pages, Images, Operations, Hosts,
  PoolSize      \* the scratch pool, in units of its 64 KiB granule

ASSUME PoolAssumption == PoolSize \in Nat \ {0}

QueueMemory == {"ring", "control", "eop", "cwsr", "doorbell", "scratch"}

Mem == (Queues \X QueueMemory) \cup (Threads \X {"trap", "page"})
         \cup (Pages \X {"signals"}) \cup (Images \X {"image"})
         \cup (Operations \X {"command"}) \cup (Hosts \X {"host"})

NoMem == [va |-> FALSE, bo |-> FALSE, gpu |-> FALSE,
          reservation |-> FALSE, host |-> FALSE, handle |-> FALSE,
          gpu_ids |-> FALSE, mapped |-> 0, unmapped |-> 0,
          map_complete |-> FALSE]

NoPool == [made |-> FALSE, reservation |-> FALSE, configured |-> FALSE,
           free |-> {}]

NoScratch == [owned |-> FALSE, offset |-> 0, size |-> 0]

NoVm == [render_fd |-> FALSE, acquired |-> FALSE, policy |-> FALSE,
         aperture |-> FALSE]

Set(w, m, r) == [w EXCEPT !.mem[m] = r]

Owns(r) == r.reservation \/ r.handle

\* *allocation = {}: the owner forgets everything, the kernel nothing.
Forgotten(r) == [NoMem EXCEPT !.va = r.va, !.bo = r.bo, !.gpu = r.gpu]

-----------------------------------------------------------------------------
(* The GPU's virtual memory *)

\* detail::configure_memory_policy
configure_memory_policy(w) ==
  Syscall(w, "policy", [w EXCEPT !.vm.policy = TRUE])

\* detail::query_process_aperture: three attempts, each of which a changing
\* topology spoils; it fails when a query does or when all are spoilt.
query_process_aperture(w) ==
  Syscall(w, "aperture", [w EXCEPT !.vm.aperture = TRUE])

\* KfdSession::acquire_vm.  A failed acquisition closes the render node and
\* forgets the GPU; later failures keep what was acquired.
acquire_vm(w) ==
  LET open(v)    == IF v.vm.render_fd THEN {v}
                    ELSE Syscall(v, "open", [v EXCEPT !.vm.render_fd = TRUE])
      acquire(v) == IF v.vm.acquired THEN {v}
                    ELSE {[v EXCEPT !.vm.acquired = TRUE]}
                           \cup Fails([v EXCEPT !.vm = NoVm], "acquire")
      policy(v)  == IF v.vm.policy THEN {v} ELSE configure_memory_policy(v)
  IN  CASE ~w.session.open -> {Failed(w)}
        [] w.vm.aperture   -> {w}
        [] OTHER -> Then(Then(Then(open(w), acquire), policy),
                         query_process_aperture)

-----------------------------------------------------------------------------
(* GPU mappings and their release *)

\* detail::map_memory, one GPU.  The ioctl may report a failure after it has
\* mapped ("late"): n_success then says so, and the owner remembers it.
map_memory(w, m) ==
  LET r     == w.mem[m]
      begun == [r EXCEPT !.gpu_ids = TRUE, !.map_complete = FALSE]
      done  == [begun EXCEPT !.gpu = TRUE, !.mapped = 1]
  IN  CASE ~r.handle \/ (r.gpu_ids /\ r.unmapped # 0) -> {Failed(w)}
        [] r.mapped = 1 /\ r.map_complete -> {w}
        [] OTHER -> {Set(w, m, [done EXCEPT !.map_complete = TRUE])}
                      \cup Fails(Set(w, m, begun), "map")
                      \cup Fails(Set(w, m, done), "map_late")


\* detail::unmap_memory
unmap_memory(w, m) ==
  LET r       == w.mem[m]
      cleared == [r EXCEPT !.gpu_ids = FALSE, !.mapped = 0, !.unmapped = 0,
                           !.map_complete = FALSE]
  IN  IF r.mapped = 0 THEN {Set(w, m, cleared)}
      ELSE {Set(w, m, [cleared EXCEPT !.gpu = FALSE])}
             \cup Fails(w, "unmap")
             \cup Fails(Set(w, m, [r EXCEPT !.gpu = FALSE, !.unmapped = 1]),
                        "unmap_late")

munmap(w, m) ==
  LET r == w.mem[m] IN
  IF ~r.reservation THEN {w}
  ELSE Syscall(w, "munmap",
               Set(w, m, [r EXCEPT !.va = FALSE, !.reservation = FALSE,
                                   !.host = FALSE]))

free_memory_of_gpu(w, m) ==
  LET r == w.mem[m] IN
  IF ~r.handle THEN {w}
  ELSE Syscall(w, "free", Set(w, m, [r EXCEPT !.bo = FALSE, !.handle = FALSE]))

Reset(w, m) == Set(w, m, Forgotten(w.mem[m]))

\* detail::release_memory: GPU mapping, reservation, buffer.
release_memory(w, m) ==
  IF ~Owns(w.mem[m]) THEN {w}
  ELSE Then(Then(Then(unmap_memory(w, m), LAMBDA v : munmap(v, m)),
                 LAMBDA v : free_memory_of_gpu(v, m)),
            LAMBDA v : {Reset(v, m)})

\* detail::release_host_memory: the USERPTR buffer goes before its pages.
release_host_memory(w, m) ==
  IF ~Owns(w.mem[m]) THEN {w}
  ELSE Then(Then(Then(unmap_memory(w, m),
                      LAMBDA v : free_memory_of_gpu(v, m)),
                 LAMBDA v : munmap(v, m)),
            LAMBDA v : {Reset(v, m)})

\* Mutant: a failed set-up returns no owner, whatever the rollback left.
RollbackForgets(W, m) ==
  UNION {{Failed(Reset(v, m)) : v \in release_memory([w EXCEPT !.ok = TRUE], m)} :
           w \in W}

\* rollback_memory: the failed set-up is undone as far as the kernel lets it.
rollback_memory(W, m) ==
  Undone(W, LAMBDA v : release_memory(v, m))

\* rollback_host_memory
rollback_host_memory(W, m) ==
  Undone(W, LAMBDA v : release_host_memory(v, m))

\* ~MemoryAllocation: one more attempt, after which the owner is gone.
Dropped(W, m) ==
  UNION {{[Reset(v, m) EXCEPT !.ok = w.ok] :
            v \in release_memory([w EXCEPT !.ok = TRUE], m)} : w \in W}

-----------------------------------------------------------------------------
(* Allocation *)

\* The reservation and the KFD buffer of detail::allocate_memory.
allocate_buffer(w, m) ==
  LET reserved == Set(w, m, [NoMem EXCEPT !.va = TRUE, !.reservation = TRUE,
                                          !.gpu_ids = TRUE])
      buffer   == Set(w, m, [reserved.mem[m] EXCEPT !.bo = TRUE,
                                                    !.handle = TRUE])
  IN  {buffer} \cup Fails(w, "reserve")
        \cup rollback_memory(FailsAny(reserved, {"aperture", "alloc"}), m)

\* The host mapping and the GPU mapping of detail::allocate_memory: none for a
\* doorbell until its queue exists, no host mapping for device memory.
map_buffer(w, m, usage) ==
  LET hosted == IF usage = "device" THEN w
                ELSE Set(w, m, [w.mem[m] EXCEPT !.host = TRUE])
      mapped == IF usage = "doorbell" THEN {hosted} ELSE map_memory(hosted, m)
  IN  {v \in mapped : v.ok}
        \cup rollback_memory(
               (IF usage \in {"doorbell", "device"} THEN {}
                ELSE Fails(w, "host"))
               \cup Fails(hosted, "madvise") \cup {v \in mapped : ~v.ok}, m)

\* KfdSession::allocate_memory_impl
allocate_memory_impl(w, m, usage) ==
  Then(Then(acquire_vm(w), LAMBDA v : allocate_buffer(v, m)),
       LAMBDA v : map_buffer(v, m, usage))

\* detail::allocate_host_memory
allocate_host_memory(w, m) ==
  LET hosted == Set(w, m, [NoMem EXCEPT !.va = TRUE, !.reservation = TRUE,
                                        !.host = TRUE, !.gpu_ids = TRUE])
      buffer == Set(w, m, [hosted.mem[m] EXCEPT !.bo = TRUE, !.handle = TRUE])
      mapped == map_memory(buffer, m)
  IN  {v \in mapped : v.ok} \cup Fails(w, "host")
        \cup rollback_host_memory(
               FailsAny(hosted, {"aperture", "madvise", "alloc"})
               \cup {v \in mapped : ~v.ok}, m)

\* KfdSession::allocate_host
allocate_host(w, m) ==
  Then(acquire_vm(w), LAMBDA v : allocate_host_memory(v, m))
-----------------------------------------------------------------------------
(***************************************************************************)
(* The scratch pool of a GPU: one address reservation made on first use,   *)
(* from which every queue takes a contiguous range (first fit) and to      *)
(* which it returns it (merged with its neighbours).  w.pool.free is the   *)
(* map free_ranges as a set of <<offset, size>>; w.scratch[q] is the       *)
(* ScratchAllocation of queue q.                                           *)
(***************************************************************************)


\* add_free_scratch_range
add_free_scratch_range(w, offset, size) ==
  LET free  == w.pool.free
      prev  == {r \in free : r[1] + r[2] = offset}
      next  == {r \in free : r[1] = offset + size}
      first == IF prev = {} THEN offset ELSE (CHOOSE r \in prev : TRUE)[1]
      end   == IF next = {} THEN offset + size
               ELSE LET r == CHOOSE r \in next : TRUE IN r[1] + r[2]
  IN  IF \E r \in free : r[1] = offset THEN {Failed(w)}
      ELSE Syscall(w, "state",
                   [w EXCEPT !.pool.free = (@ \ (prev \cup next))
                                             \cup {<<first, end - first>>}])

\* release_pool_reservation
release_pool_reservation(w) ==
  IF ~w.pool.reservation THEN {w}
  ELSE Syscall(w, "munmap", [w EXCEPT !.pool = [NoPool EXCEPT !.made = TRUE]])

\* initialize_scratch_pool.  Whatever fails after the reservation, the
\* reservation is released; if that fails too it stays with the pool.
initialize_scratch_pool(w) ==
  LET reserved == [w EXCEPT !.pool = [NoPool EXCEPT !.made = TRUE,
                                                    !.reservation = TRUE]]
      ready    == [reserved EXCEPT !.pool.configured = TRUE,
                                   !.pool.free = {<<0, PoolSize>>}]
      broken   == FailsAny(reserved,
                           {"aperture", "madvise", "backing", "state"}
                             \cup (IF w.integrated THEN {"host"} ELSE {}))
  IN  {ready} \cup Fails([w EXCEPT !.pool.made = TRUE], "reserve")
        \cup UNION {{Failed(v) :
                       v \in release_pool_reservation([b EXCEPT !.ok = TRUE])} :
                     b \in broken}

\* detail::allocate_scratch up to the pool: a pool left unconfigured is
\* released and made again, an uninitialised one without reservation dropped.
ensure_scratch_pool(w) ==
  LET discarded(v) == {[u EXCEPT !.pool.made = ~u.ok] :
                         u \in release_pool_reservation(v)}
      made(v)      == {[u EXCEPT !.pool.made = u.ok \/ u.pool.reservation] :
                         u \in initialize_scratch_pool(v)}
                        \cup Fails(v, "state")
  IN  Then(IF w.pool.made /\ ~w.pool.configured THEN discarded(w) ELSE {w},
           LAMBDA v : IF v.pool.made THEN {v} ELSE made(v))

\* What allocate_scratch does when the range it took cannot be backed: it
\* goes back to the pool, or stays with the owner that is returned.
restore_range(W, q, offset, size) ==
  UNION {{Failed(IF v.ok THEN v
                 ELSE [v EXCEPT !.scratch[q] = [owned |-> TRUE,
                                                offset |-> offset,
                                                size |-> size]]) :
            v \in add_free_scratch_range([w EXCEPT !.ok = TRUE],
                                         offset, size)} : w \in W}

\* The buffer and the GPU mapping behind a range of a discrete GPU.  After a
\* failed mapping release_memory has cleared the allocation, its size with it,
\* so an owner that must keep the range keeps a range of size 0.
back_scratch(w, q, offset, size) ==
  LET m      == <<q, "scratch">>
      owner  == [owned |-> TRUE, offset |-> offset, size |-> size]
      buffer == Set(w, m, [NoMem EXCEPT !.bo = TRUE, !.handle = TRUE,
                                        !.gpu_ids = TRUE])
      undone(v) ==
        UNION {IF u.ok
               THEN {[x EXCEPT !.scratch[q].size =
                                  IF x.scratch[q].owned THEN 0 ELSE @] :
                       x \in restore_range({u}, q, offset, size)}
               ELSE {[u EXCEPT !.scratch[q] = owner]} :
                 u \in release_memory([v EXCEPT !.ok = TRUE], m)}
  IN  IF w.integrated THEN {[w EXCEPT !.scratch[q] = owner]}
      ELSE restore_range(FailsAny(w, {"state", "alloc"}), q, offset, size)
             \cup UNION {IF v.ok THEN {[v EXCEPT !.scratch[q] = owner]}
                         ELSE undone(v) : v \in map_memory(buffer, m)}

\* The first fit and the split of allocate_scratch.
take_range(w, q, size) ==
  LET fits == {r \in w.pool.free : r[2] >= size}
      r    == CHOOSE r \in fits : \A x \in fits : r[1] <= x[1]
      rest == IF r[2] = size THEN {} ELSE {<<r[1] + size, r[2] - size>>}
  IN  IF fits = {} THEN {Failed(w)}
      ELSE back_scratch([w EXCEPT !.pool.free = (@ \ {r}) \cup rest],
                        q, r[1], size)

\* KfdSession::allocate_scratch
allocate_scratch(w, q, size) ==
  Then(Then(acquire_vm(w), ensure_scratch_pool),
       LAMBDA v : take_range(v, q, size))

\* detail::release_scratch and ScratchAllocation::release
release_scratch(w, q) ==
  LET s == w.scratch[q]
      restored(v) == {IF u.ok THEN [u EXCEPT !.scratch[q] = NoScratch] ELSE u :
                        u \in add_free_scratch_range(v, s.offset, s.size)}
  IN  CASE ~s.owned -> {w}
        [] s.size = 0 -> {Failed(w)}
        [] OTHER -> Then(IF w.integrated THEN {w}
                         ELSE release_memory(w, <<q, "scratch">>), restored)
=============================================================================
