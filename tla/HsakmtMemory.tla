---------------------------- MODULE HsakmtMemory ----------------------------
(***************************************************************************)
(* Memory of the transport over libhsakmt (light-rocr/transport/hsakmt):   *)
(* sessions and the KfdState their allocations share, buffers with their   *)
(* GPU mapping, pinned host memory, and the scratch pool of the GPU, from  *)
(* which queues lease ranges.  Functions are outcome sets (Outcomes).      *)
(*                                                                         *)
(* Of a buffer, bo and gpu are the kernel's truth and state, mapped and    *)
(* kind what its MemoryAllocation records; state is the session whose      *)
(* KfdState it keeps alive, None when it owns nothing.                     *)
(***************************************************************************)
EXTENDS Outcomes, Sequences, FiniteSets, FiniteSetsExt

CONSTANTS
  Threads, Sessions, Queues, Signals, Buffers, Blocks, Hosts,
  PoolCount,    \* ScratchPoolState objects that exist together
  PoolSize,     \* pages of the scratch aperture
  Alignment     \* of a lease, in pages

ASSUME ScratchAssumption == {PoolCount, PoolSize, Alignment} \subseteq Nat \ {0}

None == <<>>

Pools == 1..PoolCount        \* 0 is no pool

Mem == (Queues \X {"ring", "control"}) \cup (Signals \X {"signal"})
         \cup (Buffers \X {"buffer"}) \cup (Blocks \X {"block"})
         \cup (Threads \X {"command", "completion"})
         \cup (Pools \X {"reservation"})

NoMem == [bo |-> FALSE, gpu |-> FALSE, state |-> None, mapped |-> FALSE,
          kind |-> "gtt"]

NoHost == [pages |-> FALSE, registered |-> FALSE, mapped |-> FALSE,
           state |-> None]

NoKfd == [active |-> FALSE, properties |-> FALSE]

\* ranges: the map of a ScratchPoolState, as <<offset, size, free>>.
NoPool == [ranges |-> {}, leases |-> 0, retired |-> FALSE]

NoLease == [pool |-> 0, offset |-> 0, size |-> 0, mapped |-> FALSE,
            returned |-> FALSE]

Set(w, m, r) == [w EXCEPT !.mem[m] = r]

Owns(r) == r.state # None

-----------------------------------------------------------------------------
(* Sessions *)

\* A KfdState lives as long as a session, a buffer or host memory shares it.
Shared(w, k) ==
  \/ w.open[k]
  \/ \E m \in Mem : w.mem[m].state = k
  \/ \E h \in Hosts : w.host[h].state = k

\* ~KfdState
Expire(w) ==
  [w EXCEPT !.kfd = [k \in Sessions |-> IF Shared(w, k) THEN w.kfd[k] ELSE NoKfd]]

\* KfdSession::open
open_session(w, k) ==
  LET active == [w EXCEPT !.kfd[k] = [active |-> TRUE, properties |-> FALSE],
                          !.scratch_pools[k] = 0]
  IN  {[active EXCEPT !.kfd[k].properties = TRUE, !.open[k] = TRUE]}
        \cup Fails(w, "open")
        \cup {Expire(v) : v \in Fails(active, "properties")}

\* ~KfdSession
close_session(w, k) == {Expire([w EXCEPT !.open[k] = FALSE])}

-----------------------------------------------------------------------------
(* Buffers *)

\* MemoryAllocation::reset, and the kernel's side of hsaKmtFreeMemory.
Freed(w, m) ==
  Expire([w EXCEPT !.mem[m] = NoMem,
                   !.reserved = @ /\ w.mem[m].kind # "scratch"])

\* MemoryAllocation::release
release(w, m) ==
  LET unmapped == IF ~w.mem[m].mapped THEN {w}
                  ELSE Syscall(w, "unmap", [w EXCEPT !.mem[m].gpu = FALSE,
                                                     !.mem[m].mapped = FALSE])
  IN  IF ~Owns(w.mem[m]) THEN {w}
      ELSE Then(unmapped, LAMBDA v : Syscall(v, "free", Freed(v, m)))

\* ~MemoryAllocation: one more attempt, after which the owner is gone.
Dropped(W, m) ==
  UNION {{Expire([v EXCEPT !.ok = w.ok, !.mem[m].state = None,
                           !.mem[m].mapped = FALSE]) :
            v \in release([w EXCEPT !.ok = TRUE], m)} : w \in W}

\* KfdSession::allocate.  A buffer that cannot be mapped is freed; when that
\* fails too nobody owns it.
allocate(w, k, m) ==
  LET buffer == [NoMem EXCEPT !.bo = TRUE]
      mapped == [buffer EXCEPT !.gpu = TRUE, !.mapped = TRUE, !.state = k]
  IN  {Set(w, m, mapped)} \cup Fails(w, "alloc")
        \cup Undone(Fails(Set(w, m, buffer), "map"),
                    LAMBDA v : Syscall(v, "free", Set(v, m, NoMem)))

\* KfdSession::allocate_gtt and allocate_executable_gtt
allocate_gtt(w, k, m) == IF ~w.open[k] THEN {Failed(w)} ELSE allocate(w, k, m)

\* KfdSession::allocate_vram
allocate_vram(w, k, m, heap) ==
  IF ~w.open[k] \/ heap \notin {"public", "private"} THEN {Failed(w)}
  ELSE allocate(w, k, m)

\* KfdSession::allocate_scratch: one reservation per GPU node, registered for
\* all sessions.  One that can be neither mapped nor freed keeps its owner.
allocate_scratch(w, k, m) ==
  LET kept   == [NoMem EXCEPT !.bo = TRUE, !.state = k, !.kind = "scratch"]
      held   == [Set(w, m, kept) EXCEPT !.reserved = TRUE]
      mapped == Set(held, m, [kept EXCEPT !.gpu = TRUE, !.mapped = TRUE])
  IN  IF ~w.open[k] \/ w.reserved THEN {Failed(w)}
      ELSE {mapped} \cup Fails(w, "alloc")
             \cup Undone(Fails(held, "map"),
                         LAMBDA v : Syscall(v, "free", Freed(v, m)))

-----------------------------------------------------------------------------
(* Pinned host memory *)

\* HostMemoryAllocation::release
release_host(w, h) ==
  LET unmapped == IF ~w.host[h].mapped THEN {w}
                  ELSE Syscall(w, "unmap", [w EXCEPT !.host[h].mapped = FALSE])
      deregistered(v) ==
        IF ~v.host[h].registered THEN {v}
        ELSE Syscall(v, "deregister", [v EXCEPT !.host[h].registered = FALSE])
  IN  IF ~Owns(w.host[h]) THEN {w}
      ELSE Then(Then(unmapped, deregistered),
                LAMBDA v : {Expire([v EXCEPT !.host[h] = NoHost])})

\* KfdSession::allocate_host
allocate_host(w, k, h) ==
  LET registered == [w EXCEPT !.host[h] = [NoHost EXCEPT !.pages = TRUE,
                                                         !.registered = TRUE]]
      owned      == [registered EXCEPT !.host[h].state = k]
  IN  IF ~w.open[k] THEN {Failed(w)}
      ELSE {[owned EXCEPT !.host[h].mapped = TRUE]}
             \cup FailsAny(w, {"malloc", "register"})
             \cup Undone(Fails(owned, "map"),
                         LAMBDA v : Syscall(v, "deregister",
                                            [v EXCEPT !.host[h] = NoHost]))

-----------------------------------------------------------------------------
(* The scratch pool *)

Reservation(p) == <<p, "reservation">>

InUse(w, p) == \E q \in Queues : w.lease[q].pool = p

\* ~ScratchPoolState, when no lease refers to the pool any more.
ExpirePool(W, p) ==
  UNION {IF InUse(w, p) THEN {w}
         ELSE {[v EXCEPT !.pool[p] = NoPool] : v \in Dropped({w}, Reservation(p))} :
           w \in W}

\* Mutant: the part of the range behind the lease is forgotten.
CarveWithoutSuffix(ranges, r, offset, size) ==
  (ranges \ {r}) \cup {<<offset, size, FALSE>>}
    \cup (IF offset = r[1] THEN {} ELSE {<<r[1], offset - r[1], TRUE>>})

\* carve_scratch_range
carve_scratch_range(ranges, r, offset, size) ==
  LET end == offset + size
      rangeEnd == r[1] + r[2]
  IN  (ranges \ {r}) \cup {<<offset, size, FALSE>>}
        \cup (IF offset = r[1] THEN {} ELSE {<<r[1], offset - r[1], TRUE>>})
        \cup (IF end = rangeEnd THEN {} ELSE {<<end, rangeEnd - end, TRUE>>})

\* return_scratch_range: merged with the free neighbours.
return_scratch_range(ranges, offset) ==
  LET r     == CHOOSE x \in ranges : x[1] = offset
      prev  == {x \in ranges : x[3] /\ x[1] + x[2] = offset}
      next  == {x \in ranges : x[3] /\ x[1] = offset + r[2]}
      parts == {r} \cup prev \cup next
      first == Min({x[1] : x \in parts})
  IN  (ranges \ parts) \cup {<<first, MapThenSumSet(LAMBDA x : x[2], parts), TRUE>>}

\* The pool acquire_scratch_lease finds in its session: not one that expired,
\* nor one whose last lease has given the reservation back.
FoundPool(w, k) ==
  LET p == w.scratch_pools[k] IN
  IF /\ p # 0 /\ InUse(w, p)
     /\ ~w.pool[p].retired /\ Owns(w.mem[Reservation(p)])
  THEN p ELSE 0

\* A new pool.  Without memory for its bookkeeping the reservation is released,
\* and if that fails released again by its destructor.
create_pool(w, k) ==
  LET p    == Min({x \in Pools : ~InUse(w, x) /\ w.mem[Reservation(x)] = NoMem})
      held == [Set(w, Reservation(p), [NoMem EXCEPT !.bo = TRUE, !.state = k,
                                                    !.kind = "scratch"])
                 EXCEPT !.reserved = TRUE]
      made == [held EXCEPT !.pool[p] = [NoPool EXCEPT
                                          !.ranges = {<<0, PoolSize, TRUE>>}],
                           !.scratch_pools[k] = p]
  IN  IF w.reserved THEN {Failed(w)}
      ELSE {made} \cup Fails(w, "alloc")
             \cup Dropped(Undone(Fails(held, "state"),
                                 LAMBDA v : release(v, Reservation(p))),
                          Reservation(p))

\* The lease once the pool p is locked: the first free range an aligned lease
\* fits in is carved and mapped.  After a failed mapping the range goes back,
\* and with it the reservation of a pool without leases; when that fails, a
\* lease without a range is returned so that it can be released again.
take_lease(w, p, q, size) ==
  LET ranges     == w.pool[p].ranges
      aligned(r) == ((r[1] + Alignment - 1) \div Alignment) * Alignment
      fits       == {r \in ranges : r[3] /\ aligned(r) + size <= r[1] + r[2]}
      r          == CHOOSE x \in fits : \A y \in fits : x[1] <= y[1]
      carved     == [w EXCEPT !.pool[p].ranges =
                                carve_scratch_range(@, r, aligned(r), size)]
      lease      == [pool |-> p, offset |-> aligned(r), size |-> size,
                     mapped |-> TRUE, returned |-> FALSE]
      empty      == [lease EXCEPT !.offset = 0, !.mapped = FALSE,
                                  !.returned = TRUE]
      retire(v)  == {IF x.ok THEN [x EXCEPT !.pool[p].retired = TRUE]
                     ELSE [x EXCEPT !.lease[q] = empty] :
                       x \in release(v, Reservation(p))}
      unmapped   == {[v EXCEPT !.pool[p].ranges =
                                 return_scratch_range(@, aligned(r))] :
                       v \in Fails(carved, "map")}
  IN  IF fits = {} THEN {Failed(w)}
      ELSE {[carved EXCEPT !.lease[q] = lease, !.pool[p].leases = @ + 1]}
             \cup (IF Cardinality(carved.pool[p].ranges) = Cardinality(ranges)
                   THEN {} ELSE Fails(w, "state"))
             \cup (IF w.pool[p].leases # 0 THEN unmapped
                   ELSE Undone(unmapped, retire))

\* KfdSession::acquire_scratch_lease
acquire_scratch_lease(w, k, q, size) ==
  LET p == FoundPool(w, k)
      lease(v, x) == ExpirePool(take_lease(v, x, q, size), x)
  IN  CASE ~w.open[k] \/ size > PoolSize -> {Failed(w)}
        [] p # 0 -> lease(w, p)
        [] OTHER -> Then(create_pool(w, k),
                         LAMBDA v : lease(v, v.scratch_pools[k]))

\* Mutant: a lease that has returned its range cannot be released again.
ReturnLeaseOnce(w, q) ==
  LET l == w.lease[q]
      p == l.pool
      unmapped == IF ~l.mapped THEN {w}
                  ELSE Syscall(w, "unmap", [w EXCEPT !.lease[q].mapped = FALSE])
      returned(v) ==
        {[v EXCEPT !.lease[q].returned = TRUE, !.pool[p].leases = @ - 1,
                   !.pool[p].ranges = return_scratch_range(@, l.offset)]}
      retired(v) ==
        IF v.pool[p].leases # 0 THEN {v}
        ELSE Then(release(v, Reservation(p)),
                  LAMBDA u : {[u EXCEPT !.pool[p].retired = TRUE]})
  IN  CASE p = 0 -> {w}
        [] l.returned -> {Failed(w)}
        [] OTHER -> Then(Then(unmapped, returned), retired)

\* ScratchLease::release under the pool's lock: the last lease takes the
\* reservation with it.
return_lease(w, q) ==
  LET l == w.lease[q]
      p == l.pool
      unmapped == IF ~l.mapped THEN {w}
                  ELSE Syscall(w, "unmap", [w EXCEPT !.lease[q].mapped = FALSE])
      returned(v) ==
        IF l.returned THEN {v}
        ELSE {[v EXCEPT !.lease[q].returned = TRUE, !.pool[p].leases = @ - 1,
                        !.pool[p].ranges = return_scratch_range(@, l.offset)]}
      retired(v) ==
        IF v.pool[p].leases # 0 \/ ~Owns(v.mem[Reservation(p)]) THEN {v}
        ELSE Then(release(v, Reservation(p)),
                  LAMBDA u : {[u EXCEPT !.pool[p].retired = TRUE]})
  IN  IF p = 0 THEN {w} ELSE Then(Then(unmapped, returned), retired)

\* ScratchLease::reset, which may be the end of the pool.
reset_lease(w, q) ==
  LET p == w.lease[q].pool IN
  IF p = 0 THEN {w} ELSE ExpirePool({[w EXCEPT !.lease[q] = NoLease]}, p)

\* ~ScratchLease
DroppedLease(W, q) ==
  UNION {{[u EXCEPT !.ok = w.ok] :
            u \in UNION {reset_lease(v, q) :
                           v \in return_lease([w EXCEPT !.ok = TRUE], q)}} :
           w \in W}
=============================================================================
