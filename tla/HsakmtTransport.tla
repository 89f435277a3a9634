-------------------------- MODULE HsakmtTransport --------------------------
(***************************************************************************)
(* The transport over libhsakmt as its clients see it: sessions, buffers,  *)
(* user signals, AQL queues with leased scratch, and the cache             *)
(* invalidation that freezes an executable image.  Thread t runs the calls *)
(* of left[t]; pc[t] is where it is inside a call of several steps.  A     *)
(* failed release is called again, as the owners' contract asks.           *)
(***************************************************************************)
EXTENDS HsakmtMemory

CONSTANT Programs       \* the calls, faults and opened sessions of each instance

VARIABLES w, pc, left

vars == <<w, pc, left>>

NoQueue == [made |-> FALSE, active |-> FALSE]

NoPacket == [queue |-> None, pending |-> FALSE]

Init ==
  \E p \in Programs :
    /\ w = [ok |-> TRUE, faults |-> p.faults, may |-> p.may,
            kfd |-> [k \in Sessions |->
                       [active |-> k \in p.open, properties |-> k \in p.open]],
            open |-> [k \in Sessions |-> k \in p.open],
            scratch_pools |-> [k \in Sessions |-> 0], reserved |-> FALSE,
            mem |-> [m \in Mem |-> NoMem], host |-> [h \in Hosts |-> NoHost],
            pool |-> [x \in Pools |-> NoPool],
            lease |-> [q \in Queues |-> NoLease],
            queue |-> [q \in Queues |-> NoQueue], preserved |-> {},
            info |-> [b \in Buffers |-> FALSE],
            packet |-> [t \in Threads |-> NoPacket]]
    /\ left = p.calls
    /\ pc = [t \in Threads |-> "idle"]

-----------------------------------------------------------------------------
(* Steps of a call *)

Call(t) == Head(left[t])

At(t, l) == pc[t] = l

Begins(t, name) == At(t, "idle") /\ left[t] # <<>> /\ Call(t)[1] = name

Becomes(v) == w' = [v EXCEPT !.ok = TRUE]

Goto(t, l) == pc' = [pc EXCEPT ![t] = l] /\ UNCHANGED left

Return(t) == pc' = [pc EXCEPT ![t] = "idle"] /\ left' = [left EXCEPT ![t] = Tail(@)]

\* The call ends whether or not it succeeded.
Ends(t, W) == \E v \in W : Becomes(v) /\ Return(t)

\* A failed release is called again.
Retried(t, W) ==
  \E v \in W : Becomes(v) /\ IF v.ok THEN Return(t) ELSE Goto(t, "idle")

\* The call goes on at l unless it returned early.
Continues(t, W, l) ==
  \E v \in W : Becomes(v) /\ IF v.ok THEN Goto(t, l) ELSE Return(t)

-----------------------------------------------------------------------------
(* Sessions, device memory, host memory, signals *)

OpenSession(t) ==
  Begins(t, "open") /\ Ends(t, open_session(w, Call(t)[2]))

CloseSession(t) ==
  Begins(t, "close") /\ Ends(t, close_session(w, Call(t)[2]))

Block(t) == <<Call(t)[3], "block">>

AllocateVram(t) ==
  /\ Begins(t, "vram")
  /\ \E heap \in {"public", "private", "system"} :
       Ends(t, allocate_vram(w, Call(t)[2], Block(t), heap))

AllocateScratch(t) ==
  Begins(t, "scratch") /\ Ends(t, allocate_scratch(w, Call(t)[2], Block(t)))

ReleaseBlock(t) ==
  Begins(t, "release_block") /\ Retried(t, release(w, Block(t)))

DropBlock(t) ==
  Begins(t, "drop_block") /\ Ends(t, Dropped({w}, Block(t)))

AllocateHost(t) ==
  Begins(t, "host") /\ Ends(t, allocate_host(w, Call(t)[2], Call(t)[3]))

ReleaseHost(t) ==
  Begins(t, "release_host") /\ Retried(t, release_host(w, Call(t)[3]))

\* KfdSession::create_user_signal
create_user_signal(v, k, m) == allocate_gtt(v, k, m)

CreateSignal(t) ==
  /\ Begins(t, "signal")
  /\ Ends(t, create_user_signal(w, Call(t)[2], <<Call(t)[3], "signal">>))

\* UserSignal::release
ReleaseSignal(t) ==
  /\ Begins(t, "release_signal")
  /\ Retried(t, release(w, <<Call(t)[3], "signal">>))

-----------------------------------------------------------------------------
(* Executable images and kernel arguments *)

Buffer(b) == <<b, "buffer">>

\* materialize_executable_image: an image that cannot be built is dropped.
MaterializeImage(t) ==
  LET b == Call(t)[3]
      built(v) == {[v EXCEPT !.info[b] = TRUE]}
                    \cup Dropped(Fails(v, "build"), Buffer(b))
  IN  /\ Begins(t, "image")
      /\ Ends(t, Then(allocate_gtt(w, Call(t)[2], Buffer(b)), built))

\* create_kernarg_buffer: arguments that cannot be written are released, and
\* a failed release leaves the buffer with the caller.
CreateKernarg(t) ==
  LET b == Call(t)[3]
      built(v) == {[v EXCEPT !.info[b] = TRUE]}
                    \cup Undone(Fails(v, "build"),
                                LAMBDA u : release(u, Buffer(b)))
  IN  /\ Begins(t, "kernarg")
      /\ \/ Ends(t, Then(allocate_gtt(w, Call(t)[2], Buffer(b)), built))
         \/ Ends(t, {[w EXCEPT !.info[b] = TRUE]})      \* no arguments
         \/ Ends(t, Fails(w, "requirements"))

\* ExecutableImage::release and KernargBuffer::release: the description goes
\* with the buffer unless the GPU still has it mapped.
ReleaseBuffer(t) ==
  LET b == Call(t)[3] IN
  /\ Begins(t, "release_buffer")
  /\ Retried(t, {[v EXCEPT !.info[b] = @ /\ v.mem[Buffer(b)].mapped] :
                   v \in release(w, Buffer(b))})

-----------------------------------------------------------------------------
(* AQL queues *)

Ring(q) == <<q, "ring">>
Control(q) == <<q, "control">>

\* The destructors of what create_aql_queue had gathered.
Abandoned(W, q) == Dropped(Dropped(DroppedLease(W, q), Control(q)), Ring(q))

Kept(W, q) == {[v EXCEPT !.queue[q].made = TRUE] : v \in W}

\* KfdSession::create_aql_queue up to the control block.
CreateQueue(t) ==
  LET k == Call(t)[2]
      q == Call(t)[3]
      control(v) == LET W == allocate_gtt(v, k, Control(q))
                    IN  {u \in W : u.ok}
                          \cup Dropped({u \in W : ~u.ok}, Ring(q))
  IN  /\ Begins(t, "create_queue")
      /\ Continues(t, Fails(w, "arguments")
                        \cup Then(allocate_gtt(w, k, Ring(q)), control), "lease")

\* Its scratch.  A failure that left something to release returns the queue.
LeaseScratch(t) ==
  LET k == Call(t)[2]
      q == Call(t)[3]
      W == IF Call(t)[4] = 0 THEN {w}
           ELSE acquire_scratch_lease(w, k, q, Call(t)[4])
      failed == {v \in W : ~v.ok}
      owning == {v \in failed : v.lease[q].size # 0}
  IN  /\ At(t, "lease")
      /\ Continues(t, {v \in W : v.ok} \cup Kept(owning, q)
                        \cup Abandoned(failed \ owning, q), "kernel_queue")

\* The scratch registers and the kernel's queue.
CreateKernelQueue(t) ==
  LET q == Call(t)[3] IN
  /\ At(t, "kernel_queue")
  /\ Ends(t, {[w EXCEPT !.queue[q] = [made |-> TRUE, active |-> TRUE]]}
               \cup Kept(Fails(w, "configure"), q)
               \cup Abandoned(Fails(w, "create"), q))

\* Mutant: the queue's memory goes although the kernel kept the queue.
DestroyRegardless(v, q) ==
  {[u EXCEPT !.ok = TRUE] :
     u \in Syscall(v, "destroy", [v EXCEPT !.queue[q].active = FALSE])}

\* hsaKmtDestroyQueue in AqlQueue::release
destroy_queue(v, q) ==
  IF ~v.queue[q].active THEN {v}
  ELSE Syscall(v, "destroy", [v EXCEPT !.queue[q].active = FALSE])

\* The queue's memory, and the state.
release_storage(v, q) ==
  Then(Then(release(v, Control(q)), LAMBDA u : release(u, Ring(q))),
       LAMBDA u : {[u EXCEPT !.queue[q].made = FALSE]})

\* AqlQueue::release, to where the lease has given the pool's lock back.
ReleaseQueue(t) ==
  LET q == Call(t)[3]
      W == Then(destroy_queue(w, q), LAMBDA v : return_lease(v, q))
  IN  /\ Begins(t, "release_queue")
      /\ IF ~w.queue[q].made THEN Ends(t, {w})
         ELSE \E v \in W : Becomes(v) /\ Goto(t, IF v.ok THEN "reset" ELSE "idle")

\* The rest of it.
ReleaseStorage(t) ==
  LET q == Call(t)[3] IN
  /\ At(t, "reset")
  /\ Retried(t, Then(reset_lease(w, q), LAMBDA v : release_storage(v, q)))

\* AqlQueue::release_for_destruction: a queue the kernel did not destroy keeps
\* its memory for ever; otherwise the members are destroyed.
DropQueue(t) ==
  LET q == Call(t)[3]
      W == Then(Then(Then(destroy_queue(w, q), LAMBDA v : return_lease(v, q)),
                     LAMBDA v : reset_lease(v, q)),
                LAMBDA v : release_storage(v, q))
      gone(v) == [v EXCEPT !.queue[q].made = FALSE]
  IN  /\ Begins(t, "drop_queue")
      /\ IF ~w.queue[q].made THEN Ends(t, {w})
         ELSE \/ \E v \in W : v.ok /\ Ends(t, {v})
              \/ \E v \in W : /\ ~v.ok
                              /\ Ends(t, IF v.queue[q].active
                                         THEN {[gone(v) EXCEPT !.preserved = @ \cup {q}]}
                                         ELSE {gone(u) : u \in Abandoned({v}, q)})

-----------------------------------------------------------------------------
(* freeze_executable_image *)

Command(t) == <<t, "command">>
Completion(t) == <<t, "completion">>

\* cleanup and the destructors behind it: two attempts at each.
cleanup(v, t) ==
  LET signal  == {[u EXCEPT !.ok = TRUE] : u \in release(v, Completion(t))}
      command == UNION {release(u, Command(t)) : u \in signal}
  IN  Dropped(Dropped(command, Completion(t)), Command(t))

\* Its command buffer and its signal.
Freeze(t) ==
  LET k == Call(t)[2]
      q == Call(t)[3]
      b == Call(t)[4]
      ready == /\ w.open[k] /\ w.queue[q].made /\ w.queue[q].active
               /\ w.info[b] /\ Owns(w.mem[Buffer(b)])
      signal(v) == LET W == create_user_signal(v, k, Completion(t))
                   IN  {u \in W : u.ok}
                         \cup Undone({u \in W : ~u.ok}, LAMBDA u : cleanup(u, t))
  IN  /\ Begins(t, "freeze")
      /\ IF ~ready THEN Ends(t, {w})
         ELSE Continues(t, Then(allocate_gtt(w, k, Command(t)), signal), "publish")

\* The command, the packet and the doorbell; a command that cannot be built
\* and a full ring end the call.
Publish(t) ==
  /\ At(t, "publish")
  /\ \/ /\ Becomes([w EXCEPT !.packet[t] = [queue |-> Call(t)[3], pending |-> TRUE]])
        /\ Goto(t, "wait")
     \/ Ends(t, UNION {cleanup([v EXCEPT !.ok = TRUE], t) :
                         v \in FailsAny(w, {"command", "full"})})

\* The wait has no deadline.
WaitForCompletion(t) ==
  /\ At(t, "wait") /\ ~w.packet[t].pending
  /\ Ends(t, cleanup(w, t))

\* The GPU executes the packet while its queue exists.
GpuExecutes(t) ==
  /\ w.packet[t].pending /\ w.queue[w.packet[t].queue].active
  /\ w' = [w EXCEPT !.packet[t] = NoPacket]
  /\ UNCHANGED <<pc, left>>

-----------------------------------------------------------------------------
Step(t) ==
  \/ OpenSession(t) \/ CloseSession(t)
  \/ AllocateVram(t) \/ AllocateScratch(t) \/ ReleaseBlock(t) \/ DropBlock(t)
  \/ AllocateHost(t) \/ ReleaseHost(t) \/ CreateSignal(t) \/ ReleaseSignal(t)
  \/ MaterializeImage(t) \/ CreateKernarg(t) \/ ReleaseBuffer(t)
  \/ CreateQueue(t) \/ LeaseScratch(t) \/ CreateKernelQueue(t)
  \/ ReleaseQueue(t) \/ ReleaseStorage(t) \/ DropQueue(t)
  \/ Freeze(t) \/ Publish(t) \/ WaitForCompletion(t)

Next == \E t \in Threads : Step(t) \/ GpuExecutes(t)

\* Threads are scheduled, and the GPU executes what a live queue holds: the
\* cache invalidation waits for it without a deadline.
FairSpec ==
  /\ Init /\ [][Next]_vars
  /\ \A t \in Threads : WF_vars(Step(t)) /\ WF_vars(GpuExecutes(t))

-----------------------------------------------------------------------------
(* Properties *)

\* The registry of scratch_reservations() names the GPU exactly while the
\* kernel holds a scratch reservation for it, and there is never a second
\* one: libhsakmt would program the process's scratch base again, under the
\* queues that use the first.  So whatever fails in allocate_scratch,
\* acquire_scratch_lease, MemoryAllocation::release and the destructors, and
\* whichever session asks, the node is neither reserved twice nor refused for
\* a reservation that is gone.
ReservationRegistered ==
  LET scratch == {m \in Mem : w.mem[m].bo /\ w.mem[m].kind = "scratch"} IN
  /\ Cardinality(scratch) <= 1
  /\ w.reserved <=> scratch # {}

Pages(r) == r[1] .. (r[1] + r[2] - 1)

\* The ranges of a scratch pool cover it without overlap and no two free
\* ranges touch; every lease that was not returned has a range of its own;
\* active_leases counts the ranges in use (carve_scratch_range,
\* return_scratch_range, ScratchLease::release).
PoolsPartitioned ==
  \A p \in {x \in Pools : InUse(w, x)} :
    LET ranges == w.pool[p].ranges
        leases == {q \in Queues : w.lease[q].pool = p /\ ~w.lease[q].returned}
        range(q) == <<w.lease[q].offset, w.lease[q].size, FALSE>>
    IN  /\ UNION {Pages(r) : r \in ranges} = 0..(PoolSize - 1)
        /\ \A r, x \in ranges : r # x =>
             Pages(r) \cap Pages(x) = {} /\ ~(r[3] /\ x[3] /\ r[1] + r[2] = x[1])
        /\ \A q \in leases : range(q) \in ranges
        /\ \A q, u \in leases : q # u => range(q) # range(u)
        /\ w.pool[p].leases = Cardinality({r \in ranges : ~r[3]})

\* Scratch memory is accounted for, from the process-wide registry of nodes
\* (scratch_reservations) down to the range of every lease: whatever fails
\* and whichever session asks, no scratch is reserved, leased or counted
\* twice, and none is forgotten.
ScratchAccounted == ReservationRegistered /\ PoolsPartitioned

Backed(m) == w.mem[m].bo /\ w.mem[m].gpu

\* As long as the kernel may run a queue, its ring, its control block and its
\* scratch are mapped and the pool's reservation exists, also when the queue
\* object was destroyed without success; the command and the signal of a
\* pending cache invalidation are mapped; registered host pages are not
\* freed; and every session whose memory is still owned is open with its
\* topology snapshot, even after the KfdSession itself is gone.
GpuReachable ==
  /\ \A q \in Queues : w.queue[q].active =>
       /\ Backed(Ring(q)) /\ Backed(Control(q))
       /\ w.lease[q].pool # 0 =>
            w.lease[q].mapped /\ w.mem[Reservation(w.lease[q].pool)].bo
  /\ \A t \in Threads : w.packet[t].pending =>
       Backed(Command(t)) /\ Backed(Completion(t))
  /\ \A h \in Hosts : w.host[h].registered => w.host[h].pages
  /\ \A k \in Sessions : Shared(w, k) => w.kfd[k].active /\ w.kfd[k].properties

\* Every call returns, and a release that is called again after a failure
\* succeeds once the kernel stops failing.
CallsReturn == <>(\A t \in Threads : left[t] = <<>>)
=============================================================================
