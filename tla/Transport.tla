----------------------------- MODULE Transport -----------------------------
(***************************************************************************)
(* The direct KFD transport as its clients see it: sessions, AQL queues,   *)
(* user signals, executable images, code-cache operations and pinned host  *)
(* memory, used by several threads.  A thread runs the calls of left[t];   *)
(* pc[t] is where it is inside a call that gives up the session's lock.    *)
(* A failed release is called again, as the owners' contract asks.         *)
(***************************************************************************)
EXTENDS TransportQueue

CONSTANTS
  Signals,      \* the clients' UserSignal objects
  SlotCount,    \* signals on a page
  Programs      \* the calls, faults and hardware of each instance

ASSUME SlotAssumption == SlotCount \in Nat \ {0}

VARIABLES w, pc, left, page

vars == <<w, pc, left, page>>

Owners == Signals \cup Operations

NoOperation == [made |-> FALSE, submitted |-> None, pending |-> FALSE]

Opened == [open |-> FALSE, fds |-> 0, runtime |-> FALSE, event |-> FALSE]

Init ==
  \E p \in Programs :
    /\ w = [ok |-> TRUE, faults |-> p.faults, may |-> p.may,
            integrated |-> p.integrated, supports |-> p.supports,
            session |-> Opened, vm |-> NoVm, mem |-> [m \in Mem |-> NoMem],
            pool |-> NoPool, scratch |-> [q \in Queues |-> NoScratch],
            queue |-> [q \in Queues |-> NoQueue],
            trap_handler |-> None, event_page |-> None,
            event_page_registered |-> FALSE,
            signal_pages |-> <<>>, slots |-> [g \in Pages |-> {}],
            signal |-> [s \in Owners |-> None],
            image |-> [i \in Images |-> FALSE],
            op |-> [o \in Operations |-> NoOperation],
            preserved |-> {}]
    /\ left = p.calls
    /\ pc = [t \in Threads |-> "idle"]
    /\ page = [t \in Threads |-> None]

-----------------------------------------------------------------------------
(* Steps of a call *)

Call(t) == Head(left[t])

At(t, l) == pc[t] = l

Begins(t, name) == At(t, "idle") /\ left[t] # <<>> /\ Call(t)[1] = name

Becomes(v) == w' = [v EXCEPT !.ok = TRUE]

Goto(t, l) == pc' = [pc EXCEPT ![t] = l] /\ UNCHANGED left

Return(t) == pc' = [pc EXCEPT ![t] = "idle"] /\ left' = [left EXCEPT ![t] = Tail(@)]

\* The call ends whether or not it succeeded.
Ends(t, W) == \E v \in W : Becomes(v) /\ Return(t) /\ UNCHANGED page

\* A failed release is called again.
Retried(t, W) ==
  \E v \in W : /\ Becomes(v) /\ UNCHANGED page
               /\ IF v.ok THEN Return(t) ELSE Goto(t, "idle")

\* The call goes on at l unless it returned early.
Continues(t, W, l) ==
  \E v \in W : /\ Becomes(v) /\ UNCHANGED page
               /\ IF v.ok THEN Goto(t, l) ELSE Return(t)

-----------------------------------------------------------------------------
(* Sessions *)

\* KfdSession::open up to the registry: the descriptor and its checks.
OpenKfd(t) ==
  LET opened == [w EXCEPT !.session.fds = @ + 1] IN
  /\ Begins(t, "open")
  /\ Continues(t, {opened} \cup FailsAny(w, {"kfd", "inspect", "version"}),
               "register")

\* The registry's part.  A session there is reused and the descriptor closed;
\* ~KfdState undoes a set-up that fails.
RegisterSession(t) ==
  LET closed  == [w EXCEPT !.session.fds = @ - 1]
      enabled == {[w EXCEPT !.session.runtime = w.supports]}
                   \cup (IF w.supports
                         THEN {[v EXCEPT !.ok = TRUE] : v \in Fails(w, "enable")}
                         ELSE {})
      ready(v) == {[v EXCEPT !.session.event = TRUE, !.session.open = TRUE]}
                    \cup {[closed EXCEPT !.ok = FALSE, !.faults = u.faults] :
                            u \in FailsAny(v, {"event", "thread", "state"})}
  IN  /\ At(t, "register")
      /\ Ends(t, IF w.session.open THEN {closed}
                 ELSE UNION {ready(v) : v \in enabled})

-----------------------------------------------------------------------------
(* KfdSession::create_aql_queue, a step for each time it takes the lock *)

Queue(t) == Call(t)[2]

CreateQueue(t) ==
  /\ Begins(t, "create_queue")
  /\ Continues(t, acquire_vm(w), "trap")

ReadTrapHandler(t) ==
  /\ At(t, "trap")
  /\ Goto(t, IF w.session.runtime /\ w.trap_handler = None
             THEN "allocate_trap" ELSE "page")
  /\ UNCHANGED <<w, page>>

AllocateTrapHandler(t) ==
  /\ At(t, "allocate_trap")
  /\ Continues(t, allocate_trap_handler(w, t, Queue(t)), "set_trap")

SetTrapHandler(t) ==
  /\ At(t, "set_trap")
  /\ Continues(t, configure_trap_handler(w, t, Queue(t)), "page")

ReadEventPage(t) ==
  /\ At(t, "page")
  /\ Goto(t, CASE ~w.session.runtime    -> "build"
               [] w.event_page = None   -> "allocate_page"
               [] OTHER                 -> "event")
  /\ UNCHANGED <<w, page>>

AllocateEventPage(t) ==
  /\ At(t, "allocate_page")
  /\ Continues(t, allocate_event_page(w, t, Queue(t)), "set_page")

SetEventPage(t) ==
  /\ At(t, "set_page")
  /\ Continues(t, publish_event_page(w, t), "event")

CreateErrorEvent(t) ==
  /\ At(t, "event")
  /\ Continues(t, create_queue_error_event(w, Queue(t)), "build")

BuildQueue(t) ==
  /\ At(t, "build")
  /\ Ends(t, build_queue(w, Queue(t), Call(t)[3]))

ReleaseQueue(t) ==
  /\ Begins(t, "release_queue")
  /\ Retried(t, release_queue(w, Queue(t)))

DropQueue(t) ==
  /\ Begins(t, "drop_queue")
  /\ Ends(t, release_for_destruction(w, Queue(t)))

-----------------------------------------------------------------------------
(* User signals *)

Storage(g) == <<g, "signals">>

Alive(v, g) == \E s \in Owners : v.signal[s] # None /\ v.signal[s][1] = g

\* A page some thread is about to allocate or to register.
Taken(g) == \E t \in Threads :
              page[t] = g /\ pc[t] \in {"allocate_signals", "register_signals"}

\* SignalPage::acquire
CanAcquire(v, g) ==
  /\ Owns(v.mem[Storage(g)]) /\ v.mem[Storage(g)].host
  /\ Cardinality(v.slots[g]) < SlotCount

acquire(v, g, s) ==
  LET slot == CHOOSE n \in 1..SlotCount :
                /\ n \notin v.slots[g]
                /\ \A k \in 1..SlotCount : k < n => k \in v.slots[g]
  IN  [v EXCEPT !.slots[g] = @ \cup {slot}, !.signal[s] = <<g, slot>>]

\* SignalPage::release and UserSignal::release: the last slot takes the page's
\* storage with it, and a page no signal refers to expires from the list.
release_signal(v, s) ==
  LET g    == v.signal[s][1]
      freed(u) == [u EXCEPT !.slots[g] = @ \ {v.signal[s][2]},
                            !.signal[s] = None]
      expire(u) == IF Alive(u, g) THEN u
                   ELSE [u EXCEPT !.signal_pages =
                                     SelectSeq(@, LAMBDA x : x # g)]
  IN  IF v.signal[s] = None THEN {v}
      ELSE Then(IF v.slots[g] = {v.signal[s][2]}
                THEN release_memory(v, Storage(g)) ELSE {v},
                LAMBDA u : {expire(freed(u))})

\* The owner a thread creates a signal for: the client's or its operation's.
Target(t) == IF Call(t)[1] = "freeze" THEN Call(t)[2] ELSE Queue(t)

\* Where create_user_signal returns to.
Created(t, W) ==
  IF Call(t)[1] = "signal" THEN Ends(t, W)
  ELSE \E v \in W : /\ Becomes(v) /\ UNCHANGED page
                    /\ Goto(t, IF v.ok THEN "publish" ELSE "abandon")

\* Under the lock: the first page of the list with a free slot.
FindSignalPage(t) ==
  LET open == SelectSeq(w.signal_pages, LAMBDA g : CanAcquire(w, g)) IN
  /\ Begins(t, "signal") \/ At(t, "signal")
  /\ IF open = <<>>
     THEN /\ Goto(t, "allocate_signals")
          /\ \E g \in Pages :
               /\ ~Alive(w, g) /\ w.mem[Storage(g)] = NoMem /\ ~Taken(g)
               /\ page' = [page EXCEPT ![t] = g]
          /\ UNCHANGED w
     ELSE Created(t, {acquire(w, Head(open), Target(t))})

\* The page's storage.  A failed allocation that still owns something is
\* given to the signal that is returned, on a page of its own.
AllocateSignalPage(t) ==
  LET g == page[t]
      retained(v) ==
        IF ~Owns(v.mem[Storage(g)]) THEN {v}
        ELSE {[v EXCEPT !.slots[g] = {1}, !.signal[Target(t)] = <<g, 1>>]}
               \cup Dropped(Fails(v, "state"), Storage(g))
      W == allocate_memory_impl(w, Storage(g), "general")
  IN  /\ At(t, "allocate_signals")
      /\ \/ \E v \in W : /\ v.ok /\ Becomes(v)
                         /\ Goto(t, "register_signals") /\ UNCHANGED page
         \/ Created(t, UNION {retained(v) : v \in {u \in W : ~u.ok}})

\* Registration under the lock; without memory for it the page is dropped.
RegisterSignalPage(t) ==
  LET g == page[t]
      listed == [w EXCEPT !.signal_pages = Append(@, g)]
  IN  /\ At(t, "register_signals")
      /\ Created(t, {acquire(listed, g, Target(t))}
                      \cup Dropped(Fails(w, "state"), Storage(g)))

ReleaseSignal(t) ==
  /\ Begins(t, "release_signal")
  /\ Retried(t, release_signal(w, Target(t)))

-----------------------------------------------------------------------------
(* Executable images and pinned host memory *)

Image(i) == <<i, "image">>

\* ExecutableImage::release: the description of the image goes with it unless
\* the GPU may still have it mapped.
release_image(v, i) ==
  {[u EXCEPT !.image[i] = @ /\ ~u.ok /\ u.mem[Image(i)].mapped = 1] :
     u \in release_memory(v, Image(i))}

\* materialize_executable_image
Materialize(t) ==
  LET i == Call(t)[2]
      built(v) == {[v EXCEPT !.image[i] = TRUE]}
                    \cup rollback_memory(Fails(v, "image"), Image(i))
  IN  /\ Begins(t, "image")
      /\ Ends(t, Then(allocate_memory_impl(w, Image(i), "general"), built))

ReleaseImage(t) ==
  /\ Begins(t, "release_image")
  /\ Retried(t, release_image(w, Call(t)[2]))

AllocateHost(t) ==
  /\ Begins(t, "host")
  /\ Ends(t, allocate_host(w, <<Call(t)[2], "host">>))

ReleaseHost(t) ==
  /\ Begins(t, "release_host")
  /\ Retried(t, release_host_memory(w, <<Call(t)[2], "host">>))

-----------------------------------------------------------------------------
(* Code-cache operations *)

Command(o) == <<o, "command">>

\* release_resources: the signal and the command, each even if the other fails.
release_resources(v, o) ==
  UNION {{[u EXCEPT !.ok = @ /\ x.ok] :
            u \in release_memory([x EXCEPT !.ok = TRUE], Command(o))} :
           x \in release_signal(v, o)}

\* CodeCacheOperation::owns_resources
OperationOwns(v, o) == Owns(v.mem[Command(o)]) \/ v.signal[o] # None

Settled(W, o) == {[v EXCEPT !.op[o].made = OperationOwns(v, o)] : v \in W}

\* CodeCacheOperation::release: a queue that may still execute the packet is
\* destroyed before the packet's storage.
release_operation(v, o) ==
  LET q == v.op[o].submitted
      stopped == IF q # None /\ v.op[o].pending THEN release_queue(v, q) ELSE {v}
  IN  IF ~v.op[o].made THEN {v}
      ELSE Then(stopped, LAMBDA u :
             Settled(release_resources([u EXCEPT !.op[o].submitted = None], o), o))

\* CodeCacheOperation::release_for_destruction
drop_operation(v, o) ==
  LET again == UNION {IF u.ok THEN {u} ELSE release_resources([u EXCEPT !.ok = TRUE], o) :
                        u \in release_resources([v EXCEPT !.op[o].submitted = None], o)}
      gone(u) == [u EXCEPT !.ok = TRUE, !.op[o].made = FALSE,
                           !.preserved = IF OperationOwns(u, o) THEN @ \cup {o} ELSE @]
  IN  CASE ~v.op[o].made -> {v}
        [] v.op[o].submitted # None /\ v.op[o].pending -> {gone(v)}
        [] OTHER -> {gone(u) : u \in again}

\* freeze_executable_image up to its command buffer.
Freeze(t) ==
  LET o == Call(t)[2]
      q == Call(t)[3]
      i == Call(t)[4]
      ready == /\ w.queue[q].made /\ w.queue[q].active /\ w.queue[q].doorbell
               /\ w.image[i] /\ Owns(w.mem[Image(i)])
      made  == [w EXCEPT !.op[o].made = TRUE]
  IN  /\ Begins(t, "freeze")
      /\ IF ~ready THEN Ends(t, {w} \cup Fails(w, "state"))
         ELSE \/ \E v \in allocate_memory_impl(made, Command(o), "general") :
                   /\ Becomes(v) /\ UNCHANGED page
                   /\ Goto(t, IF v.ok THEN "signal" ELSE "abandon")
              \/ Ends(t, Fails(w, "state"))

\* finish_before_submission
Abandon(t) ==
  /\ At(t, "abandon")
  /\ Ends(t, release_operation(w, Call(t)[2]))

\* The slot of the ring, the packet and the doorbell.
Publish(t) ==
  LET o == Call(t)[2] IN
  /\ At(t, "publish")
  /\ \/ /\ Becomes([w EXCEPT !.op[o].submitted = Call(t)[3], !.op[o].pending = TRUE])
        /\ Goto(t, "wait") /\ UNCHANGED page
     \/ \E v \in Fails(w, "full") :
          Becomes(v) /\ Goto(t, "abandon") /\ UNCHANGED page

\* The wait for the packet ends with its completion or at the deadline; either
\* way the operation is released.
WaitForCompletion(t) ==
  /\ At(t, "wait")
  /\ Ends(t, release_operation(w, Call(t)[2]))

ReleaseOperation(t) ==
  /\ Begins(t, "release_operation")
  /\ Retried(t, release_operation(w, Call(t)[2]))

DropOperation(t) ==
  /\ Begins(t, "drop_operation")
  /\ Ends(t, drop_operation(w, Call(t)[2]))

\* The GPU executes the packet while its queue exists.
GpuExecutes(o) ==
  /\ w.op[o].pending
  /\ \E q \in Queues : w.op[o].submitted = q /\ w.queue[q].active
  /\ w' = [w EXCEPT !.op[o].pending = FALSE]
  /\ UNCHANGED <<pc, left, page>>

-----------------------------------------------------------------------------
Step(t) ==
  \/ OpenKfd(t) \/ RegisterSession(t)
  \/ CreateQueue(t) \/ ReadTrapHandler(t) \/ AllocateTrapHandler(t)
  \/ SetTrapHandler(t) \/ ReadEventPage(t) \/ AllocateEventPage(t)
  \/ SetEventPage(t) \/ CreateErrorEvent(t) \/ BuildQueue(t)
  \/ ReleaseQueue(t) \/ DropQueue(t)
  \/ FindSignalPage(t) \/ AllocateSignalPage(t) \/ RegisterSignalPage(t)
  \/ ReleaseSignal(t)
  \/ Materialize(t) \/ ReleaseImage(t) \/ AllocateHost(t) \/ ReleaseHost(t)
  \/ Freeze(t) \/ Abandon(t) \/ Publish(t) \/ WaitForCompletion(t)
  \/ ReleaseOperation(t) \/ DropOperation(t)

Next == (\E t \in Threads : Step(t)) \/ \E o \in Operations : GpuExecutes(o)

\* Threads are scheduled; the GPU need never execute anything.
FairSpec == Init /\ [][Next]_vars /\ \A t \in Threads : WF_vars(Step(t))

-----------------------------------------------------------------------------
(* Properties *)

Recorded(r) ==
  (r.va => r.reservation) /\ (r.bo => r.handle) /\ (r.gpu => r.mapped = 1)

Creating(q) ==
  \E t \in Threads : pc[t] \in {"event", "build"} /\ Queue(t) = q

\* An object through which the memory can still be released.
Held(m) ==
  LET o == m[1] IN
  CASE m[2] \in QueueMemory -> w.queue[o].made \/ o \in w.preserved
    [] m[2] = "trap"    -> w.trap_handler = m \/ pc[o] = "set_trap"
    [] m[2] = "page"    -> w.event_page = m \/ pc[o] = "set_page"
    [] m[2] = "signals" -> Alive(w, o) \/ Taken(o)
    [] m[2] = "command" -> w.op[o].made \/ o \in w.preserved
    [] OTHER            -> TRUE

\* Whatever system calls fail and however often a release is resumed, every
\* address range, buffer, GPU mapping, queue, event and descriptor the kernel
\* still holds for the process is recorded by an object that can release it
\* (or was deliberately preserved by a destructor): nothing leaks out of
\* the rollbacks of allocate_memory, create_aql_queue, create_user_signal,
\* freeze_executable_image and KfdSession::open.
NothingLost ==
  /\ \A m \in Mem :
       LET r == w.mem[m] IN Recorded(r) /\ (r.va \/ r.bo \/ r.gpu => Held(m))
  /\ \A q \in Queues : owns_resources(w, q) =>
       w.queue[q].made \/ q \in w.preserved \/ Creating(q)
  /\ \A o \in Operations : w.signal[o] # None =>
       w.op[o].made \/ o \in w.preserved
  /\ w.session.fds = (IF w.session.open THEN 1 ELSE 0)
                       + Cardinality({t \in Threads : pc[t] = "register"})

Backed(m) == w.mem[m].va /\ w.mem[m].bo /\ w.mem[m].gpu

\* As long as the kernel may run a queue, everything its packets and its
\* traps reach is mapped on the GPU: ring, control block, end-of-pipe and
\* save areas, scratch, trap handler, event page, and the command and signal
\* of a pending cache operation.  AqlQueue::release and
\* CodeCacheOperation::release destroy the queue before any of it goes.  A
\* pinned host buffer never outlives its pages.
GpuReachable ==
  /\ \A q \in Queues : w.queue[q].active =>
       /\ \A k \in {"ring", "control", "eop", "cwsr"} : Backed(<<q, k>>)
       /\ w.scratch[q].owned =>
            /\ w.pool.reservation
            /\ w.integrated \/ w.mem[<<q, "scratch">>].gpu
       /\ w.session.runtime => Backed(w.trap_handler) /\ Backed(w.event_page)
  /\ \A o \in Operations : \A q \in Queues :
       w.op[o].pending /\ w.op[o].submitted = q /\ w.queue[q].active =>
         Backed(Command(o)) /\ Backed(Storage(w.signal[o][1]))
  /\ \A h \in Hosts : w.mem[<<h, "host">>].bo => w.mem[<<h, "host">>].va

Granules(r) == r[1] .. (r[1] + r[2] - 1)


\* Every call returns, and a release that is called again after a failure
\* (an unmap that half succeeded, a reservation that stayed) succeeds once
\* the kernel stops failing, whether or not the GPU ever executes a packet.
CallsReturn == <>(\A t \in Threads : left[t] = <<>>)
=============================================================================
