--------------------------- MODULE TransportQueue ---------------------------
(***************************************************************************)
(* AQL queues of the direct KFD transport: the objects a queue is built    *)
(* from, the trap handler and the event page all queues of a session       *)
(* share, and the release of a queue, which a failure leaves half done and *)
(* a later call resumes.                                                   *)
(***************************************************************************)
EXTENDS TransportMemory

None == <<>>

NoQueue == [made |-> FALSE, active |-> FALSE, doorbell |-> FALSE,
            error_event |-> FALSE]

\* AqlQueueState::owns_resources
owns_resources(w, q) ==
  \/ w.queue[q].active \/ w.queue[q].doorbell \/ w.queue[q].error_event
  \/ \E k \in QueueMemory \ {"scratch"} : Owns(w.mem[<<q, k>>])
  \/ w.scratch[q].owned

\* The queue an early return of create_aql_queue gives back: none when it
\* would own nothing.
Returned(W, q) ==
  {[w EXCEPT !.queue[q].made = owns_resources(w, q)] : w \in W}

\* Other early returns give the queue back whatever it owns.
Kept(W, q) == {[w EXCEPT !.queue[q].made = TRUE] : w \in W}

-----------------------------------------------------------------------------
(* Release *)

\* Mutant: a queue the kernel did not destroy is treated as gone.
ReleaseUndestroyed(w, q) ==
  UNION {Syscall([v EXCEPT !.ok = TRUE], "munmap",
                 [v EXCEPT !.ok = TRUE, !.queue[q].doorbell = FALSE]) :
           v \in Syscall(w, "destroy", [w EXCEPT !.queue[q].active = FALSE])}

\* detail::release_aql_queue: destroy the kernel's queue, unmap its doorbell.
release_aql_queue(w, q) ==
  LET destroy(v) == IF ~v.queue[q].active THEN {v}
                    ELSE Syscall(v, "destroy",
                                 [v EXCEPT !.queue[q].active = FALSE])
      unmap(v)   == IF ~v.queue[q].doorbell THEN {v}
                    ELSE Syscall(v, "munmap",
                                 [v EXCEPT !.queue[q].doorbell = FALSE])
  IN  Then(destroy(w), unmap)

\* detail::release_queue_error_event
release_queue_error_event(w, q) ==
  IF ~w.queue[q].error_event THEN {w}
  ELSE Syscall(w, "event", [w EXCEPT !.queue[q].error_event = FALSE])

\* AqlQueue::release
ReleaseOrder == <<"doorbell", "cwsr", "eop", "scratch", "control", "ring">>

ReleaseMemory(w, q) ==
  FoldLeft(LAMBDA W, k :
             Then(W, LAMBDA v : IF k = "scratch" THEN release_scratch(v, q)
                                ELSE release_memory(v, <<q, k>>)),
           {w}, ReleaseOrder)

release_queue(w, q) ==
  IF ~w.queue[q].made THEN {w}
  ELSE Then(Then(Then(release_aql_queue(w, q),
                      LAMBDA v : release_queue_error_event(v, q)),
                 LAMBDA v : ReleaseMemory(v, q)),
            LAMBDA v : {[v EXCEPT !.queue[q].made = FALSE]})

\* AqlQueue::release_for_destruction: two attempts, then the remaining state
\* is preserved, out of reach, so that nothing is freed under the GPU.
release_for_destruction(w, q) ==
  LET again == UNION {IF v.ok THEN {v}
                      ELSE release_queue([v EXCEPT !.ok = TRUE], q) :
                        v \in release_queue(w, q)}
  IN  {[v EXCEPT !.ok = TRUE, !.queue[q].made = FALSE,
                 !.preserved = IF owns_resources(v, q) THEN @ \cup {q} ELSE @] :
         v \in again}

-----------------------------------------------------------------------------
(* Creation *)

\* The trap handler a thread allocates when none was configured.
allocate_trap_handler(w, t, q) ==
  LET W == allocate_memory_impl(w, <<t, "trap">>, "general")
  IN  {v \in W : v.ok}
        \cup Returned(Dropped({v \in W : ~v.ok}, <<t, "trap">>), q)

\* Under the lock again: the first thread configures its handler, a thread
\* that comes second drops its own.
configure_trap_handler(w, t, q) ==
  LET m == <<t, "trap">> IN
  IF w.trap_handler # None THEN Dropped({w}, m)
  ELSE {[w EXCEPT !.trap_handler = m]}
         \cup Kept(Dropped(Fails(w, "trap"), m), q)

\* The page of queue error events, allocated and published likewise.
allocate_event_page(w, t, q) ==
  LET W == allocate_memory_impl(w, <<t, "page">>, "general")
  IN  {v \in W : v.ok}
        \cup Returned(Dropped({v \in W : ~v.ok}, <<t, "page">>), q)
        \cup Kept(Dropped(UNION {Fails(v, "state") : v \in {u \in W : u.ok}},
                          <<t, "page">>), q)

publish_event_page(w, t) ==
  IF w.event_page # None THEN Dropped({w}, <<t, "page">>)
  ELSE {[w EXCEPT !.event_page = <<t, "page">>]}

\* detail::create_queue_error_event: the first event registers the page.
create_queue_error_event(w, q) ==
  {[w EXCEPT !.queue[q].error_event = TRUE, !.event_page_registered = TRUE]}
    \cup Returned(Fails(w, "event"), q)

\* The queue's own memory, in the order of create_aql_queue.  A failure
\* returns the queue with what it owns.
CreateOrder == <<"ring", "control", "eop", "cwsr", "doorbell">>

allocate_queue_memory(w, q) ==
  FoldLeft(LAMBDA W, k :
             Then(W, LAMBDA v :
                       allocate_memory_impl(v, <<q, k>>,
                         IF k = "doorbell" THEN "doorbell" ELSE "general")),
           {w}, CreateOrder)

allocate_queue_scratch(w, q, size) ==
  IF size = 0 THEN {w} ELSE allocate_scratch(w, q, size)

\* detail::create_aql_queue: the kernel's queue and the doorbell's mapping.
create_kernel_queue(w, q) ==
  LET active == [w EXCEPT !.queue[q].active = TRUE]
      mapped == [active EXCEPT !.queue[q].doorbell = TRUE]
      undone(W) == UNION {{Failed(v) :
                             v \in release_aql_queue([b EXCEPT !.ok = TRUE], q)} :
                           b \in W}
  IN  {mapped} \cup Fails(w, "create")
        \cup undone(Fails(active, "doorbell")) \cup undone(Fails(mapped, "madvise"))

\* The rest of KfdSession::create_aql_queue, which no other thread sees.
build_queue(w, q, size) ==
  Returned(Then(Then(Then(allocate_queue_scratch(w, q, size),
                          LAMBDA v : allocate_queue_memory(v, q)),
                     LAMBDA v : create_kernel_queue(v, q)),
                LAMBDA v : map_memory(v, <<q, "doorbell">>)), q)
=============================================================================
