----------------------------- MODULE DirectKfd -----------------------------
(* Events, launches and copies of the direct KFD backend, and its public    *)
(* calls: the direct KFD parts of event.cpp, launch.cpp and memory.cpp.     *)
EXTENDS DirectKfdQueue

Usable(e) == ev[e].live /\ ~ev[e].destroying

----------------------------------------------------------------------------
(* Submission: submit_direct_kfd_kernel_impl_locked                        *)

(* collect_direct_kfd_event_dependencies_locked *)
Accepts(deps) == \A e \in deps : Usable(e) /\ (ev[e].pending \/ ev[e].completed)
Collect(deps) == {e \in deps : ev[e].pending /\ val[e] # 0}

barrier_count(D) == (Cardinality(D) + BarrierWidth - 1) \div BarrierWidth

(* The i-th barrier packet of the dependencies, five of them to a packet *)
Batch(D, i) ==
  LET s == SetToSeq(D)
  IN  {s[j] : j \in {j \in DOMAIN s : (j - 1) \div BarrierWidth = i - 1}}

CollectDependencies(t) ==
  LET c == th[t].call
      D == Collect(c.deps)
  IN  /\ At(t, "collect")
      /\ IF Accepts(c.deps) /\ c.e \notin c.deps
         THEN th' = [th EXCEPT ![t].deps = D, ![t].need = barrier_count(D) + 1,
                               ![t].k = Tail(@)]
         ELSE Fail(t)
      /\ UNCHANGED <<lock, gpuVars, qs, ev, left>>

(* With an empty pool the queue is reaped once more. *)
Acquire(t) ==
  /\ At(t, "acquire")
  /\ Goto(t, IF qs[th[t].q].pool = <<>> THEN Reap ELSE <<>>)
  /\ UNCHANGED <<lock, gpuVars, qs, ev, left>>

(* PendingDispatch objects the queues own *)
Owned == UNION {{qs[q].pd[i].x : i \in DOMAIN qs[q].pd} \cup Range(qs[q].pool) : q \in Queues}

(* One from the pool, or a new one *)
Take(q) ==
  IF qs[q].pool # <<>> THEN Last(qs[q].pool)
  ELSE CHOOSE x \in Dispatches : x \notin Owned

(* aql_dispatch_header: the barrier bit *)
Ordered(q, n) == qs[q].pd # <<>> \/ n # 0

(* An event armed for a packet of queue q *)
Armed(E, e, q) ==
  IF e = Nil THEN E
  ELSE [E EXCEPT ![e].pending = TRUE, ![e].completed = FALSE, ![e].recorded = q]

(* The dispatch joins the lists, then barriers and dispatch are published   *)
(* as one batch.  The kernargs of every kernel take one page, so any        *)
(* pooled dispatch can be reused.                                           *)
SubmitKernel(t) ==
  LET q == th[t].q
      e == th[t].e
      D == th[t].deps
      n == barrier_count(D)
      x == Take(q)
      id == wpos[q] + n + 1
      sig == IF e # Nil THEN e ELSE x
  IN  /\ At(t, "submit")
      /\ e # Nil => ev[e].live /\ ~ev[e].destroying /\ ~ev[e].pending
      /\ qs[q].pool = <<>> => Dispatches \ Owned # {}
      /\ qs' = [qs EXCEPT ![q] = [@ EXCEPT
           !.pool = IF @ = <<>> THEN @ ELSE SubSeq(@, 1, Len(@) - 1),
           !.pd = Append(@, [x |-> x, ev |-> e]),
           !.pb = @ \cup {[ret |-> x, deps |-> Batch(D, i)] : i \in 1 .. n},
           !.pe = IF e = Nil THEN @ ELSE Append(@, e)]]
      /\ flight' = [flight EXCEPT ![q] = @
           \cup {Packet(wpos[q] + i, "barrier", Nil, Nil, Batch(D, i), TRUE) : i \in 1 .. n}
           \cup {Packet(id, "dispatch", x, sig, {}, Ordered(q, n))}]
      /\ wpos' = [wpos EXCEPT ![q] = id]
      /\ val' = [val EXCEPT ![x] = 1, ![sig] = 1]
      /\ ev' = [d \in Events |->
                  IF d \in D THEN [Armed(ev, e, q)[d] EXCEPT !.deps[q] = @ + 1]
                  ELSE Armed(ev, e, q)[d]]
      /\ Goto(t, <<>>)
      /\ UNCHANGED <<lock, fault, left>>

(* The completion event was destroyed or armed meanwhile, an allocation     *)
(* fails, or the packets are refused and the lists are rolled back: the     *)
(* dispatch goes to the pool, the signal of the event to 0.                 *)
SubmitFails(t) ==
  LET q == th[t].q
      e == th[t].e
      rolled == IF qs[q].pool = <<>> /\ Dispatches \ Owned # {}
                THEN [qs EXCEPT ![q].pool = <<Take(q)>>] ELSE qs
  IN  /\ At(t, "submit")
      /\ \/ /\ e # Nil /\ (~Usable(e) \/ ev[e].pending)
            /\ UNCHANGED <<val, qs>>
         \/ /\ "submit" \in Faults
            /\ \/ UNCHANGED <<val, qs>>
               \/ qs' = rolled /\ val' = [s \in Signals |-> IF s = e THEN 0 ELSE val[s]]
      /\ Fail(t)
      /\ UNCHANGED <<lock, flight, wpos, fault, ev, left>>

----------------------------------------------------------------------------
(* Events                                                                  *)

EventIdle(t) ==
  /\ Await(t, "event_idle", ev[th[t].e].syncs = 0)
  /\ UNCHANGED <<gpuVars, qs, ev, left>>

(* lr_event_record looks at its event again after the wait. *)
Revalidate(t) ==
  /\ At(t, "revalidate")
  /\ IF Usable(th[t].e) THEN Goto(t, <<>>) ELSE Fail(t)
  /\ UNCHANGED <<lock, gpuVars, qs, ev, left>>

(* wait_for_direct_kfd_event_locked on an event that is pending *)
WaitForEvent(t) ==
  LET e == th[t].e
      q == ev[e].recorded
  IN  /\ At(t, "event_wait")
      /\ IF ~ev[e].pending THEN Goto(t, <<>>)
         ELSE /\ Waited(q, e)
              /\ IF fault[q] THEN Fail(t)
                 ELSE th' = [th EXCEPT ![t].q = q,
                               ![t].k = Reap \o <<"finish_event">> \o Tail(@)]
      /\ UNCHANGED <<lock, gpuVars, qs, ev, left>>

FinishEvent(t) ==
  LET e == th[t].e
  IN  /\ At(t, "finish_event")
      /\ IF ev[e].pending
         THEN IF val[e] = 0 THEN Finish(qs, ev, e) /\ Goto(t, <<>>)
              ELSE Fail(t) /\ UNCHANGED <<qs, ev>>
         ELSE /\ IF ev[e].completed THEN Goto(t, <<>>) ELSE Fail(t)
              /\ UNCHANGED <<qs, ev>>
      /\ UNCHANGED <<lock, gpuVars, left>>

(* wait_for_direct_kfd_event_consumers: as long as a barrier waits for the  *)
(* event, its queue is synchronised by the public call, without the lock.   *)
WaitForConsumers(t) ==
  LET e == th[t].e
      Q == {q \in Queues : ev[e].deps[q] # 0}
  IN  /\ At(t, "consumers")
      /\ IF Q = {} THEN Goto(t, <<>>) /\ UNCHANGED <<lock, ev>>
         ELSE \E q \in Q :
                IF ~valid_queue(q) THEN Fail(t) /\ UNCHANGED <<lock, ev>>
                ELSE /\ ev' = [ev EXCEPT ![e].syncs = @ + 1]
                     /\ lock' = Nil
                     /\ th' = [th EXCEPT ![t].q = q, ![t].k =
                                 <<"enter_synchronize">> \o SyncOne \o
                                 <<"leave_synchronize", "consumers_done">> \o @]
      /\ UNCHANGED <<gpuVars, qs, left>>

(* lr_queue_synchronize *)
EnterSynchronize(t) ==
  /\ At(t, "enter_synchronize") /\ lock = Nil
  /\ lock' = t
  /\ IF valid_queue(th[t].q)
     THEN th' = [th EXCEPT ![t].need = 1, ![t].drop = TRUE, ![t].k = Tail(@)]
     ELSE Fail(t)
  /\ UNCHANGED <<gpuVars, qs, ev, left>>

LeaveSynchronize(t) ==
  /\ At(t, "leave_synchronize")
  /\ lock' = Nil
  /\ Goto(t, <<>>)
  /\ UNCHANGED <<gpuVars, qs, ev, left>>

ConsumersDone(t) ==
  LET e == th[t].e
  IN  /\ At(t, "consumers_done") /\ lock = Nil
      /\ lock' = t
      /\ ev' = [ev EXCEPT ![e].syncs = @ - 1]
      /\ IF th[t].ok /\ ev[e].live THEN Goto(t, <<>>) ELSE Fail(t)
      /\ UNCHANGED <<gpuVars, qs, left>>

(* event_record_impl, direct KFD: the queue is looked at, then room is made *)
(* with the lock held.                                                      *)
Record(t) ==
  LET q == th[t].call.q
  IN  /\ At(t, "record")
      /\ IF valid_queue(q)
         THEN th' = [th EXCEPT ![t].q = q, ![t].need = 1, ![t].drop = FALSE,
                               ![t].k = Tail(@)]
         ELSE Fail(t)
      /\ UNCHANGED <<lock, gpuVars, qs, ev, left>>

RecordSubmit(t) ==
  LET q == th[t].q
      e == th[t].e
      id == wpos[q] + 1
  IN  /\ At(t, "record_submit")
      /\ \/ /\ flight' = [flight EXCEPT ![q] = @ \cup
                 {Packet(id, "barrier", Nil, e, {}, TRUE)}]
            /\ wpos' = [wpos EXCEPT ![q] = id]
            /\ val' = [val EXCEPT ![e] = 1]
            /\ ev' = Armed(ev, e, q)
            /\ qs' = [qs EXCEPT ![q].pe = Append(@, e)]
            /\ Goto(t, <<>>)
         \/ /\ "submit" \in Faults
            /\ val' \in {val, [val EXCEPT ![e] = 0]}
            /\ Fail(t)
            /\ UNCHANGED <<flight, wpos, qs, ev>>
      /\ UNCHANGED <<lock, fault, left>>

DeleteEvent(t) ==
  /\ At(t, "event_delete")
  /\ \/ ev' = [ev EXCEPT ![th[t].e].live = FALSE] /\ Goto(t, <<>>)
     \/ "release" \in Faults /\ Fail(t) /\ UNCHANGED ev
  /\ UNCHANGED <<lock, gpuVars, qs, left>>

(* lr_event_synchronize waits without the lock, event and queue pinned. *)
HostWait(t) ==
  /\ At(t, "host_wait")
  /\ Waited(th[t].q, th[t].e)
  /\ th' = [th EXCEPT ![t].k = IF fault[th[t].q] THEN <<"relock", "unpin", "return">> ELSE Tail(@),
                      ![t].ok = ~fault[th[t].q]]
  /\ UNCHANGED <<lock, gpuVars, qs, ev, left>>

Unpin(t) ==
  /\ At(t, "unpin")
  /\ qs' = [qs EXCEPT ![th[t].q].syncs = @ - 1]
  /\ ev' = [ev EXCEPT ![th[t].e].syncs = @ - 1]
  /\ Goto(t, <<>>)
  /\ UNCHANGED <<lock, gpuVars, left>>

(* wait_for_all_direct_kfd_event_operations_locked *)
EventsIdle(t) ==
  /\ Await(t, "events_idle", \A e \in Events :
       ev[e].live => ev[e].syncs = 0 /\ ~ev[e].destroying)
  /\ UNCHANGED <<gpuVars, qs, ev, left>>

(* release_direct_kfd_events_locked *)
ReleaseEvents(t) ==
  /\ At(t, "release_events")
  /\ \/ ev' = [e \in Events |-> [ev[e] EXCEPT !.live = FALSE]] /\ Goto(t, <<>>)
     \/ "release" \in Faults /\ Fail(t) /\ UNCHANGED ev
  /\ UNCHANGED <<lock, gpuVars, qs, left>>

----------------------------------------------------------------------------
(* Copies                                                                  *)

(* Mutation: a copy that was not submitted leaves its staging. *)
StageKept(t) ==
  /\ \/ /\ At(t, "stage")
        /\ ev' = [ev EXCEPT ![th[t].e].staging = th[t].call.name = "memcpy_pageable"]
     \/ At(t, "unstage") /\ ev' = ev
  /\ Goto(t, <<>>)
  /\ UNCHANGED <<lock, gpuVars, qs, left>>

(* memcpy_async_impl stages a copy from or to pageable memory in the event, *)
(* and takes the staging back when the copy is not submitted.               *)
Stage(t) ==
  /\ \/ /\ At(t, "stage")
        /\ ev' = [ev EXCEPT ![th[t].e].staging = th[t].call.name = "memcpy_pageable"]
     \/ /\ At(t, "unstage")
        /\ ev' = IF th[t].ok THEN ev ELSE [ev EXCEPT ![th[t].e].staging = FALSE]
  /\ Goto(t, <<>>)
  /\ UNCHANGED <<lock, gpuVars, qs, left>>

(* lr_memcpy submits to the default queue once the device is synchronised,  *)
(* and drains that queue.                                                   *)
CopyBegin(t) ==
  /\ At(t, "copy")
  /\ th' = [th EXCEPT ![t].q = DefaultQueue, ![t].need = 1, ![t].drop = FALSE,
                      ![t].k = Tail(@)]
  /\ UNCHANGED <<lock, gpuVars, qs, ev, left>>

----------------------------------------------------------------------------
(* The public calls                                                        *)

Running(t) == th[t].k # <<>>

(* g_initialized *)
Initialized ==
  /\ qs[DefaultQueue].state = "live"
  /\ \A t \in Threads : th[t].call.name # "shutdown"

Names(c) == c.deps \cup {c.e}

(* The client's side: an event is not destroyed while another thread        *)
(* records it, copies with it or names it as a dependency, and the runtime  *)
(* is not shut down in the middle of such a call.                           *)
Exclusive(t, c) ==
  \A u \in Threads \ {t} :
    LET d == th[u].call
        uses == Running(u) /\ d.name \in {"event_record", "memcpy_async",
                                           "memcpy_pageable", "launch"}
    IN  /\ c.name = "event_destroy" => ~(uses /\ c.e \in Names(d))
        /\ c.name = "shutdown" => ~(uses /\ d.e # Nil)

Copies == {"memcpy_async", "memcpy_pageable"}
Submit == <<"scratch", "capacity", "acquire", "submit">>

(* What the checks at the head of a call accept *)
Accepted(c) ==
  /\ c.name \in {"launch", "queue_synchronize"} => valid_queue(c.q)
  /\ c.name = "queue_destroy" =>
       qs[c.q].state = "live" /\ c.q # DefaultQueue /\ ~qs[c.q].destroying
  /\ c.e # Nil => Usable(c.e)
  /\ c.name = "event_synchronize" =>
       ev[c.e].pending /\ valid_queue(ev[c.e].recorded)

(* What they run *)
Body(c) ==
  CASE c.name = "launch" -> <<"collect">> \o Submit
    [] c.name = "memcpy" -> SyncDevice \o <<"copy">> \o Submit \o <<"synchronize_queue">>
    [] c.name \in Copies ->
         <<"event_wait", "consumers", "collect", "stage">> \o Submit \o <<"unstage">>
    [] c.name = "event_record" ->
         <<"event_idle", "revalidate", "event_wait", "consumers", "record", "capacity",
           "record_submit">>
    [] c.name = "event_destroy" -> <<"event_idle", "event_wait", "consumers", "event_delete">>
    [] c.name = "event_synchronize" ->
         <<"unlock", "host_wait", "relock">> \o Reap \o <<"finish_event", "unpin">>
    [] c.name = "queue_create" -> <<"queue_create">>
    [] c.name = "queue_destroy" ->
         <<"queue_idle">> \o SyncOne \o <<"queue_idle", "queue_delete">>
    [] c.name = "queue_synchronize" -> SyncOne
    [] c.name = "synchronize" -> SyncDevice
    [] c.name = "module_load" -> <<"restore">>
    [] c.name = "shutdown" ->
         <<"queues_idle", "events_idle", "synchronize_device", "release_events",
           "release_queues">>

(* Destructors mark their object; lr_event_synchronize pins event and queue. *)
Invoke(t) ==
  /\ ~Running(t) /\ left[t] # <<>> /\ lock = Nil
  /\ \E c \in Head(left[t]) :
       LET sync == c.name = "event_synchronize"
           q == IF sync THEN ev[c.e].recorded
                ELSE IF c.name \in Copies THEN DefaultQueue ELSE c.q
       IN  /\ Exclusive(t, c)
           /\ IF Initialized /\ Accepted(c)
              THEN /\ lock' = t
                   /\ th' = [th EXCEPT ![t] = [Idle EXCEPT
                        !.call = c, !.q = q, !.e = c.e, !.need = 1,
                        !.drop = c.name \notin Copies, !.since = wpos,
                        !.k = Body(c) \o <<"return">>]]
                   /\ qs' = [p \in Queues |-> [qs[p] EXCEPT
                        !.destroying = @ \/ (c.name = "queue_destroy" /\ p = q),
                        !.syncs = IF sync /\ p = q THEN @ + 1 ELSE @]]
                   /\ ev' = [e \in Events |-> [ev[e] EXCEPT
                        !.destroying = @ \/ (c.name = "event_destroy" /\ e = c.e),
                        !.syncs = IF sync /\ e = c.e THEN @ + 1 ELSE @]]
              ELSE UNCHANGED <<lock, th, qs, ev>>
  /\ left' = [left EXCEPT ![t] = Tail(@)]
  /\ UNCHANGED gpuVars

(* A destructor that failed takes its mark back. *)
Return(t) ==
  LET c == th[t].call
      kept(name) == ~th[t].ok /\ c.name = name
  IN  /\ At(t, "return")
      /\ lock' = Nil
      /\ th' = [th EXCEPT ![t] = Idle]
      /\ qs' = [q \in Queues |-> IF kept("queue_destroy") /\ q = c.q
                  THEN [qs[q] EXCEPT !.destroying = FALSE] ELSE qs[q]]
      /\ ev' = [e \in Events |-> IF kept("event_destroy") /\ e = c.e
                  THEN [ev[e] EXCEPT !.destroying = FALSE] ELSE ev[e]]
      /\ UNCHANGED <<gpuVars, left>>

Step(t) ==
  \/ Relock(t) \/ Unlock(t) \/ ReapBarriers(t) \/ ReapDispatches(t) \/ ReapEvents(t)
  \/ SynchronizeQueue(t) \/ SynchronizeDeviceLocked(t)
  \/ EnsureCapacity(t) \/ StillFull(t) \/ ReadFront(t) \/ WaitFront(t)
  \/ Retake(t) \/ Mark(t) \/ WaitMarkers(t) \/ FinishMarkers(t) \/ UnpinQueue(t)
  \/ DeviceIdle(t) \/ DeviceQueues(t) \/ DeviceMark(t) \/ DeviceUnlock(t)
  \/ EnsureScratch(t) \/ ReplaceQueue(t) \/ CreateQueue(t) \/ RestoreDefault(t)
  \/ QueueIdle(t) \/ DeleteQueue(t) \/ QueuesIdle(t) \/ ReleaseQueues(t)
  \/ CollectDependencies(t) \/ Acquire(t) \/ SubmitKernel(t) \/ SubmitFails(t)
  \/ EventIdle(t) \/ Revalidate(t) \/ WaitForEvent(t) \/ FinishEvent(t)
  \/ WaitForConsumers(t) \/ EnterSynchronize(t) \/ LeaveSynchronize(t)
  \/ ConsumersDone(t) \/ Record(t) \/ RecordSubmit(t) \/ DeleteEvent(t)
  \/ HostWait(t) \/ Unpin(t) \/ EventsIdle(t) \/ ReleaseEvents(t)
  \/ Stage(t) \/ CopyBegin(t) \/ Return(t)

Next ==
  \/ \E t \in Threads : Step(t) \/ Invoke(t)
  \/ \E q \in Queues : GpuComplete(q) \/ GpuFault(q)

Spec == Init /\ [][Next]_vars

(* Threads are scheduled and the packet processor retires what it can. *)
FairSpec ==
  /\ Spec
  /\ \A t \in Threads : WF_vars(Step(t))
  /\ \A q \in Queues : WF_vars(GpuComplete(q))

----------------------------------------------------------------------------
Pending(q) == Range(qs[q].pd)
Freed(s) == s \in Events /\ ~ev[s].live

(* The labels at which a thread works on its queue *)
OnQueue == {"reap_barriers", "reap_dispatches", "reap_events", "synchronize_queue",
            "capacity", "room", "full", "still_full", "read_front", "wait_front",
            "retake", "mark", "unpin_queue", "scratch", "replace", "acquire",
            "submit", "record_submit", "host_wait", "unpin", "queue_idle"}

(* No pointer outlives what it points to: the dispatches, barriers, pending *)
(* events and packets of a live queue name live events, a barrier is        *)
(* retired by a dispatch that is still pending, the dispatch of a packet is *)
(* not in the pool, an event was recorded on a live queue, and a thread     *)
(* waits on or walks only queues and signals that exist.                    *)
NothingDangles ==
  /\ \A q \in Queues : qs[q].state = "live" =>
       /\ \A d \in Pending(q) : d.ev # Nil => ev[d.ev].live
       /\ \A b \in qs[q].pb : /\ \E d \in Pending(q) : d.x = b.ret
                              /\ \A e \in b.deps : ev[e].live
       /\ \A e \in Range(qs[q].pe) : ev[e].live
       /\ ~fault[q] => \A p \in flight[q] :
            /\ ~Freed(p.sig) /\ \A e \in p.deps : ev[e].live
            /\ p.x # Nil => \E d \in Pending(q) : d.x = p.x
  /\ \A e \in Events : ev[e].live /\ ev[e].pending => qs[ev[e].recorded].state = "live"
  /\ \A t \in Threads :
       /\ Running(t) /\ Head(th[t].k) \in OnQueue => qs[th[t].q].state = "live"
       /\ \A q \in th[t].marked : qs[q].state = "live"
       /\ At(t, "wait_front") => th[t].sig # Nil /\ ~Freed(th[t].sig)


(* Every event that is pending is on the list of the queue it was recorded  *)
(* on, once, and on no other; only such an event holds staging memory.      *)
EventsTracked ==
  \A e \in Events : ev[e].live =>
    /\ \A q \in Queues : qs[q].state = "live" =>
         Cardinality({i \in DOMAIN qs[q].pe : qs[q].pe[i] = e})
           = IF ev[e].pending /\ ev[e].recorded = q THEN 1 ELSE 0
    /\ ev[e].staging => ev[e].pending \/ \E t \in Threads : Running(t) /\ th[t].e = e

(* Every call returns. *)
CallsReturn == \A t \in Threads : Running(t) ~> ~Running(t)
=============================================================================
