--------------------------- MODULE DirectKfdQueue ---------------------------
(***************************************************************************)
(* State of the direct KFD backend (LRRT_ENABLE_LIGHT_ROCR_KFD): one       *)
(* device, its queues and events, and the threads inside the public API.   *)
(* Unlike the hsakmt backend, a call that waits for the GPU gives          *)
(* g_devices_mutex up: lr_queue_synchronize, lr_synchronize and            *)
(* lr_queue_destroy wait for a marker barrier of their own, a launch waits *)
(* for room with the queue marked capacity_waiting.                        *)
(*                                                                         *)
(*   flight  packets published to a queue and not complete                 *)
(*   val     the signals: of dispatches, of events, of a thread's markers  *)
(*   qs      lr_queue_t: pd pending_dispatches from pending_dispatch_head, *)
(*           pb pending_barriers, pool available_dispatches, pe            *)
(*           pending_events; ring is the scratch size of its AqlQueue, or  *)
(*           NoRing; state says whether the handle exists                  *)
(*   ev      lr_event_t; deps counts dependency_queues                     *)
(*   left    what each thread still has to call: one of each set in turn   *)
(***************************************************************************)
EXTENDS Integers, FiniteSets, Sequences, SequencesExt

CONSTANTS Threads, Events, Dispatches, Nil,
          QueueCount,    \* lr_queue_t handles ever created, the default first
          PacketCount,   \* AqlQueue::packet_count
          BarrierWidth,  \* dependency signals per barrier packet: 5
          Faults,        \* which external operations may fail
          Programs       \* what the threads call

Queues == 1 .. QueueCount
DefaultQueue == 1

VARIABLES lock, flight, wpos, val, fault, qs, ev, th, left

vars == <<lock, flight, wpos, val, fault, qs, ev, th, left>>
gpuVars == <<flight, wpos, val, fault>>

NoRing == -1

Call(name, q, e, deps, scratch) ==
  [name |-> name, q |-> q, e |-> e, deps |-> deps, scratch |-> scratch]

(* A thread runs a call as a stack k of labels, the head being the next     *)
(* step.  q and e are the queue and the event the running routine works on, *)
(* need and drop the arguments of the capacity check, sig the signal a      *)
(* capacity waiter has read, todo and marked the queues a device            *)
(* synchronisation has to mark and has marked, ok the status.  since is     *)
(* history: the packets that had been published when the call began.        *)
Idle == [k |-> <<>>, call |-> Call("none", Nil, Nil, {}, 0), q |-> Nil, e |-> Nil,
         deps |-> {}, need |-> 0, drop |-> FALSE, sig |-> Nil, todo |-> {},
         marked |-> {}, ok |-> TRUE, since |-> [q \in Queues |-> 0]]

NewQueue == [state |-> "none", destroying |-> FALSE, capacity_waiting |-> FALSE,
             syncs |-> 0, ring |-> NoRing, pd |-> <<>>, pb |-> {}, pool |-> <<>>,
             pe |-> <<>>]
OpenQueue == [NewQueue EXCEPT !.state = "live", !.ring = 0]

NewEvent == [live |-> TRUE, destroying |-> FALSE, pending |-> FALSE,
             completed |-> FALSE, recorded |-> Nil, syncs |-> 0,
             deps |-> [q \in Queues |-> 0], staging |-> FALSE]

Marker(t, q) == <<t, q>>
Signals == Dispatches \cup Events \cup (Threads \X Queues)

Init ==
  /\ lock = Nil
  /\ flight = [q \in Queues |-> {}]
  /\ wpos = [q \in Queues |-> 0]
  /\ val = [s \in Signals |-> 0]
  /\ fault = [q \in Queues |-> FALSE]
  /\ qs = [q \in Queues |-> IF q = DefaultQueue THEN OpenQueue ELSE NewQueue]
  /\ ev = [e \in Events |-> NewEvent]
  /\ th = [t \in Threads |-> Idle]
  /\ left \in Programs

----------------------------------------------------------------------------
(* The running thread *)

At(t, label) == th[t].k # <<>> /\ Head(th[t].k) = label
Then(t, labels) == labels \o Tail(th[t].k)
Goto(t, labels) == th' = [th EXCEPT ![t].k = Then(t, labels)]

(* An error return unwinds to the next routine that handles one. *)
Handlers == {"device_unlock", "leave_synchronize", "unpin", "unstage", "return"}
Unwound(k) == LET i == SelectInSeq(k, LAMBDA l : l \in Handlers)
              IN  SubSeq(k, i, Len(k))
Fail(t) == th' = [th EXCEPT ![t].ok = FALSE, ![t].k = Unwound(@)]

(* condition_variable_any::wait: the lock is given up while P is false. *)
Await(t, label, P) ==
  /\ At(t, label)
  /\ IF lock = t
     THEN IF P THEN Goto(t, <<>>) /\ lock' = lock
          ELSE lock' = Nil /\ th' = th
     ELSE lock = Nil /\ P /\ lock' = t /\ Goto(t, <<>>)

Relock(t) ==
  /\ At(t, "relock") /\ lock = Nil
  /\ lock' = t
  /\ Goto(t, <<>>)
  /\ UNCHANGED <<gpuVars, qs, ev, left>>

Unlock(t) ==
  /\ At(t, "unlock")
  /\ lock' = Nil
  /\ Goto(t, <<>>)
  /\ UNCHANGED <<gpuVars, qs, ev, left>>

----------------------------------------------------------------------------
(* The packet processor (external).  A packet with the barrier bit waits    *)
(* for all older packets, nothing starts past a barrier-AND packet, and     *)
(* that waits for its dependency signals.  A queue that faulted stops.      *)
Executable(q, p) ==
  /\ ~fault[q]
  /\ p.bit => \A o \in flight[q] : p.pos <= o.pos
  /\ \A o \in flight[q] : o.pos < p.pos => o.kind # "barrier"
  /\ \A e \in p.deps : val[e] = 0

GpuComplete(q) ==
  \E p \in flight[q] :
    /\ Executable(q, p)
    /\ flight' = [flight EXCEPT ![q] = @ \ {p}]
    /\ val' = [s \in Signals |-> IF s = p.sig THEN 0 ELSE val[s]]
    /\ UNCHANGED <<lock, wpos, fault, qs, ev, th, left>>

(* error_reason becomes non-zero. *)
GpuFault(q) ==
  /\ "device" \in Faults /\ flight[q] # {} /\ ~fault[q]
  /\ fault' = [fault EXCEPT ![q] = TRUE]
  /\ UNCHANGED <<lock, flight, wpos, val, qs, ev, th, left>>

Packet(pos, kind, x, sig, deps, bit) ==
  [pos |-> pos, kind |-> kind, x |-> x, sig |-> sig, deps |-> deps, bit |-> bit]

-----------------------------------------------------------------------------
(* Retiring, waiting, backpressure and the life of a queue: the direct KFD  *)
(* part of queue.cpp.                                                       *)

(* PendingDispatch::active_completion_signal *)
active_completion_signal(d) == IF d.ev # Nil THEN d.ev ELSE d.x

(* valid_direct_kfd_queue_locked *)
valid_queue(q) == qs[q].state = "live" /\ ~qs[q].capacity_waiting /\ ~qs[q].destroying

----------------------------------------------------------------------------
(* Retirement                                                              *)

(* reap_completed_direct_kfd_barriers_locked with                           *)
(* release_direct_kfd_event_dependency_locked                               *)
ReapBarriers(t) ==
  LET q == th[t].q
      value(b) == LET i == CHOOSE i \in DOMAIN qs[q].pd : qs[q].pd[i].x = b.ret
                  IN  val[active_completion_signal(qs[q].pd[i])]
      done == {b \in qs[q].pb : value(b) = 0}
  IN  /\ At(t, "reap_barriers")
      /\ qs' = [qs EXCEPT ![q].pb = @ \ done]
      /\ ev' = [e \in Events |-> [ev[e] EXCEPT
                  !.deps[q] = @ - Cardinality({b \in done : e \in b.deps})]]
      /\ Goto(t, <<>>)
      /\ UNCHANGED <<lock, gpuVars, left>>

Retirable(q, d) == val[active_completion_signal(d)] = 0

(* Mutation: a dispatch is recycled although a barrier is retired by it. *)
RetiredRegardless(q) ==
  LET pd == qs[q].pd
  IN  CHOOSE n \in 0 .. Len(pd) :
        /\ \A i \in 1 .. n : Retirable(q, pd[i])
        /\ n < Len(pd) => ~Retirable(q, pd[n + 1])

(* How many dispatches from the head are complete and retire no barrier. *)
Retired(q) ==
  LET pd == qs[q].pd
      free(d) == Retirable(q, d) /\ \A b \in qs[q].pb : b.ret # d.x
  IN  CHOOSE n \in 0 .. Len(pd) :
        (\A i \in 1 .. n : free(pd[i])) /\ (n < Len(pd) => ~free(pd[n + 1]))

(* reap_direct_kfd_dispatches_locked, after the barriers *)
ReapDispatches(t) ==
  LET q == th[t].q
      n == Retired(q)
  IN  /\ At(t, "reap_dispatches")
      /\ qs' = [qs EXCEPT ![q].pd = SubSeq(@, n + 1, Len(@)),
                  ![q].pool = @ \o [i \in 1 .. n |-> qs[q].pd[i].x]]
      /\ Goto(t, <<>>)
      /\ UNCHANGED <<lock, gpuVars, ev, left>>

Reap == <<"reap_barriers", "reap_dispatches">>

(* remove_direct_kfd_pending_event: the last takes the place of the removed *)
SwapRemove(s, x) ==
  LET i == SelectInSeq(s, LAMBDA y : y = x)
  IN  IF i = 0 THEN s ELSE [j \in 1 .. Len(s) - 1 |-> IF j = i THEN Last(s) ELSE s[j]]

(* finish_direct_kfd_event_wait_locked on a pending event: it leaves its    *)
(* queue, and a copy to pageable memory is completed and its staging freed. *)
Finish(Q, E, e) ==
  /\ qs' = [q \in Queues |->
              IF q = E[e].recorded THEN [Q[q] EXCEPT !.pe = SwapRemove(@, e)] ELSE Q[q]]
  /\ ev' = [E EXCEPT ![e].recorded = Nil, ![e].pending = FALSE,
                     ![e].completed = TRUE, ![e].staging = FALSE]

(* reap_completed_direct_kfd_events_locked *)
ReapEvents(t) ==
  LET q == th[t].q
      e == Head(qs[q].pe)
  IN  /\ At(t, "reap_events")
      /\ IF qs[q].pe = <<>> \/ val[e] # 0
         THEN Goto(t, <<>>) /\ UNCHANGED <<qs, ev>>
         ELSE Finish(qs, ev, e) /\ th' = th
      /\ UNCHANGED <<lock, gpuVars, left>>

----------------------------------------------------------------------------
(* Waiting with the lock held                                              *)

(* The signal the head of the queue's work completes, Nil if it has none    *)
HeadSignal(q) == IF qs[q].pd # <<>> THEN active_completion_signal(Head(qs[q].pd))
            ELSE IF qs[q].pe # <<>> THEN Head(qs[q].pe) ELSE Nil

(* wait_for_direct_kfd_signal_locked comes back *)
Waited(q, s) == val[s] = 0 \/ fault[q]

(* synchronize_direct_kfd_queue_locked *)
SynchronizeQueue(t) ==
  LET q == th[t].q
  IN  /\ At(t, "synchronize_queue")
      /\ IF HeadSignal(q) = Nil /\ qs[q].pb = {} THEN Goto(t, <<>>)
         ELSE /\ Waited(q, HeadSignal(q))
              /\ IF fault[q] THEN Fail(t)
                 ELSE Goto(t, Reap \o <<"reap_events", "synchronize_queue">>)
      /\ UNCHANGED <<lock, gpuVars, qs, ev, left>>

----------------------------------------------------------------------------
(* Backpressure: ensure_direct_kfd_queue_capacity_locked                   *)

HasRoom(q, n) == Cardinality(flight[q]) <= PacketCount - n

(* The loop: dispatches are reaped when the pool is empty, then everything  *)
(* when the ring is full.                                                   *)
Fits(t, otherwise) == IF HasRoom(th[t].q, th[t].need) THEN <<>> ELSE otherwise
Full == Reap \o <<"reap_events", "still_full">>
Loop(t) ==
  LET q == th[t].q
  IN  Goto(t, IF qs[q].pool = <<>> /\ qs[q].pd # <<>> THEN Reap \o <<"full">>
              ELSE Fits(t, Full))

EnsureCapacity(t) ==
  LET q == th[t].q
  IN  /\ \/ /\ At(t, "capacity")
            /\ IF qs[q].ring = NoRing \/ th[t].need > PacketCount \/ fault[q] THEN Fail(t)
               ELSE Loop(t)
         \/ At(t, "room") /\ Loop(t)
         \/ At(t, "full") /\ Goto(t, Fits(t, Full))
      /\ UNCHANGED <<lock, gpuVars, qs, ev, left>>

(* With a lock to give up, the queue is marked and the lock released; the   *)
(* lists are read only then.                                                *)
StillFull(t) ==
  LET q == th[t].q
  IN  /\ At(t, "still_full")
      /\ IF HasRoom(q, th[t].need) THEN Goto(t, <<>>) /\ UNCHANGED <<lock, qs>>
         ELSE IF HeadSignal(q) = Nil THEN Fail(t) /\ UNCHANGED <<lock, qs>>
         ELSE IF th[t].drop
         THEN /\ qs' = [qs EXCEPT ![q].syncs = @ + 1, ![q].capacity_waiting = TRUE]
              /\ lock' = Nil
              /\ Goto(t, <<"read_front", "wait_front", "retake">>)
         ELSE /\ Goto(t, <<"read_front", "wait_front">>)
              /\ UNCHANGED <<lock, qs>>
      /\ UNCHANGED <<gpuVars, ev, left>>

ReadFront(t) ==
  /\ At(t, "read_front")
  /\ th' = [th EXCEPT ![t].sig = HeadSignal(th[t].q), ![t].k = Tail(@)]
  /\ UNCHANGED <<lock, gpuVars, qs, ev, left>>

(* After the wait the loop goes round, or the fault is reported. *)
WaitFront(t) ==
  LET q == th[t].q
  IN  /\ At(t, "wait_front")
      /\ th[t].sig # Nil /\ Waited(q, th[t].sig)
      /\ IF th[t].drop THEN th' = [th EXCEPT ![t].k = Tail(@), ![t].ok = ~fault[q]]
         ELSE IF fault[q] THEN Fail(t) ELSE Goto(t, <<"room">>)
      /\ UNCHANGED <<lock, gpuVars, qs, ev, left>>

Retake(t) ==
  LET q == th[t].q
  IN  /\ At(t, "retake") /\ lock = Nil
      /\ lock' = t
      /\ qs' = [qs EXCEPT ![q].syncs = @ - 1, ![q].capacity_waiting = FALSE]
      /\ IF qs[q].destroying \/ ~th[t].ok THEN Fail(t) ELSE Goto(t, <<"room">>)
      /\ UNCHANGED <<gpuVars, ev, left>>

----------------------------------------------------------------------------
(* Waiting for a marker barrier without the lock                           *)

(* The rest of prepare_direct_kfd_queue_synchronization_locked once there   *)
(* is room                                                                  *)
Mark(t) ==
  LET q == th[t].q
      id == wpos[q] + 1
  IN  /\ At(t, "mark")
      /\ \/ /\ flight' = [flight EXCEPT ![q] = @ \cup
                 {Packet(id, "barrier", Nil, Marker(t, q), {}, TRUE)}]
            /\ wpos' = [wpos EXCEPT ![q] = id]
            /\ val' = [val EXCEPT ![Marker(t, q)] = 1]
            /\ qs' = [qs EXCEPT ![q].syncs = @ + 1]
            /\ th' = [th EXCEPT ![t].k = Tail(@), ![t].marked = @ \cup {q}]
            /\ UNCHANGED fault
         \/ /\ "signal" \in Faults
            /\ Fail(t)
            /\ UNCHANGED <<gpuVars, qs>>
      /\ UNCHANGED <<lock, ev, left>>


(* wait_for_direct_kfd_queue_synchronization for every marked queue *)
WaitMarkers(t) ==
  /\ At(t, "wait_markers")
  /\ \A q \in th[t].marked : Waited(q, Marker(t, q))
  /\ Goto(t, <<>>)
  /\ UNCHANGED <<lock, gpuVars, qs, ev, left>>

(* finish_direct_kfd_queue_synchronization_locked: reaps unless the wait    *)
(* failed, then lets the queue go.                                          *)
FinishMarkers(t) ==
  LET q == CHOOSE q \in th[t].marked : \A o \in th[t].marked : q <= o
  IN  /\ At(t, "finish_markers")
      /\ IF th[t].marked = {}
         THEN IF th[t].ok THEN Goto(t, <<>>) ELSE Fail(t)
         ELSE th' = [th EXCEPT ![t].q = q,
                ![t].ok = @ /\ ~fault[q],
                ![t].k = (IF fault[q] THEN <<>> ELSE Reap \o <<"reap_events">>)
                          \o <<"unpin_queue">> \o @]
      /\ UNCHANGED <<lock, gpuVars, qs, ev, left>>

(* Mutation: the queue stays pinned. *)
UnpinQueueNot(t) ==
  /\ At(t, "unpin_queue")
  /\ th' = [th EXCEPT ![t].marked = @ \ {th[t].q}, ![t].k = Tail(@)]
  /\ UNCHANGED <<lock, gpuVars, qs, ev, left>>

UnpinQueue(t) ==
  LET q == th[t].q
  IN  /\ At(t, "unpin_queue")
      /\ qs' = [qs EXCEPT ![q].syncs = @ - 1]
      /\ th' = [th EXCEPT ![t].marked = @ \ {q}, ![t].k = Tail(@)]
      /\ UNCHANGED <<lock, gpuVars, ev, left>>

(* synchronize_direct_kfd_device: once no queue has a capacity waiter or is *)
(* being destroyed every queue is marked, in the order of device->queues.   *)
DeviceIdle(t) ==
  /\ Await(t, "device_idle", \A q \in Queues : qs[q].state = "live" => valid_queue(q))
  /\ UNCHANGED <<gpuVars, qs, ev, left>>

DeviceQueues(t) ==
  /\ At(t, "device_queues")
  /\ th' = [th EXCEPT ![t].todo = {q \in Queues : qs[q].state = "live"},
                      ![t].need = 1, ![t].drop = TRUE, ![t].k = Tail(@)]
  /\ UNCHANGED <<lock, gpuVars, qs, ev, left>>

DeviceMark(t) ==
  LET q == CHOOSE q \in th[t].todo : \A o \in th[t].todo : q <= o
  IN  /\ At(t, "device_mark")
      /\ IF th[t].todo = {} THEN Goto(t, <<>>)
         ELSE th' = [th EXCEPT ![t].todo = @ \ {q}, ![t].q = q,
                               ![t].k = <<"capacity", "mark">> \o @]
      /\ UNCHANGED <<lock, gpuVars, qs, ev, left>>

DeviceUnlock(t) ==
  /\ At(t, "device_unlock")
  /\ lock' = Nil
  /\ Goto(t, <<>>)
  /\ UNCHANGED <<gpuVars, qs, ev, left>>

SyncMarked == <<"wait_markers", "relock", "finish_markers">>
SyncDevice == <<"device_idle", "device_queues", "device_mark", "device_unlock">> \o SyncMarked
SyncOne == <<"capacity", "mark", "unlock">> \o SyncMarked

(* synchronize_direct_kfd_device_locked *)
SynchronizeDeviceLocked(t) ==
  LET live == {q \in Queues : qs[q].state = "live"} \ th[t].todo
      q == CHOOSE q \in live : \A o \in live : q <= o
  IN  /\ At(t, "synchronize_device")
      /\ IF live = {} THEN th' = [th EXCEPT ![t].todo = {}, ![t].k = Tail(@)]
         ELSE th' = [th EXCEPT ![t].todo = @ \cup {q}, ![t].q = q,
                               ![t].k = <<"synchronize_queue">> \o @]
      /\ UNCHANGED <<lock, gpuVars, qs, ev, left>>

----------------------------------------------------------------------------
(* The life of a queue                                                     *)

(* ensure_direct_kfd_queue_scratch_locked *)
EnsureScratch(t) ==
  LET q == th[t].q
  IN  /\ At(t, "scratch")
      /\ IF qs[q].ring = NoRing THEN Fail(t)
         ELSE Goto(t, IF th[t].call.scratch <= qs[q].ring THEN <<>>
                      ELSE <<"synchronize_queue", "replace">>)
      /\ UNCHANGED <<lock, gpuVars, qs, ev, left>>

(* The AqlQueue is released, with whatever its ring still holds, and one    *)
(* with more scratch takes its place; if that fails, one like the old one.  *)
ReplaceQueue(t) ==
  LET q == th[t].q
  IN  /\ At(t, "replace")
      /\ \/ qs' = [qs EXCEPT ![q].ring = th[t].call.scratch] /\ Goto(t, <<>>)
         \/ /\ "replace" \in Faults
            /\ qs' \in {qs, [qs EXCEPT ![q].ring = NoRing]}
            /\ Fail(t)
      /\ flight' = [flight EXCEPT ![q] = {}]
      /\ fault' = [fault EXCEPT ![q] = FALSE]
      /\ UNCHANGED <<lock, wpos, val, ev, left>>

(* create_direct_kfd_queue *)
CreateQueue(t) ==
  /\ At(t, "queue_create")
  /\ \/ \E q \in Queues :
          /\ qs[q].state = "none" /\ \A o \in Queues : o < q => qs[o].state # "none"
          /\ qs' = [qs EXCEPT ![q] = OpenQueue]
          /\ Goto(t, <<>>)
     \/ /\ "queue" \in Faults \/ \A q \in Queues : qs[q].state # "none"
        /\ Fail(t) /\ UNCHANGED qs
  /\ UNCHANGED <<lock, gpuVars, ev, left>>

(* restore_direct_kfd_default_queue_locked: a default queue that has lost   *)
(* its AqlQueue is replaced.                                                *)
RestoreDefault(t) ==
  LET q == DefaultQueue
  IN  /\ At(t, "restore")
      /\ \/ /\ qs[q].state = "live" => qs[q].ring # NoRing
            /\ Goto(t, <<>>) /\ UNCHANGED qs
         \/ /\ qs[q].state = "live" /\ qs[q].ring = NoRing
            /\ \/ qs' = [qs EXCEPT ![q] = OpenQueue] /\ Goto(t, <<>>)
               \/ /\ "queue" \in Faults /\ Fail(t)
                  /\ qs' = [qs EXCEPT ![q] = [NewQueue EXCEPT !.state = "freed"]]
      /\ UNCHANGED <<lock, gpuVars, ev, left>>

(* lr_queue_destroy waits for the users of the queue before its marker and  *)
(* again after it.                                                          *)
QueueIdle(t) ==
  /\ Await(t, "queue_idle", qs[th[t].q].syncs = 0)
  /\ UNCHANGED <<gpuVars, qs, ev, left>>

(* Releases dispatch pool, kernarg arenas and AqlQueue, then the handle. *)
DeleteQueue(t) ==
  LET q == th[t].q
  IN  /\ At(t, "queue_delete")
      /\ \/ /\ qs' = [qs EXCEPT ![q] = [@ EXCEPT !.state = "freed", !.ring = NoRing]]
            /\ flight' = [flight EXCEPT ![q] = {}]
            /\ Goto(t, <<>>)
         \/ /\ "release" \in Faults
            /\ Fail(t)
            /\ UNCHANGED <<flight, qs>>
      /\ UNCHANGED <<lock, wpos, val, fault, ev, left>>

(* wait_for_all_direct_kfd_queue_operations_locked *)
QueuesIdle(t) ==
  /\ Await(t, "queues_idle",
       \A q \in Queues : qs[q].state = "live" => valid_queue(q) /\ qs[q].syncs = 0)
  /\ UNCHANGED <<gpuVars, qs, ev, left>>

(* release_direct_kfd_queues_locked: a queue that fails is kept. *)
ReleaseQueues(t) ==
  LET live == {q \in Queues : qs[q].state = "live"} \ th[t].todo
      q == CHOOSE q \in live : \A o \in live : q <= o
      gone == [qs EXCEPT ![q] = [@ EXCEPT !.state = "freed", !.ring = NoRing]]
  IN  /\ At(t, "release_queues")
      /\ IF live = {} THEN Goto(t, <<>>) /\ UNCHANGED <<flight, qs>>
         ELSE \/ /\ qs' = gone
                 /\ flight' = [flight EXCEPT ![q] = {}] /\ th' = th
              \/ /\ "release" \in Faults
                 /\ th' = [th EXCEPT ![t].todo = @ \cup {q}, ![t].ok = FALSE]
                 /\ UNCHANGED <<flight, qs>>
      /\ UNCHANGED <<lock, wpos, val, fault, ev, left>>
=============================================================================
