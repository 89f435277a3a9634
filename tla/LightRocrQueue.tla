--------------------------- MODULE LightRocrQueue ---------------------------
(***************************************************************************)
(* Queues, events and asynchronous copies of the hsakmt backend            *)
(* (LRRT_ENABLE_LIGHT_ROCR).  Every call holds g_devices_mutex throughout, *)
(* its waits for the GPU included; only lr_event_synchronize and the wait  *)
(* for an event's synchronisers release it.  A copy is a kernel on the     *)
(* default queue whose completion signal is the signal of its event.       *)
(*                                                                         *)
(*   flight  packets published to a queue and not complete; pos is the     *)
(*           packet id, the next one is wpos                               *)
(*   pd      pending_dispatches: the packet id, and the event whose signal *)
(*           the dispatch borrows, if any; oldest = smallest id            *)
(*   pb      pending_barriers; ret is retirement_dispatch, the id of the   *)
(*           dispatch that owns the signal the barrier is retired by       *)
(*   pe      pending_events of a queue                                     *)
(*   val     the signals of the events: 1 armed, 0 complete                *)
(*   ring    scratch size of the AqlQueue object, or NoRing once a failed  *)
(*           replacement has left the lr_queue_t without one               *)
(***************************************************************************)
EXTENDS Integers, FiniteSets, Sequences

CONSTANTS Threads, Queues, Events, NoThread, NoQueue, NoEvent,
          DefaultQueue,
          PacketCount,   \* AqlQueue::packet_count
          BarrierWidth,  \* dependency signals per barrier packet: 5
          Programs       \* which calls each thread may make, and how many

ASSUME QueueAssumption ==
  /\ NoThread \notin Threads /\ NoQueue \notin Queues /\ NoEvent \notin Events
  /\ DefaultQueue \in Queues /\ IsFiniteSet(Events)
  /\ PacketCount \in Nat \ {0} /\ BarrierWidth \in Nat \ {0}

(* A call of the public API: q and e are NoQueue and NoEvent where it has   *)
(* no such argument, scratch is the kernel's private segment size.          *)
CallNames == {"none", "launch", "memcpy_async", "event_record", "event_destroy",
              "event_synchronize", "queue_synchronize", "queue_destroy", "synchronize"}
Calls == [name : CallNames, q : Queues \cup {NoQueue}, e : Events \cup {NoEvent},
          deps : SUBSET Events, scratch : Nat]

(* What a thread has left: the calls it chooses from and their number. *)
Budgets == [calls : SUBSET Calls, count : Nat]

(* What the signatures of the API say of a call's arguments; the event of a *)
(* launch is none of its own, and a copy goes to the default queue.         *)
WellFormed(c) ==
  /\ c.name \in {"launch", "event_record", "queue_synchronize", "queue_destroy"} =>
       c.q \in Queues
  /\ c.name = "memcpy_async" => c.q = DefaultQueue
  /\ c.name = "launch" => c.e = NoEvent
  /\ c.name \in {"memcpy_async", "event_record", "event_destroy", "event_synchronize"} =>
       c.e \in Events

ASSUME ProgramsAssumption ==
  \A p \in Programs :
    /\ p \in [Threads -> Budgets]
    /\ \A t \in Threads : \A c \in p[t].calls : WellFormed(c)

VARIABLES lock, flight, wpos, pd, pb, pe, ring, live, val, ev, th, left

vars == <<lock, flight, wpos, pd, pb, pe, ring, live, val, ev, th, left>>
queueVars == <<flight, wpos, pd, pb, pe, ring>>

NoRing == -1

Call(name, q, e, deps, scratch) ==
  [name |-> name, q |-> q, e |-> e, deps |-> deps, scratch |-> scratch]

(* A thread runs a call as a stack k of labels, the head being the next     *)
(* step.  cq and ce are the queue and the event the running routine works   *)
(* on, seen the barriers a pass has already looked at, todo the queues a    *)
(* device synchronisation has left.  quiet is history: the call has found   *)
(* its event finished and without consumers.                                *)
Labels == {"reap_barriers", "reap_dispatches", "reap_events", "finish_event",
           "event_finished", "wait_front", "capacity", "capacity_check", "sync",
           "device", "scratch", "replace", "launch", "submit", "record",
           "record_submit", "queue_delete", "return", "synchronizers", "sleep",
           "revalidate", "event_wait", "consumers", "event_delete", "host_wait",
           "relock", "unpin"}
ThreadStates ==
  [k : Seq(Labels), call : Calls, cq : Queues \cup {NoQueue},
   ce : Events \cup {NoEvent}, deps : SUBSET Events, need : Nat,
   seen : SUBSET [ret : Nat, deps : SUBSET Events], todo : SUBSET Queues,
   quiet : BOOLEAN]

Idle == [k |-> <<>>, call |-> Call("none", NoQueue, NoEvent, {}, 0),
         cq |-> NoQueue, ce |-> NoEvent, deps |-> {}, need |-> 0, seen |-> {},
         todo |-> {}, quiet |-> FALSE]

EventStates ==
  [live : BOOLEAN, destroying : BOOLEAN, pending : BOOLEAN, completed : BOOLEAN,
   rq : Queues \cup {NoQueue}, syncs : SUBSET Threads]
NewEvent == [live |-> TRUE, destroying |-> FALSE, pending |-> FALSE,
             completed |-> FALSE, rq |-> NoQueue, syncs |-> {}]

Init ==
  /\ lock = NoThread
  /\ flight = [q \in Queues |-> {}]
  /\ wpos = [q \in Queues |-> 0]
  /\ pd = [q \in Queues |-> {}]
  /\ pb = [q \in Queues |-> {}]
  /\ pe = [q \in Queues |-> {}]
  /\ ring = [q \in Queues |-> 0]
  /\ live = [q \in Queues |-> TRUE]
  /\ val = [e \in Events |-> 1]
  /\ ev = [e \in Events |-> NewEvent]
  /\ th = [t \in Threads |-> Idle]
  /\ left \in Programs

At(t, label) == th[t].k # <<>> /\ Head(th[t].k) = label
Then(t, labels) == labels \o Tail(th[t].k)
Goto(t, labels) == th' = [th EXCEPT ![t].k = Then(t, labels)]

(* lock_guard and unique_lock release the mutex on every return. *)
Return(t) == lock' = NoThread /\ th' = [th EXCEPT ![t] = Idle]

(* An error return; lr_event_destroy takes its mark back. *)
Fail(t) ==
  LET c == th[t].call
  IN  /\ Return(t)
      /\ ev' = IF c.name = "event_destroy"
               THEN [ev EXCEPT ![c.e].destroying = FALSE] ELSE ev

Oldest(S) == {x \in S : \A y \in S : x.id <= y.id}

(* PendingDispatch::completion_value_acquire *)
completion_value(q, d) ==
  IF d.ev # NoEvent THEN val[d.ev]
  ELSE IF \E p \in flight[q] : p.pos = d.id THEN 1 ELSE 0

(* dependency_queues of an event: the retain/release pairs keep one         *)
(* reference per pending barrier that names it.                             *)
dependency_queues(e) == {q \in Queues : \E b \in pb[q] : e \in b.deps}

valid_event(e) == ev[e].live
Usable(e) == ev[e].live /\ ~ev[e].destroying

----------------------------------------------------------------------------
(* The packet processor (external): a packet with the barrier bit waits     *)
(* for all older packets, nothing starts past a barrier-AND packet, and     *)
(* that waits for its dependency signals.                                   *)
Executable(q, p) ==
  /\ p.bit => \A o \in flight[q] : p.pos <= o.pos
  /\ \A o \in flight[q] : o.pos < p.pos => o.kind # "barrier"
  /\ \A e \in p.deps : val[e] = 0

GpuComplete(q) ==
  \E p \in flight[q] :
    /\ Executable(q, p)
    /\ flight' = [flight EXCEPT ![q] = @ \ {p}]
    /\ val' = [e \in Events |-> IF e = p.ev THEN 0 ELSE val[e]]
    /\ UNCHANGED <<lock, wpos, pd, pb, pe, ring, live, ev, th, left>>

----------------------------------------------------------------------------
(* Retiring finished work                                                  *)

(* reap_completed_light_rocr_dispatches_locked *)
ReapDispatches == <<"reap_barriers", "reap_dispatches">>
Reap == ReapDispatches \o <<"reap_events">>

ReapBarriers(t) ==
  /\ At(t, "reap_barriers")
  /\ \E q \in Queues :
       /\ q = th[t].cq
       /\ \/ /\ pb[q] \subseteq th[t].seen
             /\ th' = [th EXCEPT ![t].k = Tail(@), ![t].seen = {}]
             /\ pb' = pb
          \/ \E b \in pb[q] \ th[t].seen : \E d \in pd[q] :
               /\ d.id = b.ret
               /\ IF completion_value(q, d) # 0
                  THEN th' = [th EXCEPT ![t].seen = @ \cup {b}] /\ pb' = pb
                  ELSE pb' = [pb EXCEPT ![q] = @ \ {b}] /\ th' = th
  /\ UNCHANGED <<lock, flight, wpos, pd, pe, ring, live, val, ev, left>>

(* Mutation: a dispatch goes as soon as it is complete. *)
ReapableAtOnce(q, d) == completion_value(q, d) = 0

(* A dispatch stays while a barrier is retired by it. *)
Reapable(q, d) ==
  completion_value(q, d) = 0 /\ \A b \in pb[q] : b.ret # d.id

ReapDispatch(t) ==
  LET q == th[t].cq
      ready == {d \in Oldest(pd[q]) : Reapable(q, d)}
  IN  /\ At(t, "reap_dispatches")
      /\ IF ready = {}
         THEN Goto(t, <<>>) /\ pd' = pd
         ELSE pd' = [pd EXCEPT ![q] = @ \ ready] /\ th' = th
      /\ UNCHANGED <<lock, flight, wpos, pb, pe, ring, live, val, ev, left>>

(* reap_completed_light_rocr_events_locked stops at the first event that    *)
(* is not complete.                                                         *)
ReapEvents(t) ==
  /\ At(t, "reap_events")
  /\ \E q \in Queues :
       LET ready == {x \in Oldest(pe[q]) : val[x.ev] = 0}
       IN  /\ q = th[t].cq
           /\ \/ ready = {} /\ Goto(t, <<>>)
              \/ \E x \in ready :
                   th' = [th EXCEPT ![t].ce = x.ev, ![t].k = <<"finish_event">> \o @]
  /\ UNCHANGED <<lock, queueVars, live, val, ev, left>>

(* finish_light_rocr_event_wait_locked.  active_synchronizers is kept as    *)
(* the set syncs of the waiting threads.                                    *)
FinishEvent(t) ==
  LET e == th[t].ce
  IN  /\ At(t, "finish_event")
      /\ IF ev[e].pending
         THEN \E q \in Queues :
                /\ q = ev[e].rq
                /\ th' = [th EXCEPT ![t].cq = q,
                      ![t].k = Then(t, ReapDispatches \o <<"event_finished">>)]
         ELSE Goto(t, <<>>)
      /\ UNCHANGED <<lock, queueVars, live, val, ev, left>>

EventFinished(t) ==
  LET e == th[t].ce
      q == th[t].cq
  IN  /\ At(t, "event_finished")
      /\ pe' = [pe EXCEPT ![q] = {x \in @ : x.ev # e}]
      /\ ev' = [ev EXCEPT ![e] = [@ EXCEPT !.pending = FALSE, !.completed = TRUE,
                                           !.rq = NoQueue]]
      /\ Goto(t, <<>>)
      /\ UNCHANGED <<lock, flight, wpos, pd, pb, ring, live, val, left>>

----------------------------------------------------------------------------
(* Waiting, with the lock held                                             *)

(* wait for the oldest dispatch, or else for the oldest event *)
WaitFront(t) ==
  LET q == th[t].cq
  IN  /\ At(t, "wait_front")
      /\ IF pd[q] # {} THEN \A d \in Oldest(pd[q]) : completion_value(q, d) = 0
         ELSE \A x \in Oldest(pe[q]) : val[x.ev] = 0
      /\ Goto(t, <<>>)
      /\ UNCHANGED <<lock, queueVars, live, val, ev, left>>

(* write_index - read_index <= packet_count - required_packets *)
HasRoom(q, n) == Cardinality(flight[q]) <= PacketCount - n

(* ensure_light_rocr_queue_capacity_locked *)
EnsureCapacity(t) ==
  /\ At(t, "capacity")
  /\ IF ring[th[t].cq] = NoRing \/ th[t].need > PacketCount
     THEN Fail(t)
     ELSE Goto(t, Reap \o <<"capacity_check">>) /\ UNCHANGED <<lock, ev>>
  /\ UNCHANGED <<queueVars, live, val, left>>

CheckCapacity(t) ==
  LET q == th[t].cq
  IN  /\ At(t, "capacity_check")
      /\ IF HasRoom(q, th[t].need)
         THEN Goto(t, <<>>) /\ UNCHANGED <<lock, ev>>
         ELSE IF pd[q] = {} /\ pe[q] = {}
         THEN Fail(t)
         ELSE Goto(t, <<"wait_front", "capacity">>) /\ UNCHANGED <<lock, ev>>
      /\ UNCHANGED <<queueVars, live, val, left>>

(* Mutation: finished work is not reaped after the wait. *)
SynchronizeWithoutReap(t) ==
  LET q == th[t].cq
  IN  /\ At(t, "sync")
      /\ Goto(t, IF pd[q] # {} \/ pe[q] # {} THEN <<"wait_front", "sync">> ELSE <<>>)
      /\ UNCHANGED <<lock, queueVars, live, val, ev, left>>

(* synchronize_light_rocr_queue_locked *)
SynchronizeQueue(t) ==
  LET q == th[t].cq
  IN  /\ At(t, "sync")
      /\ IF pd[q] # {} \/ pe[q] # {}
         THEN Goto(t, <<"wait_front">> \o Reap \o <<"sync">>) /\ UNCHANGED <<lock, ev>>
         ELSE IF pb[q] # {}
         THEN Fail(t)
         ELSE Goto(t, <<>>) /\ UNCHANGED <<lock, ev>>
      /\ UNCHANGED <<queueVars, live, val, left>>

(* synchronize_light_rocr_device_locked *)
SynchronizeDevice(t) ==
  /\ At(t, "device")
  /\ \/ th[t].todo = {} /\ Goto(t, <<>>)
     \/ \E q \in th[t].todo :
          th' = [th EXCEPT ![t].todo = @ \ {q}, ![t].cq = q,
                           ![t].k = <<"sync">> \o @]
  /\ UNCHANGED <<lock, queueVars, live, val, ev, left>>

----------------------------------------------------------------------------
(* Submission                                                              *)

(* collect_light_rocr_event_dependencies_locked *)
Accepts(deps) == \A e \in deps : Usable(e) /\ (ev[e].pending \/ ev[e].completed)
Collect(deps) == {e \in deps : ev[e].pending /\ val[e] # 0}

barrier_count(D) == (Cardinality(D) + BarrierWidth - 1) \div BarrierWidth
(* A way to split D into barrier packets. *)
Batching(D, b) ==
  /\ DOMAIN b = D
  /\ \A i \in 1 .. barrier_count(D) :
       Cardinality({e \in D : b[e] = i}) \in 1 .. BarrierWidth
Batchings(D) == {b \in [D -> 1 .. barrier_count(D)] : Batching(D, b)}

(* Mutation: the queue is replaced without being drained. *)
EnsureScratchUndrained(t) ==
  LET q == th[t].cq
  IN  /\ At(t, "scratch")
      /\ Goto(t, IF th[t].call.scratch <= ring[q] THEN <<>> ELSE <<"replace">>)
      /\ UNCHANGED <<lock, queueVars, live, val, ev, left>>

(* ensure_light_rocr_queue_scratch_locked: more scratch takes a new queue   *)
(* object, created once the old one has drained.                            *)
EnsureScratch(t) ==
  LET q == th[t].cq
  IN  /\ At(t, "scratch")
      /\ \/ ring[q] = NoRing /\ Fail(t)
         \/ /\ ring[q] # NoRing
            /\ Goto(t, IF th[t].call.scratch <= ring[q] THEN <<>>
                       ELSE <<"sync", "replace">>)
            /\ UNCHANGED <<lock, ev>>
      /\ UNCHANGED <<queueVars, live, val, left>>

ReplaceQueue(t) ==
  LET q == th[t].cq
  IN  /\ At(t, "replace")
      /\ \/ /\ ring' = [ring EXCEPT ![q] = th[t].call.scratch]
            /\ Goto(t, <<>>) /\ UNCHANGED <<lock, ev>>
         \/ /\ \/ ring' = ring                                \* restored
               \/ ring' = [ring EXCEPT ![q] = NoRing]
            /\ Fail(t)
      /\ UNCHANGED <<flight, wpos, pd, pb, pe, live, val, left>>

(* submit_light_rocr_kernel_locked once there is room: barriers, dispatch,  *)
(* and for a copy its event.                                                *)
SubmitKernel(t) ==
  LET q == th[t].cq
      e == th[t].call.e
      D == th[t].deps
      n == barrier_count(D)
      id == wpos[q] + n + 1
      bit == pd[q] # {} \/ n # 0
  IN  /\ At(t, "submit")
      /\ \E b \in Batchings(D) :
           LET batch(i) == {x \in D : b[x] = i}
           IN  /\ pb' = [pb EXCEPT ![q] = @ \cup
                           {[ret |-> id, deps |-> batch(i)] : i \in 1 .. n}]
               /\ flight' = [flight EXCEPT ![q] = @ \cup
                    {[pos |-> wpos[q] + i, kind |-> "barrier", ret |-> id,
                      deps |-> batch(i), ev |-> NoEvent, bit |-> TRUE] : i \in 1 .. n}
                    \cup {[pos |-> id, kind |-> "dispatch", ret |-> id, deps |-> {},
                           ev |-> e, bit |-> bit]}]
      /\ wpos' = [wpos EXCEPT ![q] = id]
      /\ pd' = [pd EXCEPT ![q] = @ \cup {[id |-> id, ev |-> e]}]
      /\ IF e = NoEvent
         THEN UNCHANGED <<val, ev, pe>>
         ELSE /\ val' = [val EXCEPT ![e] = 1]
              /\ ev' = [ev EXCEPT ![e] = [@ EXCEPT !.pending = TRUE,
                                            !.completed = FALSE, !.rq = q]]
              /\ pe' = [pe EXCEPT ![q] = @ \cup {[id |-> id, ev |-> e]}]
      /\ Return(t)
      /\ UNCHANGED <<ring, live, left>>

(* event_record_impl: a barrier packet that completes the event *)
RecordSubmit(t) ==
  LET q == th[t].cq
      e == th[t].call.e
      id == wpos[q] + 1
  IN  /\ At(t, "record_submit")
      /\ wpos' = [wpos EXCEPT ![q] = id]
      /\ flight' = [flight EXCEPT ![q] = @ \cup
           {[pos |-> id, kind |-> "barrier", ret |-> id, deps |-> {}, ev |-> e,
             bit |-> TRUE]}]
      /\ val' = [val EXCEPT ![e] = 1]
      /\ ev' = [ev EXCEPT ![e] = [@ EXCEPT !.pending = TRUE, !.completed = FALSE,
                                           !.rq = q]]
      /\ pe' = [pe EXCEPT ![q] = @ \cup {[id |-> id, ev |-> e]}]
      /\ Return(t)
      /\ UNCHANGED <<pd, pb, ring, live, left>>

(* An allocation fails, or the packets are refused and the bookkeeping is   *)
(* undone, the signal of the event being set to 0.                          *)
SubmitFails(t) ==
  LET e == th[t].call.e
  IN  /\ At(t, "submit") \/ At(t, "record_submit")
      /\ val' \in {val, [x \in Events |-> IF x = e THEN 0 ELSE val[x]]}
      /\ Return(t)
      /\ UNCHANGED <<queueVars, live, ev, left>>

----------------------------------------------------------------------------
(* Calls                                                                   *)

Begin(t, c, queues, labels) ==
  /\ th[t].k = <<>> /\ left[t].count > 0 /\ lock = NoThread
  /\ left' = [left EXCEPT ![t].count = @ - 1]
  /\ lock' = t
  /\ th' = [th EXCEPT ![t] = [Idle EXCEPT !.k = labels, !.call = c, !.cq = c.q,
                                            !.todo = queues]]

Launch(t) ==
  \E c \in left[t].calls :
    /\ c.name = "launch" /\ live[c.q] /\ Accepts(c.deps)
    /\ Begin(t, c, {}, <<"launch">>)
    /\ UNCHANGED <<queueVars, live, val, ev>>

(* Dependencies are collected under the lock, also for a copy whose event   *)
(* is already quiescent.                                                    *)
CollectDependencies(t) ==
  LET c == th[t].call
      D == Collect(c.deps)
  IN  /\ At(t, "launch")
      /\ IF Accepts(c.deps) /\ c.e \notin c.deps
         THEN /\ th' = [th EXCEPT ![t].cq = c.q, ![t].deps = D,
                          ![t].need = barrier_count(D) + 1,
                          ![t].k = <<"scratch", "capacity", "submit">>]
              /\ lock' = lock
         ELSE Return(t)
      /\ UNCHANGED <<queueVars, live, val, ev, left>>

QueueCall(t) ==
  \E c \in left[t].calls :
    /\ c.name \in {"queue_synchronize", "queue_destroy"} /\ live[c.q]
    /\ c.name = "queue_destroy" => c.q # DefaultQueue
    /\ Begin(t, c, {}, <<"sync", IF c.name = "queue_destroy" THEN "queue_delete"
                                ELSE "return">>)
    /\ UNCHANGED <<queueVars, live, val, ev>>

DeviceCall(t) ==
  \E c \in left[t].calls :
    /\ c.name = "synchronize"
    /\ Begin(t, c, {q \in Queues : live[q]}, <<"device", "return">>)
    /\ UNCHANGED <<queueVars, live, val, ev>>

QueueDelete(t) ==
  /\ At(t, "queue_delete")
  /\ live' = [live EXCEPT ![th[t].cq] = FALSE]
  /\ Return(t)
  /\ UNCHANGED <<queueVars, val, ev, left>>

Leave(t) ==
  /\ At(t, "return")
  /\ Return(t)
  /\ UNCHANGED <<queueVars, live, val, ev, left>>

(* lr_event_record, lr_event_destroy and lr_memcpy_async first make the     *)
(* event quiescent.                                                         *)
EventCall(t) ==
  \E c \in left[t].calls :
    /\ c.name \in {"event_record", "event_destroy", "memcpy_async"} /\ Usable(c.e)
    /\ Begin(t, c, {}, <<"synchronizers", "revalidate", "event_wait", "consumers",
         CASE c.name = "event_record" -> "record"
           [] c.name = "event_destroy" -> "event_delete"
           [] OTHER -> "launch">>)
    /\ ev' = [ev EXCEPT ![c.e].destroying = c.name = "event_destroy"]
    /\ UNCHANGED <<queueVars, live, val>>

(* wait_for_light_rocr_event_synchronizers_locked *)
WaitForSynchronizers(t) ==
  LET e == th[t].call.e
      quiet == ~valid_event(e) \/ ev[e].syncs = {}
  IN  /\ \/ /\ At(t, "synchronizers")
            /\ IF quiet THEN Goto(t, <<>>) /\ lock' = lock
               ELSE Goto(t, <<"sleep">>) /\ lock' = NoThread
         \/ At(t, "sleep") /\ lock = NoThread /\ quiet /\ lock' = t /\ Goto(t, <<>>)
      /\ UNCHANGED <<queueVars, live, val, ev, left>>

Revalidate(t) ==
  LET c == th[t].call
  IN  /\ At(t, "revalidate")
      /\ IF Usable(c.e) \/ c.name = "event_destroy"
         THEN Goto(t, <<>>) /\ lock' = lock
         ELSE Return(t)
      /\ UNCHANGED <<queueVars, live, val, ev, left>>

(* wait_for_light_rocr_event_locked *)
WaitForEvent(t) ==
  LET e == th[t].call.e
  IN  /\ At(t, "event_wait")
      /\ ev[e].pending => val[e] = 0
      /\ th' = [th EXCEPT ![t].ce = e,
                  ![t].k = Then(t, IF ev[e].pending THEN <<"finish_event">> ELSE <<>>)]
      /\ UNCHANGED <<lock, queueVars, live, val, ev, left>>

(* Mutation: consumers are ignored. *)
IgnoreConsumers(t) ==
  /\ At(t, "consumers")
  /\ th' = [th EXCEPT ![t].k = Tail(@), ![t].quiet = TRUE]
  /\ UNCHANGED <<lock, queueVars, live, val, ev, left>>

(* wait_for_light_rocr_event_consumers_locked *)
WaitForConsumers(t) ==
  LET Q == dependency_queues(th[t].call.e)
  IN  /\ At(t, "consumers")
      /\ \/ /\ Q = {}
            /\ th' = [th EXCEPT ![t].k = Tail(@), ![t].quiet = TRUE]
            /\ UNCHANGED <<lock, ev>>
         \/ \E q \in Q :
              IF live[q]
              THEN /\ th' = [th EXCEPT ![t].cq = q,
                               ![t].k = Then(t, <<"sync", "consumers">>)]
                   /\ UNCHANGED <<lock, ev>>
              ELSE Fail(t)
      /\ UNCHANGED <<queueVars, live, val, left>>

Record(t) ==
  LET c == th[t].call
  IN  /\ At(t, "record")
      /\ IF live[c.q]
         THEN /\ th' = [th EXCEPT ![t].cq = c.q, ![t].need = 1,
                                  ![t].k = <<"capacity", "record_submit">>]
              /\ lock' = lock
         ELSE Return(t)
      /\ UNCHANGED <<queueVars, live, val, ev, left>>

EventDelete(t) ==
  /\ At(t, "event_delete")
  /\ ev' = [ev EXCEPT ![th[t].call.e].live = FALSE]
  /\ Return(t)
  /\ UNCHANGED <<queueVars, live, val, left>>

(* lr_event_synchronize waits without the lock. *)
EventSynchronize(t) ==
  \E c \in left[t].calls :
    /\ c.name = "event_synchronize" /\ Usable(c.e) /\ ev[c.e].pending
    /\ th[t].k = <<>> /\ left[t].count > 0 /\ lock = NoThread
    /\ left' = [left EXCEPT ![t].count = @ - 1]
    /\ ev' = [ev EXCEPT ![c.e].syncs = @ \cup {t}]
    /\ th' = [th EXCEPT ![t] = [Idle EXCEPT !.call = c, !.ce = c.e,
                 !.k = <<"host_wait", "finish_event", "unpin">>]]
    /\ UNCHANGED <<lock, queueVars, live, val>>

HostWait(t) ==
  /\ \/ /\ At(t, "host_wait") /\ val[th[t].ce] = 0
        /\ Goto(t, <<"relock">>) /\ lock' = lock
     \/ /\ At(t, "relock") /\ lock = NoThread
        /\ Goto(t, <<>>) /\ lock' = t
  /\ UNCHANGED <<queueVars, live, val, ev, left>>

Unpin(t) ==
  /\ At(t, "unpin")
  /\ ev' = [ev EXCEPT ![th[t].call.e].syncs = @ \ {t}]
  /\ Return(t)
  /\ UNCHANGED <<queueVars, live, val, left>>

Step(t) ==
  \/ ReapBarriers(t) \/ ReapDispatch(t) \/ ReapEvents(t)
  \/ FinishEvent(t) \/ EventFinished(t)
  \/ WaitFront(t) \/ EnsureCapacity(t) \/ CheckCapacity(t) \/ SynchronizeQueue(t)
  \/ SynchronizeDevice(t) \/ EnsureScratch(t) \/ ReplaceQueue(t)
  \/ CollectDependencies(t) \/ SubmitKernel(t) \/ RecordSubmit(t) \/ SubmitFails(t)
  \/ QueueDelete(t) \/ Leave(t)
  \/ WaitForSynchronizers(t) \/ Revalidate(t) \/ WaitForEvent(t)
  \/ WaitForConsumers(t) \/ Record(t) \/ EventDelete(t)
  \/ HostWait(t) \/ Unpin(t)

Invoke(t) == Launch(t) \/ QueueCall(t) \/ DeviceCall(t) \/ EventCall(t) \/ EventSynchronize(t)

(* Every call has returned and the device is idle. *)
Finished ==
  /\ \A t \in Threads : th[t].k = <<>>
  /\ \A q \in Queues : flight[q] = {}
  /\ UNCHANGED vars

Next ==
  \/ \E t \in Threads : Step(t) \/ Invoke(t)
  \/ \E q \in Queues : GpuComplete(q)
  \/ Finished

Spec == Init /\ [][Next]_vars

(* The scheduler runs every thread and the packet processor retires what it *)
(* can; no thread has to call anything.                                     *)
FairSpec ==
  /\ Spec
  /\ \A t \in Threads : WF_vars(Step(t))
  /\ \A q \in Queues : WF_vars(GpuComplete(q))

----------------------------------------------------------------------------
Packets == [pos : Nat, kind : {"barrier", "dispatch"}, ret : Nat,
            deps : SUBSET Events, ev : Events \cup {NoEvent}, bit : BOOLEAN]

(* Type invariant *)
TypeOK ==
  /\ lock \in Threads \cup {NoThread}
  /\ flight \in [Queues -> SUBSET Packets]
  /\ wpos \in [Queues -> Nat]
  /\ pd \in [Queues -> SUBSET [id : Nat, ev : Events \cup {NoEvent}]]
  /\ pb \in [Queues -> SUBSET [ret : Nat, deps : SUBSET Events]]
  /\ pe \in [Queues -> SUBSET [id : Nat, ev : Events \cup {NoEvent}]]
  /\ ring \in [Queues -> Int]
  /\ live \in [Queues -> BOOLEAN]
  /\ val \in [Events -> {0, 1}]
  /\ ev \in [Events -> EventStates]
  /\ th \in [Threads -> ThreadStates]
  /\ left \in [Threads -> Budgets]

(* A pending barrier's retirement_dispatch points at a dispatch that is     *)
(* still pending: reaping never frees a dispatch a barrier is retired by.   *)
NoDanglingRetirement ==
  \A q \in Queues : \A b \in pb[q] : \E d \in pd[q] : d.id = b.ret

(* Everything in flight is on a list of its queue: kernels and their        *)
(* barriers have their PendingDispatch and PendingBarrier, and the packet   *)
(* that completes an event has its entry in pending_events.  So a queue     *)
(* whose lists are empty is idle.                                           *)
PacketsTracked ==
  \A q \in Queues : \A p \in flight[q] :
    /\ p.kind = "dispatch" => \E d \in pd[q] : d.id = p.pos
    /\ p.deps # {} => \E b \in pb[q] : b.ret = p.ret /\ b.deps = p.deps
    /\ p.ev # NoEvent => \E x \in pe[q] : x.id = p.pos /\ x.ev = p.ev

(* lr_queue_destroy and the replacement of a queue for more scratch free    *)
(* the AQL ring only once the packet processor has finished with it.        *)
RingFreedIdle ==
  \A t \in Threads :
    At(t, "replace") \/ At(t, "queue_delete") => flight[th[t].cq] = {}

(* lr_synchronize and lr_queue_synchronize return with the queue they drained *)
(* idle; the lock keeps it so until they return.                            *)
SynchronizedIdle ==
  \A t \in Threads : At(t, "return") =>
    \A q \in Queues :
      live[q] /\ (th[t].call.name = "synchronize" \/ q = th[t].cq) => flight[q] = {}

(* The threads in lr_event_synchronize's wait for e *)
HostWaiters(e) ==
  {t \in Threads : th[t].ce = e /\ (At(t, "host_wait") \/ At(t, "relock"))}

(* The signal of an event is re-armed, or freed with its event, only when   *)
(* no packet completes it or waits for it and no thread waits for it.       *)
SignalReuse(e) ==
  (val[e] = 0 /\ val'[e] = 1) \/ (ev[e].live /\ ~ev'[e].live) =>
    /\ \A q \in Queues : \A p \in flight[q] : p.ev # e /\ e \notin p.deps
    /\ HostWaiters(e) = {}
SignalReuseSafe == [][\A e \in Events : SignalReuse(e)]_vars

(* ensure_light_rocr_queue_capacity_locked keeps a queue from ever holding  *)
(* more packets than its ring has slots.                                    *)
WithinCapacity == \A q \in Queues : Cardinality(flight[q]) <= PacketCount

(* The lists of a queue account for its ring: everything in flight is on a  *)
(* list, never more than the ring has slots, and nothing is in flight when  *)
(* the ring is freed or when a synchronisation of the queue or the device   *)
(* returns.                                                                 *)
RingAccounted ==
  TypeOK /\ PacketsTracked /\ WithinCapacity /\ RingFreedIdle /\ SynchronizedIdle

(* Every call returns. *)
CallsReturn == \A t \in Threads : th[t].k # <<>> ~> th[t].k = <<>>
=============================================================================
