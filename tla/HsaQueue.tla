------------------------------ MODULE HsaQueue ------------------------------
(***************************************************************************)
(* State of the HSA backend of lrrt and the GPU under it.                  *)
(*                                                                         *)
(*   qs   QueueState (src/src/runtime_internal.hpp): the bookkeeping of    *)
(*        packets in flight, the signal pool, and the pins on the queue    *)
(*   ev   lr_event_t                                                       *)
(*   reg  g_devices_mutex, held exclusively; a shared holder never stays   *)
(*        inside across two steps of this model                            *)
(*   ql   QueueState::mutex of each queue                                  *)
(*   val  values of the HSA signals: n > 0 armed, 0 complete               *)
(*   ring packets published to a queue and not complete, oldest first      *)
(*                                                                         *)
(* A PendingDispatch is identified by its completion signal; its kernarg   *)
(* buffer is acquired, deferred and recycled together with the signal.     *)
(* An event is identified with the signal it owns.  The GPU (packet        *)
(* processors and copy engines) is external.                               *)
(***************************************************************************)
EXTENDS Integers, FiniteSets, SequencesExt

CONSTANTS Threads, Queues, Events,
          Signals,       \* handles that hsa_signal_create can return
          NoThread, NoQueue, NoEvent, NoSignal,
          DefaultQueue,  \* DeviceState::default_queue
          QueueSize,     \* hsa_queue_t::size
          BarrierWidth,  \* dependency signals per barrier packet: 5
          Programs       \* a program: which calls each thread may make, and how many

ASSUME HsaAssumption ==
  /\ {NoThread} \cap Threads = {} /\ {NoQueue} \cap Queues = {}
  /\ {NoEvent} \cap Events = {} /\ NoSignal \notin Signals \cup Events
  /\ Signals \cap Events = {}
  /\ DefaultQueue \in Queues
  /\ QueueSize \in Nat \ {0} /\ BarrierWidth \in Nat \ {0}

VARIABLES qs, ev, reg, ql, val, ring, copies, fresh, th, left, recycled

vars == <<qs, ev, reg, ql, val, ring, copies, fresh, th, left, recycled>>

(* A call of the public API; unused arguments are NoQueue, NoEvent and {}. *)
Call(name, q, e, deps) == [name |-> name, q |-> q, e |-> e, deps |-> deps]
NoCall == Call("none", NoQueue, NoEvent, {})

(* A thread runs a call as a stack k of labels: the head is the next step,  *)
(* a routine ends by popping its label.                                     *)
(*   cq, ce   queue and event the running routine works on                  *)
(*   deps     event_dependencies;  sel the ones a barrier will wait for;    *)
(*            after (history) every event the dispatch has to come after    *)
(*   own      signal acquired for a dispatch;  sig signal waited for        *)
(*   i, j     loop indices;  todo queues a loop has still to visit          *)
(*   pinned, epins, qpins  pins the call releases when it fails             *)
Idle == [k |-> <<>>, call |-> NoCall, cq |-> NoQueue, ce |-> NoEvent,
         deps |-> {}, sel |-> {}, after |-> {}, need |-> 0,
         own |-> NoSignal, sig |-> NoSignal, i |-> 1, j |-> 1, todo |-> {},
         pinned |-> FALSE, released |-> FALSE, epins |-> {}, qpins |-> {}]

(* pd pending_dispatches, pb pending_barriers, pe pending_events, psync     *)
(* pending_synchronizations, sync active_synchronizers, subs                *)
(* active_submissions                                                       *)
NewQueue == [live |-> TRUE, destroying |-> FALSE, pd |-> <<>>, pb |-> <<>>,
             pe |-> <<>>, psync |-> {}, pool |-> <<>>, deferred |-> {},
             sync |-> 0, subs |-> 0]

(* rq recorded_queue, deps dependencies, syncs active_synchronizers, lpins  *)
(* active_launch_dependencies                                               *)
NewEvent == [live |-> TRUE, destroying |-> FALSE, pending |-> FALSE,
             completed |-> FALSE, kind |-> "None", rq |-> NoQueue, deps |-> {},
             syncs |-> 0, lpins |-> 0]

Init ==
  /\ qs = [q \in Queues |-> NewQueue]
  /\ ev = [e \in Events |-> NewEvent]
  /\ reg = NoThread
  /\ ql = [q \in Queues |-> NoThread]
  /\ val = [s \in Signals \cup Events |-> 1]
  /\ ring = [q \in Queues |-> <<>>]
  /\ copies = {}
  /\ fresh = Signals
  /\ th = [t \in Threads |-> Idle]
  /\ left \in Programs
  /\ recycled = {}

At(t, label) == th[t].k # <<>> /\ Head(th[t].k) = label
(* The stack of t with its head replaced by the given labels. *)
Then(t, labels) == labels \o Tail(th[t].k)
Goto(t, labels) == th' = [th EXCEPT ![t].k = Then(t, labels)]

SwapRemove(s, i) ==
  IF i = Len(s) THEN Front(s) ELSE Front([s EXCEPT ![i] = Last(s)])
SwapRemoveValue(s, x) ==
  IF x \in Range(s) THEN SwapRemove(s, CHOOSE i \in DOMAIN s : s[i] = x) ELSE s

----------------------------------------------------------------------------
(* Bookkeeping of a queue                                                  *)

(* lr_event_t::dependency_queues and dependency_count: the retain/release   *)
(* pairs keep one reference per PendingBarrier and per pending copy that    *)
(* names the event.                                                         *)
queue_has_event_dependency(q, e) == \E b \in Range(qs[q].pb) : e \in b.deps
(* Mutation: no queue is recorded as a consumer. *)
NoDependencyQueues(e) == {}

event_dependency_queues(e) == {q \in Queues : queue_has_event_dependency(q, e)}
DependentCopies(e) == {d \in Events : ev[d].pending /\ e \in ev[d].deps}
HasConsumers(e) == event_dependency_queues(e) # {} \/ DependentCopies(e) # {}

pending_queue_packet_count(q) ==
  Len(qs[q].pd) + Len(qs[q].pb) + Len(qs[q].pe)

has_queue_capacity(q, n) ==
  n # 0 /\ n <= QueueSize /\ pending_queue_packet_count(q) + n <= QueueSize

barrier_count(n) == (n + BarrierWidth - 1) \div BarrierWidth
(* The signals S split into groups of BarrierWidth. *)
Batches(S) ==
  LET s == SetToSeq(S)
  IN  [b \in 1 .. barrier_count(Cardinality(S)) |->
        {s[i] : i \in {i \in DOMAIN s : (i - 1) \div BarrierWidth = b - 1}}]

(* valid_queue_locked and valid_event_locked *)
valid_queue(q) == qs[q].live /\ ~qs[q].destroying
valid_event(e) == ev[e].live

acquired_signal(q) ==
  IF qs[q].pool # <<>> THEN Last(qs[q].pool) ELSE CHOOSE s \in fresh : TRUE

PoolAfterAcquire(q) == IF qs[q].pool # <<>> THEN Front(qs[q].pool) ELSE <<>>
FreshAfterAcquire(q) ==
  IF qs[q].pool # <<>> THEN fresh ELSE fresh \ {acquired_signal(q)}

(* A host thread blocked in hsa_signal_wait_scacquire. *)
SignalWaits == {"progress_wait", "sync_wait", "event_wait", "event_wait_locked",
                "consumer_wait"}
WaitsOn(t, s) == th[t].k # <<>> /\ Head(th[t].k) \in SignalWaits /\ th[t].sig = s
(* QueueState::progress_wait_signals: entered when the wait releases the    *)
(* locks, left when it has both again.                                      *)
ProgressWaiter(t, q, s) ==
  /\ \E l \in Range(th[t].k) : l = "progress_done"
  /\ th[t].cq = q /\ th[t].sig = s

(* Who still refers to signal s when the host re-arms or destroys it. *)
References(s) ==
  {kind \in {"barrier", "completion", "copy", "host"} :
    \/ kind = "barrier" /\ \E q \in Queues : \E p \in Range(ring[q]) : s \in p.deps
    \/ kind = "completion" /\ \E q \in Queues : \E p \in Range(ring[q]) : s = p.sig
    \/ kind = "copy" /\ \E c \in copies : s \in c.deps
    \/ kind = "host" /\ \E t \in Threads : WaitsOn(t, s)}

----------------------------------------------------------------------------
(* The GPU (external)                                                      *)

(* Packets of one queue start in order.  A packet with the barrier bit      *)
(* waits for every older packet; nothing starts past a barrier-AND packet,  *)
(* which waits for its dependency signals.                                  *)
Executable(q, i) ==
  LET p == ring[q][i]
  IN  /\ p.bit => i = 1
      /\ \A j \in 1 .. i - 1 : ring[q][j].kind # "barrier"
      /\ \A s \in p.deps : val[s] = 0

(* Signal s counts down; at 0 the event is complete and the dispatches      *)
(* that had to come after it may run.                                       *)
Notify(r, s) ==
  IF s \in Events
  THEN [q \in Queues |-> [i \in DOMAIN r[q] |->
         [r[q][i] EXCEPT !.after = @ \ {s}]]]
  ELSE r

GpuComplete(q) ==
  \E i \in DOMAIN ring[q] :
    LET p == ring[q][i]
    IN  /\ Executable(q, i)
        /\ ring' = Notify([ring EXCEPT ![q] = RemoveAt(@, i)], p.sig)
        /\ val' = IF p.sig = NoSignal THEN val ELSE [val EXCEPT ![p.sig] = @ - 1]
        /\ UNCHANGED <<qs, ev, reg, ql, copies, fresh, th, left, recycled>>

CopyComplete ==
  \E c \in copies :
    /\ \A s \in c.deps : val[s] = 0
    /\ copies' = copies \ {c}
    /\ val' = [val EXCEPT ![c.e] = @ - 1]
    /\ ring' = Notify(ring, c.e)
    /\ UNCHANGED <<qs, ev, reg, ql, fresh, th, left, recycled>>

Dispatch(s, bit, after) ==
  [kind |-> "dispatch", deps |-> {}, sig |-> s, bit |-> bit, after |-> after]
Barrier(deps, s) ==
  [kind |-> "barrier", deps |-> deps, sig |-> s, bit |-> TRUE, after |-> {}]

----------------------------------------------------------------------------
(* Locks                                                                   *)

LockRegistry(t) ==
  /\ At(t, "lock_registry")
  /\ reg = NoThread
  /\ reg' = t
  /\ Goto(t, <<>>)
  /\ UNCHANGED <<qs, ev, ql, val, ring, copies, fresh, left, recycled>>

LockQueue(t) ==
  /\ At(t, "lock_queue")
  /\ ql[th[t].cq] = NoThread
  /\ ql' = [ql EXCEPT ![th[t].cq] = t]
  /\ Goto(t, <<>>)
  /\ UNCHANGED <<qs, ev, reg, val, ring, copies, fresh, left, recycled>>

(* The locks t holds when it leaves a call or starts a wait. *)
ReleaseLocks(t) ==
  /\ reg' = IF reg = t THEN NoThread ELSE reg
  /\ ql' = [q \in Queues |-> IF ql[q] = t THEN NoThread ELSE ql[q]]

(* A call returns: its locals die and its RAII locks are released. *)
Return(t) == ReleaseLocks(t) /\ th' = [th EXCEPT ![t] = Idle]

-----------------------------------------------------------------------------
(***************************************************************************)
(* The routines of src/src/queue.cpp that every HSA call is built from:    *)
(* retiring finished work, waiting for ring capacity, and submitting       *)
(* dependency barriers, synchronisations and tail markers.  They run with  *)
(* the registry lock and the lock of queue cq held (event retirement takes *)
(* the queue lock itself).  Each signal load is a step of its own, since   *)
(* the GPU completes packets between two loads.                            *)
(***************************************************************************)

(* Mutation: dispatches are not reaped. *)
ReapNoDispatches == <<"reap_barriers", "reap_events">>

(* reap_completed_queue_work_locked *)
Reap == <<"reap_barriers", "reap_dispatches", "reap_events">>

ReapBarrier(t) ==
  LET q == th[t].cq
      j == th[t].j
      pb == qs[q].pb
  IN  /\ At(t, "reap_barriers")
      /\ \/ /\ j > Len(pb)
            /\ th' = [th EXCEPT ![t].k = Tail(@), ![t].j = 1]
            /\ qs' = qs
         \/ /\ j <= Len(pb) /\ val[pb[j].ret] # 0
            /\ th' = [th EXCEPT ![t].j = @ + 1]
            /\ qs' = qs
         \/ /\ j <= Len(pb) /\ val[pb[j].ret] = 0
            /\ qs' = [qs EXCEPT ![q].pb = SwapRemove(@, j)]
            /\ th' = th
      /\ UNCHANGED <<ev, reg, ql, val, ring, copies, fresh, left, recycled>>

(* A synchronisation whose barriers have not all completed reads the        *)
(* dispatch signals it depends on.                                          *)
SynchronizationConsumer(q, s) ==
  \E y \in qs[q].psync : val[y.sig] # 0 /\ s \in y.deps

(* The dispatch signal s goes back to the pool of q, armed again, unless a  *)
(* progress waiter still waits for it.                                      *)
Recycle(q, s) ==
  IF \E t \in Threads : ProgressWaiter(t, q, s)
  THEN /\ qs' = [qs EXCEPT ![q].pd = Tail(@), ![q].deferred = @ \cup {s}]
       /\ UNCHANGED <<val, recycled>>
  ELSE /\ qs' = [qs EXCEPT ![q].pd = Tail(@), ![q].pool = Append(@, s)]
       /\ val' = [val EXCEPT ![s] = 1]
       /\ recycled' = recycled \cup References(s)

ReapDispatch(t) ==
  LET q == th[t].cq
      pd == qs[q].pd
      stop == pd = <<>> \/ val[Head(pd)] # 0 \/ SynchronizationConsumer(q, Head(pd))
  IN  /\ At(t, "reap_dispatches")
      /\ IF stop
         THEN Goto(t, <<>>) /\ UNCHANGED <<qs, val, recycled>>
         ELSE Recycle(q, Head(pd)) /\ th' = th
      /\ UNCHANGED <<ev, reg, ql, ring, copies, fresh, left>>

ReapEvent(t) ==
  LET i == th[t].i
      pe == qs[th[t].cq].pe
  IN  /\ At(t, "reap_events")
      /\ \/ i > Len(pe) /\ th' = [th EXCEPT ![t].k = Tail(@), ![t].i = 1]
         \/ /\ i <= Len(pe) /\ val[pe[i]] # 0
            /\ th' = [th EXCEPT ![t].i = @ + 1]
         \/ /\ i <= Len(pe) /\ val[pe[i]] = 0
            /\ th' = [th EXCEPT ![t].k = <<"finish_event">> \o @, ![t].ce = pe[i]]
      /\ UNCHANGED <<qs, ev, reg, ql, val, ring, copies, fresh, left, recycled>>

----------------------------------------------------------------------------
(* finish_event_wait_locked for event ce                                   *)

FinishedEvent(x) ==
  [x EXCEPT !.pending = FALSE, !.completed = TRUE, !.kind = "None",
            !.rq = NoQueue, !.deps = {}]

FinishEvent(t) ==
  LET e == th[t].ce
      q == ev[e].rq
  IN  /\ At(t, "finish_event")
      /\ \/ /\ ~ev[e].pending
            /\ Goto(t, <<>>) /\ UNCHANGED <<ev, ql>>
         \/ /\ ev[e].pending /\ q = NoQueue
            /\ ev' = [ev EXCEPT ![e] = FinishedEvent(@)]
            /\ Goto(t, <<>>) /\ ql' = ql
         \/ /\ ev[e].pending /\ q # NoQueue /\ ql[q] \in {t, NoThread}
            /\ ql' = [ql EXCEPT ![q] = t]
            /\ th' = [th EXCEPT ![t].cq = q,
                 ![t].k = Then(t, <<"reap_barriers", IF ql[q] = t
                            THEN "event_finished" ELSE "event_finished_unlock">>)]
            /\ ev' = ev
      /\ UNCHANGED <<qs, reg, val, ring, copies, fresh, left, recycled>>

EventFinished(t) ==
  LET e == th[t].ce
      q == th[t].cq
  IN  /\ At(t, "event_finished") \/ At(t, "event_finished_unlock")
      /\ qs' = [qs EXCEPT ![q].pe = SwapRemoveValue(@, e)]
      /\ ev' = [ev EXCEPT ![e] = FinishedEvent(@)]
      /\ ql' = IF At(t, "event_finished") THEN ql ELSE [ql EXCEPT ![q] = NoThread]
      /\ Goto(t, <<>>)
      /\ UNCHANGED <<reg, val, ring, copies, fresh, left, recycled>>

----------------------------------------------------------------------------
(* wait_for_queue_progress_locked and ensure_queue_capacity_locked         *)

Progress(t) ==
  LET q == th[t].cq
      s == IF qs[q].pd # <<>> THEN Head(qs[q].pd) ELSE Head(qs[q].pe)
  IN  /\ At(t, "progress")
      /\ IF qs[q].pd = <<>> /\ qs[q].pe = <<>>
         THEN /\ th' = [th EXCEPT ![t].k = <<"abort">>]
              /\ UNCHANGED <<qs, ev, reg, ql>>
         ELSE /\ th' = [th EXCEPT ![t].sig = s, ![t].k = Then(t,
                   <<"progress_wait", "lock_registry", "lock_queue", "progress_done">>)]
              /\ qs' = [qs EXCEPT ![q].sync = @ + 1]
              /\ ev' = IF s \in Events THEN [ev EXCEPT ![s].syncs = @ + 1] ELSE ev
              /\ ReleaseLocks(t)
      /\ UNCHANGED <<val, ring, copies, fresh, left, recycled>>

(* hsa_signal_wait_scacquire(sig, LT, 1) without locks *)
WaitForSignal(t) ==
  /\ \E l \in {"progress_wait", "sync_wait", "event_wait", "consumer_wait"} : At(t, l)
  /\ val[th[t].sig] < 1
  /\ Goto(t, <<>>)
  /\ UNCHANGED <<qs, ev, reg, ql, val, ring, copies, fresh, left, recycled>>

ProgressDone(t) ==
  LET q == th[t].cq
      s == th[t].sig
      last == \A u \in Threads \ {t} : ~ProgressWaiter(u, q, s)
      rearm == last /\ s \in qs[q].deferred
  IN  /\ At(t, "progress_done")
      /\ qs' = [qs EXCEPT ![q].sync = @ - 1,
                  ![q].deferred = IF rearm THEN @ \ {s} ELSE @,
                  ![q].pool = IF rearm THEN Append(@, s) ELSE @]
      /\ val' = IF rearm THEN [val EXCEPT ![s] = 1] ELSE val
      /\ recycled' = IF rearm THEN recycled \cup References(s) ELSE recycled
      /\ ev' = IF s \in Events THEN [ev EXCEPT ![s].syncs = @ - 1] ELSE ev
      /\ th' = [th EXCEPT ![t].sig = NoSignal, ![t].k =
           IF qs[q].destroying /\ th[t].call.name # "queue_destroy"
           THEN <<"abort">> ELSE Then(t, Reap)]
      /\ UNCHANGED <<reg, ql, ring, copies, fresh, left>>

EnsureCapacity(t) ==
  /\ At(t, "capacity")
  /\ th' = [th EXCEPT ![t].k = IF th[t].need > QueueSize THEN <<"abort">>
                               ELSE Then(t, Reap \o <<"capacity_check">>)]
  /\ UNCHANGED <<qs, ev, reg, ql, val, ring, copies, fresh, left, recycled>>

CheckQueueCapacity(t) ==
  /\ At(t, "capacity_check")
  /\ IF has_queue_capacity(th[t].cq, th[t].need)
     THEN Goto(t, <<>>)
     ELSE th' = [th EXCEPT ![t].released = TRUE,
                           ![t].k = Then(t, <<"progress", "capacity">>)]
  /\ UNCHANGED <<qs, ev, reg, ql, val, ring, copies, fresh, left, recycled>>
=============================================================================
