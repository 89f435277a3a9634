----------------------------- MODULE HsaRuntime -----------------------------
(***************************************************************************)
(* The HSA backend as a whole: threads that call the public API, and the   *)
(* GPU that executes what they submit; and what the two promise.           *)
(***************************************************************************)
EXTENDS HsaEvent
(***************************************************************************)
(* lr_queue_create and lr_queue_destroy of the HSA backend (src/src/       *)
(* queue.cpp).  Destruction stops new work, waits for the submissions and  *)
(* the synchronisers that pin the queue, then for a tail marker, and drains *)
(* what is left.                                                           *)
(***************************************************************************)

BeginDestroyQueue(t) ==
  \E c \in left[t].calls :
    /\ c.name = "queue_destroy"
    /\ Begin(t, c, valid_queue(c.q) /\ c.q # DefaultQueue,
             <<"lock_queue", "destroy_mark">>)
    /\ UNCHANGED <<qs, ev, ql, val, ring, copies, fresh, recycled>>

(* Mutation: submissions under way are not waited for. *)
DestroyAtOnce(t) ==
  /\ At(t, "destroy_mark")
  /\ qs' = [qs EXCEPT ![th[t].cq].destroying = TRUE]
  /\ Goto(t, <<"destroy_pin">>)
  /\ UNCHANGED <<ev, reg, ql, val, ring, copies, fresh, left, recycled>>

(* prepare_queue_destruction_locked *)
DestroyMark(t) ==
  LET q == th[t].cq
  IN  /\ At(t, "destroy_mark")
      /\ qs' = [qs EXCEPT ![q].destroying = TRUE]
      /\ IF qs[q].subs # 0
         THEN /\ ReleaseLocks(t)
              /\ Goto(t, <<"wait_submissions", "lock_registry", "lock_queue", "destroy_pin">>)
         ELSE Goto(t, <<"destroy_pin">>) /\ UNCHANGED <<reg, ql>>
      /\ UNCHANGED <<ev, val, ring, copies, fresh, left, recycled>>

WaitSubmissions(t) ==
  /\ At(t, "wait_submissions") /\ qs[th[t].cq].subs = 0
  /\ Goto(t, <<>>)
  /\ UNCHANGED <<qs, ev, reg, ql, val, ring, copies, fresh, left, recycled>>

DestroyPin(t) ==
  LET q == th[t].cq
  IN  /\ At(t, "destroy_pin")
      /\ qs' = [qs EXCEPT ![q].sync = @ + 1]
      /\ th' = [th EXCEPT ![t].qpins = {q}, ![t].need = 1, ![t].k = <<"destroy_alone">>]
      /\ UNCHANGED <<ev, reg, ql, val, ring, copies, fresh, left, recycled>>

(* Only the destroyer may still pin the queue: once before the tail marker  *)
(* is submitted, twice after it.                                            *)
DestructionPins(t) == IF th[t].sig = NoSignal THEN 1 ELSE 2

DestroyAlone(t) ==
  LET q == th[t].cq
  IN  /\ \/ /\ At(t, "destroy_alone") /\ qs[q].sync = DestructionPins(t)
            /\ Goto(t, IF th[t].sig = NoSignal
                       THEN <<"capacity", "tail_marker", "destroy_wait">>
                       ELSE <<"finish_sync", "destroy_unpin">>)
            /\ UNCHANGED <<reg, ql>>
         \/ /\ At(t, "destroy_alone") /\ qs[q].sync # DestructionPins(t)
            /\ ReleaseLocks(t)
            /\ Goto(t, <<"wait_alone", "lock_queue", "destroy_alone">>)
         \/ /\ At(t, "wait_alone") /\ reg = NoThread
            /\ qs[q].sync = DestructionPins(t)
            /\ reg' = t /\ ql' = ql /\ Goto(t, <<>>)
      /\ UNCHANGED <<qs, ev, val, ring, copies, fresh, left, recycled>>

DestroyWait(t) ==
  /\ At(t, "destroy_wait")
  /\ ReleaseLocks(t)
  /\ Goto(t, <<"sync_wait", "lock_registry", "lock_queue", "destroy_alone">>)
  /\ UNCHANGED <<qs, ev, val, ring, copies, fresh, left, recycled>>

DestroyUnpin(t) ==
  /\ At(t, "destroy_unpin")
  /\ qs' = [qs EXCEPT ![th[t].cq].sync = @ - 1]
  /\ th' = [th EXCEPT ![t].qpins = {}, ![t].k = <<"drain">>]
  /\ UNCHANGED <<ev, reg, ql, val, ring, copies, fresh, left, recycled>>

(* drain_queue_locked: events, then barriers, then dispatches; each waits   *)
(* for its signal with both locks held.                                     *)
Drain(t) ==
  LET q == th[t].cq
      x == qs[q]
  IN  /\ At(t, "drain")
      /\ \/ /\ x.pe # <<>>
            /\ th' = [th EXCEPT ![t].sig = Head(x.pe), ![t].ce = Head(x.pe),
                        ![t].k = <<"event_wait_locked", "finish_event", "drain">>]
            /\ UNCHANGED <<qs, val, recycled>>
         \/ /\ x.pe = <<>> /\ x.pb # <<>> /\ val[Head(x.pb).ret] < 1
            /\ qs' = [qs EXCEPT ![q].pb = Tail(@)]
            /\ UNCHANGED <<th, val, recycled>>
         \/ /\ x.pe = <<>> /\ x.pb = <<>> /\ x.pd # <<>> /\ val[Head(x.pd)] < 1
            /\ Recycle(q, Head(x.pd)) /\ th' = th
         \/ /\ x.pe = <<>> /\ x.pb = <<>> /\ x.pd = <<>>
            /\ Goto(t, <<"queue_delete">>) /\ UNCHANGED <<qs, val, recycled>>
      /\ UNCHANGED <<ev, reg, ql, ring, copies, fresh, left>>

(* release_queue_pools_locked, hsa_queue_destroy and the registries *)
QueueDelete(t) ==
  LET q == th[t].cq
      pool == Range(qs[q].pool)
  IN  /\ At(t, "queue_delete")
      /\ fresh' = fresh \cup pool
      /\ recycled' = recycled \cup UNION {References(s) : s \in pool}
      /\ qs' = [qs EXCEPT ![q].live = FALSE, ![q].pool = <<>>]
      /\ Return(t)
      /\ UNCHANGED <<ev, val, ring, copies, left>>

(* lr_queue_create; the allocator may reuse the address of a freed queue. *)
QueueCreate(t) ==
  \E c \in left[t].calls :
    /\ c.name = "queue_create" /\ ~qs[c.q].live
    /\ th[t].k = <<>> /\ left[t].count > 0 /\ reg = NoThread
    /\ left' = [left EXCEPT ![t].count = @ - 1]
    /\ qs' = [qs EXCEPT ![c.q] = NewQueue]
    /\ UNCHANGED <<ev, reg, ql, val, ring, copies, fresh, th, recycled>>
-----------------------------------------------------------------------------

Step(t) ==
  \/ LockRegistry(t) \/ LockQueue(t) \/ UnlockQueue(t)
  \/ ReapBarrier(t) \/ ReapDispatch(t) \/ ReapEvent(t)
  \/ FinishEvent(t) \/ EventFinished(t)
  \/ Progress(t) \/ WaitForSignal(t) \/ ProgressDone(t)
  \/ EnsureCapacity(t) \/ CheckQueueCapacity(t)
  \/ EnqueueDependencies(t) \/ SubmitDependencies(t)
  \/ LaunchCollect(t) \/ LaunchAcquire(t) \/ LaunchDispatch(t)
  \/ LocalReap(t) \/ LocalCapacity(t) \/ LocalValidate(t) \/ LocalUnlock(t)
  \/ LocalDispatch(t)
  \/ Synchronize(t) \/ FinishSynchronization(t) \/ DestroySyncSignal(t)
  \/ TailMarker(t)
  \/ WaitForSynchronizers(t) \/ VisitQueue(t) \/ CheckSynchronizers(t)
  \/ AwaitSynchronizers(t) \/ RevalidateEvent(t) \/ EventWaitLocked(t)
  \/ ConsumersBegin(t) \/ Consumers(t) \/ ConsumerReap(t) \/ ConsumerChoose(t)
  \/ ConsumerCopyDone(t) \/ ConsumerRelease(t) \/ ConsumerQueueDone(t)
  \/ RecordLock(t) \/ RecordPin(t) \/ RecordSubmit(t) \/ EventDelete(t)
  \/ CopyArm(t) \/ CopySubmit(t) \/ CopyFails(t) \/ EventSynchronized(t)
  \/ DestroyMark(t) \/ WaitSubmissions(t) \/ DestroyPin(t) \/ DestroyAlone(t)
  \/ DestroyWait(t) \/ DestroyUnpin(t) \/ Drain(t) \/ QueueDelete(t)
  \/ Abort(t) \/ Leave(t)

Invoke(t) ==
  \/ BeginLaunch(t) \/ BeginLaunchOnQueue(t) \/ BeginSynchronize(t)
  \/ BeginEventCall(t) \/ EventCreate(t) \/ EventSynchronize(t)
  \/ BeginDestroyQueue(t) \/ QueueCreate(t)

(* Every call has returned and the device is idle. *)
Finished ==
  /\ \A t \in Threads : th[t].k = <<>>
  /\ copies = {} /\ \A q \in Queues : ring[q] = <<>>
  /\ UNCHANGED vars

Next ==
  \/ \E t \in Threads : Step(t) \/ Invoke(t)
  \/ \E q \in Queues : GpuComplete(q)
  \/ CopyComplete
  \/ Finished

Spec == Init /\ [][Next]_vars

(* The scheduler runs every thread, the GPU retires packets and copies; no  *)
(* thread has to call anything.                                             *)
FairSpec ==
  /\ Spec
  /\ \A t \in Threads : WF_vars(Step(t))
  /\ \A q \in Queues : WF_vars(GpuComplete(q))
  /\ WF_vars(CopyComplete)

----------------------------------------------------------------------------
AllSignals == Signals \cup Events

(* The state keeps its shape, and no pin count is negative. *)
TypeOK ==
  /\ \A q \in Queues :
       /\ qs[q].pd \in Seq(Signals) /\ qs[q].pool \in Seq(Signals)
       /\ qs[q].pe \in Seq(Events) /\ qs[q].deferred \subseteq Signals
       /\ \A b \in Range(qs[q].pb) : b.ret \in AllSignals /\ b.deps \subseteq Events
       /\ qs[q].sync \in Nat /\ qs[q].subs \in Nat
       /\ \A p \in Range(ring[q]) :
            p.deps \subseteq AllSignals /\ p.sig \in AllSignals \cup {NoSignal}
  /\ \A e \in Events :
       /\ ev[e].syncs \in Nat /\ ev[e].lpins \in Nat
       /\ ev[e].rq \in Queues \cup {NoQueue} /\ ev[e].deps \subseteq Events
  /\ val \in [AllSignals -> Nat]
  /\ reg \in Threads \cup {NoThread}
  /\ ql \in [Queues -> Threads \cup {NoThread}]

(* A queue keeps its kernels completion-ordered (launch.cpp:1211): the GPU  *)
(* never may execute a dispatch while an older one of the queue is in       *)
(* flight, although only some dispatches carry the barrier bit.             *)
CompletionOrdered ==
  \A q \in Queues : \A i \in DOMAIN ring[q] :
    (ring[q][i].kind = "dispatch" /\ Executable(q, i)) =>
      \A j \in 1 .. i - 1 : ring[q][j].kind # "dispatch"

(* A kernel launched with dependencies never starts before the events it    *)
(* was given, or the copies pending at an implicit launch, are complete,    *)
(* also where the launch leaves out a barrier because an earlier one on     *)
(* the same queue already waits for the event.                              *)
DependenciesHonoured ==
  \A q \in Queues : \A i \in DOMAIN ring[q] :
    (ring[q][i].kind = "dispatch" /\ Executable(q, i)) => ring[q][i].after = {}

(* A kernel starts only after the kernels before it on its queue and after  *)
(* everything it was made to depend on, whichever packets carry the barrier *)
(* bit or the dependency signals.                                           *)
OrderHonoured == CompletionOrdered /\ DependenciesHonoured

(* No signal is armed again or destroyed while a barrier packet in a ring   *)
(* has still to observe it, while a packet has still to decrement it, or    *)
(* under a thread blocked in hsa_signal_wait, whose wake-up could be lost.  *)
SignalsIntact == recycled \cap {"barrier", "completion", "host"} = {}

(* No signal a copy in flight depends on is armed again or destroyed. *)
CopySignalsIntact == "copy" \notin recycled

(* Every packet in a ring is accounted for: dispatches, markers and the     *)
(* events a barrier packet waits for stay in the bookkeeping of the queue,  *)
(* so that capacity is never overcommitted and no event with a consumer in  *)
(* the ring is free for reuse.                                              *)
PacketsTracked ==
  \A q \in Queues : \A p \in Range(ring[q]) :
    /\ p.kind = "dispatch" => p.sig \in Range(qs[q].pd)
    /\ p.sig \in Events => p.sig \in Range(qs[q].pe)
    /\ p.sig \in Signals /\ p.kind = "barrier" =>
         \E b \in Range(qs[q].pb) : b.ret = p.sig
    /\ \A e \in p.deps \cap Events : queue_has_event_dependency(q, e)

(* The packets in flight fit the ring, and what a queue counts as pending   *)
(* never exceeds it: no submission can meet a full ring.                    *)
WithinCapacity ==
  \A q \in Queues :
    Len(ring[q]) <= pending_queue_packet_count(q) /\ pending_queue_packet_count(q) <= QueueSize

(* A dispatch signal has one owner: a pending dispatch, the deferred list,  *)
(* the pool, a launch under way, or nobody.                                 *)
SignalOwners(s) ==
  Cardinality({<<q, i>> \in Queues \X (1 .. QueueSize + Cardinality(Signals)) :
       \/ i \in DOMAIN qs[q].pd /\ qs[q].pd[i] = s})
  + Cardinality({q \in Queues : s \in qs[q].deferred})
  + Cardinality({<<q, i>> \in Queues \X (1 .. QueueSize + Cardinality(Signals)) :
       \/ i \in DOMAIN qs[q].pool /\ qs[q].pool[i] = s})
  + Cardinality({t \in Threads : th[t].own = s})
  + Cardinality(fresh \cap {s})
  + Cardinality({q \in Queues : \E y \in qs[q].psync : y.sig = s})
SignalOwnedOnce == \A s \in Signals : SignalOwners(s) <= 1

(* The lists of a queue agree with its ring and its signals: every packet   *)
(* in flight is on a list, the lists never count more packets than the ring *)
(* holds, no dispatch signal is in two places, no pin count is negative.    *)
BookkeepingSound == TypeOK /\ PacketsTracked /\ WithinCapacity /\ SignalOwnedOnce

(* A destroyed queue or event leaves nothing behind that still names it. *)
NothingDangles ==
  /\ \A q \in Queues : ~qs[q].live =>
       /\ ring[q] = <<>> /\ qs[q].pb = <<>> /\ qs[q].pd = <<>> /\ qs[q].pe = <<>>
       /\ qs[q].psync = {} /\ qs[q].deferred = {} /\ qs[q].sync = 0 /\ qs[q].subs = 0
       /\ ql[q] = NoThread
       /\ \A e \in Events : ev[e].rq # q
  /\ \A e \in Events : ~ev[e].live =>
       ev[e].syncs = 0 /\ ev[e].lpins = 0 /\ ~HasConsumers(e)
       /\ \A q \in Queues : e \notin Range(qs[q].pe)

(* "It waits only for active queue or asynchronous-copy consumers that      *)
(* still reference the signal" (docs/design.md:160): when the device goes   *)
(* on, a call that reuses or destroys an event returns.                     *)
EventReuseReturns ==
  \A t \in Threads :
    th[t].call.name \in {"event_record", "event_destroy", "memcpy_async",
                         "memcpy_async_with_dependencies"} ~> th[t].k = <<>>

(* Every call returns. *)
CallsReturn == \A t \in Threads : th[t].k # <<>> ~> th[t].k = <<>>
=============================================================================
