----------------------------- MODULE HsaLaunch -----------------------------
(***************************************************************************)
(* Kernel launches and queue synchronisation of the HSA backend            *)
(* (launch_impl in src/src/launch.cpp, lr_queue_synchronize and the        *)
(* enqueue_* routines in src/src/queue.cpp).                               *)
(*                                                                         *)
(*   launch                    default queue, after pending async copies   *)
(*   launch_with_dependencies  default queue, after the given events       *)
(*   launch_on_queue           explicit queue, after the given events; the *)
(*                             registry lock is only shared, and held only *)
(*                             until the pins or the queue lock protect    *)
(*                             the events                                  *)
(***************************************************************************)
EXTENDS HsaQueue

(* A call begins under the registry lock and fails at once on a bad handle. *)
Begin(t, c, valid, labels) ==
  /\ c.name # "launch_on_queue"
  /\ th[t].k = <<>> /\ left[t].count > 0 /\ reg = NoThread
  /\ left' = [left EXCEPT ![t].count = @ - 1]
  /\ IF valid
     THEN /\ reg' = t
          /\ th' = [th EXCEPT ![t] = [Idle EXCEPT !.k = labels, !.call = c, !.cq = c.q]]
     ELSE UNCHANGED <<reg, th>>

(* The error return of a call: every pin it holds is released, an unused    *)
(* signal goes back to the pool, and a destruction is called off.           *)
Abort(t) ==
  LET c == th[t].call
      launching == c.name \in {"launch", "launch_with_dependencies", "launch_on_queue"}
  IN  /\ At(t, "abort")
      /\ qs' = [q \in Queues |-> [qs[q] EXCEPT
           !.subs = IF launching /\ q = c.q THEN @ - 1 ELSE @,
           !.sync = IF q \in th[t].qpins THEN @ - 1 ELSE @,
           !.pool = IF th[t].own # NoSignal /\ q = c.q THEN Append(@, th[t].own) ELSE @,
           !.destroying = @ /\ ~(c.name = "queue_destroy" /\ q = c.q)]]
      /\ ev' = [e \in Events |-> [ev[e] EXCEPT
           !.syncs = IF e \in th[t].epins THEN @ - 1 ELSE @,
           !.lpins = IF th[t].pinned /\ e \in th[t].deps THEN @ - 1 ELSE @,
           !.destroying = @ /\ ~(c.name = "event_destroy" /\ e = c.e)]]
      /\ Return(t)
      /\ UNCHANGED <<val, ring, copies, fresh, left, recycled>>

Leave(t) ==
  /\ At(t, "return")
  /\ Return(t)
  /\ UNCHANGED <<qs, ev, val, ring, copies, fresh, left, recycled>>

(* collect_event_dependencies_locked *)
AcceptsDependencies(deps) ==
  \A e \in deps : valid_event(e) /\ ~ev[e].destroying /\ (ev[e].pending \/ ev[e].completed)
CollectDependencies(deps) == {e \in deps : ev[e].pending /\ val[e] # 0}

(* Mutation: the events are not retained. *)
ForgetfulBarriers(D, s) ==
  LET b == Batches(D) IN [i \in DOMAIN b |-> [ret |-> s, deps |-> {}]]

(* Barrier packets for the events D and the PendingBarriers that keep them  *)
(* referenced until retirement signal s is complete.                        *)
PendingBarriers(D, s) ==
  LET b == Batches(D) IN [i \in DOMAIN b |-> [ret |-> s, deps |-> b[i] \cap Events]]
BarrierPackets(D, s) ==
  LET b == Batches(D) IN [i \in DOMAIN b |-> Barrier(b[i], s)]

----------------------------------------------------------------------------
(* enqueue_event_dependencies_locked                                       *)

Eligible(t) ==
  IF th[t].call.name = "launch_with_dependencies"
  THEN {e \in th[t].deps : ev[e].pending /\ val[e] # 0}
  ELSE {e \in Events : ev[e].pending /\ ev[e].kind = "AsyncCopy" /\ val[e] # 0}

EnqueueDependencies(t) ==
  LET q == th[t].cq
      sel == {e \in Eligible(t) : ~queue_has_event_dependency(q, e)}
  IN  /\ At(t, "collect")
      /\ ev' = [e \in Events |-> [ev[e] EXCEPT !.syncs = IF e \in sel THEN @ + 1 ELSE @]]
      /\ th' = [th EXCEPT ![t].sel = sel, ![t].after = Eligible(t),
                  ![t].epins = @ \cup sel,
                  ![t].need = barrier_count(Cardinality(sel)) + 1,
                  ![t].k = Then(t, <<"capacity", "enqueue">>)]
      /\ UNCHANGED <<qs, reg, ql, val, ring, copies, fresh, left, recycled>>

SubmitDependencies(t) ==
  LET q == th[t].cq
      sel == th[t].sel
      s == IF th[t].own = NoSignal THEN th[t].call.e ELSE th[t].own
  IN  /\ At(t, "enqueue")
      /\ qs' = [qs EXCEPT ![q].pb = @ \o PendingBarriers(sel, s)]
      /\ ring' = [ring EXCEPT ![q] = @ \o BarrierPackets(sel, NoSignal)]
      /\ ev' = [e \in Events |-> [ev[e] EXCEPT !.syncs = IF e \in sel THEN @ - 1 ELSE @]]
      /\ th' = [th EXCEPT ![t].sel = {}, ![t].epins = @ \ sel, ![t].k = Tail(@)]
      /\ UNCHANGED <<reg, ql, val, copies, fresh, left, recycled>>

----------------------------------------------------------------------------
(* lr_launch and lr_launch_with_dependencies                               *)

BeginLaunch(t) ==
  \E c \in left[t].calls :
    /\ c.name \in {"launch", "launch_with_dependencies"}
    /\ Begin(t, c, valid_queue(c.q), <<"lock_queue", "launch_collect">>)
    /\ qs' = IF valid_queue(c.q) THEN [qs EXCEPT ![c.q].subs = @ + 1] ELSE qs
    /\ UNCHANGED <<ev, ql, val, ring, copies, fresh, recycled>>

LaunchCollect(t) ==
  LET c == th[t].call
      deps == IF c.name = "launch" THEN {} ELSE CollectDependencies(c.deps)
      eligible == IF c.name = "launch" THEN Eligible(t) ELSE deps
      waits == {e \in eligible : ~queue_has_event_dependency(c.q, e)}
  IN  /\ At(t, "launch_collect")
      /\ th' = IF c.name # "launch" /\ ~AcceptsDependencies(c.deps)
               THEN [th EXCEPT ![t].k = <<"abort">>]
               ELSE [th EXCEPT ![t].deps = deps, ![t].released = FALSE,
                       ![t].need = barrier_count(Cardinality(waits)) + 1,
                       ![t].k = Then(t, <<"capacity", "launch_acquire">>)]
      /\ UNCHANGED <<qs, ev, reg, ql, val, ring, copies, fresh, left, recycled>>

LaunchAcquire(t) ==
  LET q == th[t].cq
      s == acquired_signal(q)
  IN  /\ At(t, "launch_acquire")
      /\ \/ /\ th[t].released
            /\ th' = [th EXCEPT ![t].k = IF valid_queue(q) THEN <<"launch_collect">>
                                         ELSE <<"abort">>]
            /\ UNCHANGED <<qs, fresh, val>>
         \/ /\ ~th[t].released /\ qs[q].pool = <<>> /\ fresh = {}
            /\ th' = [th EXCEPT ![t].k = <<"abort">>]
            /\ UNCHANGED <<qs, fresh, val>>
         \/ /\ ~th[t].released /\ (qs[q].pool # <<>> \/ fresh # {})
            /\ qs' = [qs EXCEPT ![q].pool = PoolAfterAcquire(q)]
            /\ fresh' = FreshAfterAcquire(q)
            /\ val' = [val EXCEPT ![s] = 1]
            /\ th' = [th EXCEPT ![t].own = s, ![t].k =
                        Then(t, Reap \o <<"collect", "launch_dispatch">>)]
      /\ UNCHANGED <<ev, reg, ql, ring, copies, left, recycled>>

(* Mutation: only dependencies set the barrier bit. *)
DependencyBit(q, hasDependencies) == hasDependencies

(* submit_aql_kernel_dispatch: the packet carries the barrier bit when the  *)
(* queue has dispatches in flight or the kernel has dependencies.           *)
BarrierBit(q, hasDependencies) == qs[q].pd # <<>> \/ hasDependencies

LaunchDispatch(t) ==
  LET q == th[t].cq
      s == th[t].own
      hasDependencies == IF th[t].call.name = "launch" THEN qs[q].pb # <<>>
                         ELSE th[t].deps # {}
      after == {e \in th[t].after : val[e] # 0}
  IN  /\ At(t, "launch_dispatch")
      /\ ring' = [ring EXCEPT ![q] =
           Append(@, Dispatch(s, BarrierBit(q, hasDependencies), after))]
      /\ qs' = [qs EXCEPT ![q].pd = Append(@, s), ![q].subs = @ - 1]
      /\ Return(t)
      /\ UNCHANGED <<ev, val, copies, fresh, left, recycled>>
-----------------------------------------------------------------------------
(***************************************************************************)
(* lr_launch_on_queue, lr_launch_on_queue_with_dependencies and            *)
(* lr_queue_synchronize, and the tail marker that event reuse and queue    *)
(* destruction wait for.                                                   *)
(***************************************************************************)

(* The registry is only read.  With dependencies, an uncontended queue lock *)
(* takes over their protection; otherwise they are pinned first.            *)
BeginLaunchOnQueue(t) ==
  \E c \in left[t].calls :
    LET deps == CollectDependencies(c.deps)
        accepted == valid_queue(c.q) /\ AcceptsDependencies(c.deps)
        locks == c.deps # {} /\ ql[c.q] = NoThread
        pins == c.deps # {} /\ ~locks
    IN  /\ c.name = "launch_on_queue"
        /\ th[t].k = <<>> /\ left[t].count > 0 /\ reg = NoThread
        /\ left' = [left EXCEPT ![t].count = @ - 1]
        /\ IF accepted
           THEN /\ qs' = [qs EXCEPT ![c.q].subs = @ + 1]
                /\ ql' = IF locks THEN [ql EXCEPT ![c.q] = t] ELSE ql
                /\ ev' = [e \in Events |-> [ev[e] EXCEPT
                           !.lpins = IF pins /\ e \in deps THEN @ + 1 ELSE @]]
                /\ th' = [th EXCEPT ![t] = [Idle EXCEPT !.call = c, !.cq = c.q,
                      !.deps = deps, !.after = deps, !.pinned = pins,
                      !.k = IF locks THEN <<"local_reap">>
                            ELSE <<"lock_queue", "local_reap">>]]
           ELSE UNCHANGED <<qs, ql, ev, th>>
        /\ UNCHANGED <<reg, val, ring, copies, fresh, recycled>>

(* event_dependency_packet_count_locked, then                               *)
(* reap_completed_dispatches_locally_locked                                 *)
LocalReap(t) ==
  LET q == th[t].cq
      waits == {e \in th[t].deps :
                 ev[e].pending /\ val[e] # 0 /\ ~queue_has_event_dependency(q, e)}
  IN  /\ At(t, "local_reap")
      /\ th' = [th EXCEPT ![t].need = barrier_count(Cardinality(waits)) + 1,
           ![t].k = IF qs[q].pb = <<>> /\ qs[q].pe = <<>>
                    THEN <<"reap_dispatches", "local_capacity">>
                    ELSE <<"local_capacity">>]
      /\ UNCHANGED <<qs, ev, reg, ql, val, ring, copies, fresh, left, recycled>>

(* Backpressure: pin the events, drop the queue, take both locks in order.  *)
LocalCapacity(t) ==
  LET q == th[t].cq
      pins == th[t].call.deps # {} /\ ~th[t].pinned
  IN  /\ At(t, "local_capacity")
      /\ IF has_queue_capacity(q, th[t].need)
         THEN Goto(t, <<"local_dispatch">>) /\ UNCHANGED <<ev, ql>>
         ELSE /\ ev' = [e \in Events |-> [ev[e] EXCEPT
                          !.lpins = IF pins /\ e \in th[t].deps THEN @ + 1 ELSE @]]
              /\ ql' = [ql EXCEPT ![q] = NoThread]
              /\ th' = [th EXCEPT ![t].pinned = th[t].call.deps # {},
                   ![t].k = <<"lock_registry", "lock_queue", "local_validate">>]
      /\ UNCHANGED <<qs, reg, val, ring, copies, fresh, left, recycled>>

LocalValidate(t) ==
  /\ At(t, "local_validate")
  /\ th' = [th EXCEPT ![t].k = IF valid_queue(th[t].cq)
                               THEN <<"capacity", "local_unlock">> ELSE <<"abort">>]
  /\ UNCHANGED <<qs, ev, reg, ql, val, ring, copies, fresh, left, recycled>>

LocalUnlock(t) ==
  /\ At(t, "local_unlock")
  /\ reg' = NoThread
  /\ Goto(t, <<"local_dispatch">>)
  /\ UNCHANGED <<qs, ev, ql, val, ring, copies, fresh, left, recycled>>

(* Resources, enqueue_explicit_event_dependencies_locally_locked and the    *)
(* dispatch packet, all under the queue lock.                               *)
LocalDispatch(t) ==
  LET q == th[t].cq
      s == acquired_signal(q)
      deps == th[t].deps
      sel == {e \in deps : ~queue_has_event_dependency(q, e) /\ val[e] # 0}
      after == {e \in th[t].after : val[e] # 0}
      fits == has_queue_capacity(q, barrier_count(Cardinality(sel)) + 1)
  IN  /\ At(t, "local_dispatch")
      /\ IF (qs[q].pool = <<>> /\ fresh = {}) \/ (th[t].call.deps # {} /\ ~fits)
         THEN /\ th' = [th EXCEPT ![t].k = <<"abort">>]
              /\ UNCHANGED <<qs, ev, reg, ql, val, ring, fresh>>
         ELSE /\ fresh' = FreshAfterAcquire(q)
              /\ val' = [val EXCEPT ![s] = 1]
              /\ qs' = [qs EXCEPT ![q].pool = PoolAfterAcquire(q),
                          ![q].pb = @ \o PendingBarriers(sel, s),
                          ![q].pd = Append(@, s), ![q].subs = @ - 1]
              /\ ring' = [ring EXCEPT ![q] = @ \o BarrierPackets(sel, NoSignal)
                   \o <<Dispatch(s, BarrierBit(q, deps # {}), after)>>]
              /\ ev' = [e \in Events |-> [ev[e] EXCEPT
                   !.lpins = IF th[t].pinned /\ e \in deps THEN @ - 1 ELSE @]]
              /\ Return(t)
      /\ UNCHANGED <<copies, left, recycled>>

----------------------------------------------------------------------------
(* lr_queue_synchronize                                                    *)

BeginSynchronize(t) ==
  \E c \in left[t].calls :
    /\ c.name = "queue_synchronize"
    /\ Begin(t, c, valid_queue(c.q), <<"lock_queue">> \o Reap \o <<"synchronize">>)
    /\ UNCHANGED <<qs, ev, ql, val, ring, copies, fresh, recycled>>

(* enqueue_queue_synchronization_locked: one completion signal counts the   *)
(* barrier packets that cover every dispatch and event in flight.           *)
Synchronize(t) ==
  LET q == th[t].cq
      deps == Range(qs[q].pd) \cup {e \in Range(qs[q].pe) : ev[e].pending /\ val[e] # 0}
      n == barrier_count(Cardinality(deps))
      s == CHOOSE x \in fresh : TRUE
  IN  /\ At(t, "synchronize")
      /\ \/ /\ deps = {}
            /\ Return(t) /\ UNCHANGED <<qs, val, ring, fresh>>
         \/ /\ deps # {} /\ pending_queue_packet_count(q) + n > QueueSize
            /\ Goto(t, <<"progress">> \o Reap \o <<"synchronize">>)
            /\ UNCHANGED <<qs, reg, ql, val, ring, fresh>>
         \/ /\ deps # {} /\ pending_queue_packet_count(q) + n <= QueueSize
            /\ fresh = {}
            /\ Return(t) /\ UNCHANGED <<qs, val, ring, fresh>>
         \/ /\ deps # {} /\ pending_queue_packet_count(q) + n <= QueueSize
            /\ fresh # {}
            /\ fresh' = fresh \ {s}
            /\ val' = [val EXCEPT ![s] = n]
            /\ qs' = [qs EXCEPT ![q].pb = @ \o PendingBarriers(deps, s),
                        ![q].psync = @ \cup {[sig |-> s, deps |-> Range(qs[q].pd)]},
                        ![q].sync = @ + 1]
            /\ ring' = [ring EXCEPT ![q] = @ \o BarrierPackets(deps, s)]
            /\ ReleaseLocks(t)
            /\ th' = [th EXCEPT ![t].sig = s, ![t].k = <<"sync_wait",
                 "lock_registry", "lock_queue", "finish_sync", "return">>]
      /\ UNCHANGED <<ev, copies, left, recycled>>

(* finish_queue_synchronization_locked *)
FinishSynchronization(t) ==
  LET q == th[t].cq
  IN  /\ At(t, "finish_sync")
      /\ qs' = [qs EXCEPT ![q].psync = {y \in @ : y.sig # th[t].sig},
                          ![q].sync = @ - 1]
      /\ Goto(t, Reap \o <<"destroy_signal">>)
      /\ UNCHANGED <<ev, reg, ql, val, ring, copies, fresh, left, recycled>>

DestroySyncSignal(t) ==
  /\ At(t, "destroy_signal")
  /\ fresh' = fresh \cup {th[t].sig}
  /\ recycled' = recycled \cup References(th[t].sig)
  /\ th' = [th EXCEPT ![t].sig = NoSignal, ![t].k = Tail(@)]
  /\ UNCHANGED <<qs, ev, reg, ql, val, ring, copies, left>>

(* enqueue_queue_tail_marker_locked once the ring has room *)
TailMarker(t) ==
  LET q == th[t].cq
      s == CHOOSE x \in fresh : TRUE
  IN  /\ At(t, "tail_marker")
      /\ IF fresh = {}
         THEN /\ th' = [th EXCEPT ![t].k = <<"abort">>]
              /\ UNCHANGED <<qs, val, ring, fresh>>
         ELSE /\ fresh' = fresh \ {s}
              /\ val' = [val EXCEPT ![s] = 1]
              /\ qs' = [qs EXCEPT ![q].pb = Append(@, [ret |-> s, deps |-> {}]),
                          ![q].psync = @ \cup {[sig |-> s, deps |-> {}]},
                          ![q].sync = @ + 1]
              /\ ring' = [ring EXCEPT ![q] = Append(@, Barrier({}, s))]
              /\ th' = [th EXCEPT ![t].sig = s, ![t].k = Tail(@)]
      /\ UNCHANGED <<ev, reg, ql, copies, left, recycled>>
=============================================================================
