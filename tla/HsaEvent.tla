------------------------------ MODULE HsaEvent ------------------------------
(***************************************************************************)
(* Events and asynchronous copies of the HSA backend: src/src/event.cpp    *)
(* and memcpy_async_impl in src/src/memory.cpp.  An event signal may be    *)
(* armed again only when no host thread waits for it and no packet or copy *)
(* in flight still depends on it.                                          *)
(***************************************************************************)
EXTENDS HsaLaunch

(* Record, destroy and copy first wait for the threads and the device work  *)
(* that still use the event.                                                *)
Quiesce == <<"synchronizers", "event_revalidate", "event_wait_begin",
             "consumers_begin">>

BeginEventCall(t) ==
  \E c \in left[t].calls :
    LET valid == valid_event(c.e) /\ ~ev[c.e].destroying
    IN  /\ c.name \in {"event_record", "event_destroy", "memcpy_async",
                       "memcpy_async_with_dependencies"}
        /\ Begin(t, c, valid, Quiesce \o
             CASE c.name = "event_record" -> <<"record_lock">>
               [] c.name = "event_destroy" -> <<"event_delete">>
               [] OTHER -> <<"copy_arm">>)
        /\ ev' = [ev EXCEPT ![c.e].destroying = @ \/ (valid /\ c.name = "event_destroy")]
        /\ UNCHANGED <<qs, ql, val, ring, copies, fresh, recycled>>

(* wait_for_event_synchronizers_locked: pass through every queue lock, then *)
(* wait for the launch pins and for the synchronisers.                      *)
WaitForSynchronizers(t) ==
  /\ At(t, "synchronizers")
  /\ th' = IF valid_event(th[t].call.e)
           THEN [th EXCEPT ![t].todo = {q \in Queues : qs[q].live},
                  ![t].k = Then(t, <<"visit_queues", "check_synchronizers">>)]
           ELSE [th EXCEPT ![t].k = Tail(@)]
  /\ UNCHANGED <<qs, ev, reg, ql, val, ring, copies, fresh, left, recycled>>

VisitQueue(t) ==
  /\ At(t, "visit_queues")
  /\ \/ th[t].todo = {} /\ Goto(t, <<>>)
     \/ \E q \in th[t].todo :
          ql[q] = NoThread /\ th' = [th EXCEPT ![t].todo = @ \ {q}]
  /\ UNCHANGED <<qs, ev, reg, ql, val, ring, copies, fresh, left, recycled>>

CheckSynchronizers(t) ==
  LET e == th[t].call.e
  IN  /\ At(t, "check_synchronizers")
      /\ \/ /\ ev[e].lpins # 0
            /\ reg' = NoThread /\ Goto(t, <<"wait_launch_pins">>)
         \/ /\ ev[e].lpins = 0 /\ ev[e].syncs # 0
            /\ reg' = NoThread /\ Goto(t, <<"wait_synchronizers">>)
         \/ /\ ev[e].lpins = 0 /\ ev[e].syncs = 0
            /\ reg' = reg /\ Goto(t, <<>>)
      /\ UNCHANGED <<qs, ev, ql, val, ring, copies, fresh, left, recycled>>

AwaitSynchronizers(t) ==
  LET e == th[t].call.e
  IN  /\ \/ /\ At(t, "wait_launch_pins") /\ ev[e].lpins = 0
            /\ Goto(t, <<"lock_registry", "synchronizers">>) /\ reg' = reg
         \/ /\ At(t, "wait_synchronizers") /\ reg = NoThread
            /\ ~valid_event(e) \/ ev[e].syncs = 0
            /\ Goto(t, <<"synchronizers">>) /\ reg' = t
      /\ UNCHANGED <<qs, ev, ql, val, ring, copies, fresh, left, recycled>>

(* The event may have been destroyed while the registry was unlocked. *)
RevalidateEvent(t) ==
  LET e == th[t].call.e
      gone == ~valid_event(e) \/ ev[e].destroying
  IN  /\ At(t, "event_revalidate")
      /\ IF gone /\ th[t].call.name # "event_destroy"
         THEN Return(t)
         ELSE Goto(t, <<>>) /\ UNCHANGED <<reg, ql>>
      /\ UNCHANGED <<qs, ev, val, ring, copies, fresh, left, recycled>>

(* event_wait_locked: waits with the registry locked. *)
EventWaitLocked(t) ==
  LET e == th[t].call.e
  IN  /\ \/ /\ At(t, "event_wait_begin")
            /\ th' = IF ev[e].pending
                     THEN [th EXCEPT ![t].sig = e, ![t].ce = e,
                            ![t].k = Then(t, <<"event_wait_locked", "finish_event">>)]
                     ELSE [th EXCEPT ![t].k = Tail(@)]
         \/ At(t, "event_wait_locked") /\ val[th[t].sig] < 1 /\ Goto(t, <<>>)
      /\ UNCHANGED <<qs, ev, reg, ql, val, ring, copies, fresh, left, recycled>>

----------------------------------------------------------------------------
(* wait_for_event_consumers_locked                                         *)

ConsumersBegin(t) ==
  LET e == th[t].call.e
  IN  /\ At(t, "consumers_begin")
      /\ ev' = [ev EXCEPT ![e].syncs = @ + 1]
      /\ th' = [th EXCEPT ![t].epins = @ \cup {e}, ![t].sig = NoSignal,
                          ![t].k = Then(t, <<"consumers">>)]
      /\ UNCHANGED <<qs, reg, ql, val, ring, copies, fresh, left, recycled>>

Consumers(t) ==
  LET e == th[t].call.e
  IN  /\ At(t, "consumers")
      /\ IF HasConsumers(e)
         THEN /\ th' = [th EXCEPT ![t].todo = event_dependency_queues(e),
                   ![t].k = Then(t, <<"consumer_reap", "consumer_choose">>)]
              /\ ev' = ev
         ELSE /\ ev' = [ev EXCEPT ![e].syncs = @ - 1]
              /\ th' = [th EXCEPT ![t].epins = @ \ {e}, ![t].k = Tail(@)]
      /\ UNCHANGED <<qs, reg, ql, val, ring, copies, fresh, left, recycled>>

(* reap_completed_event_dependencies_locked *)
ConsumerReap(t) ==
  /\ At(t, "consumer_reap")
  /\ \/ th[t].todo = {} /\ Goto(t, <<>>) /\ ql' = ql
     \/ \E q \in th[t].todo :
          /\ ql[q] = NoThread
          /\ ql' = [ql EXCEPT ![q] = t]
          /\ th' = [th EXCEPT ![t].cq = q, ![t].todo = @ \ {q},
                      ![t].k = <<"reap_barriers", "unlock_queue">> \o @]
  /\ UNCHANGED <<qs, ev, reg, val, ring, copies, fresh, left, recycled>>

UnlockQueue(t) ==
  /\ At(t, "unlock_queue")
  /\ ql' = [ql EXCEPT ![th[t].cq] = NoThread]
  /\ Goto(t, <<>>)
  /\ UNCHANGED <<qs, ev, reg, val, ring, copies, fresh, left, recycled>>

(* Wait for a dependent copy, or for a marker behind the dependent packets. *)
ConsumerChoose(t) ==
  LET e == th[t].call.e
  IN  /\ At(t, "consumer_choose")
      /\ \/ /\ ~HasConsumers(e)
            /\ Goto(t, <<"consumers">>) /\ UNCHANGED <<qs, ev, reg>>
         \/ \E d \in DependentCopies(e) :
              /\ ev' = [ev EXCEPT ![d].syncs = @ + 1]
              /\ reg' = NoThread
              /\ th' = [th EXCEPT ![t].sig = d, ![t].ce = d, ![t].epins = @ \cup {d},
                   ![t].k = Then(t, <<"consumer_wait", "lock_registry",
                              "finish_event", "consumer_copy_done">>)]
              /\ qs' = qs
         \/ /\ DependentCopies(e) = {}
            /\ \E q \in event_dependency_queues(e) :
                 /\ qs' = [qs EXCEPT ![q].sync = @ + 1]
                 /\ th' = [th EXCEPT ![t].cq = q, ![t].need = 1, ![t].qpins = {q},
                      ![t].k = Then(t, <<"lock_queue", "capacity", "tail_marker",
                                 "consumer_release">>)]
            /\ UNCHANGED <<ev, reg>>
      /\ UNCHANGED <<ql, val, ring, copies, fresh, left, recycled>>

ConsumerCopyDone(t) ==
  LET d == th[t].ce
  IN  /\ At(t, "consumer_copy_done")
      /\ ev' = [ev EXCEPT ![d].syncs = @ - 1]
      /\ th' = [th EXCEPT ![t].sig = NoSignal, ![t].epins = @ \ {d},
                          ![t].k = Then(t, <<"consumers">>)]
      /\ UNCHANGED <<qs, reg, ql, val, ring, copies, fresh, left, recycled>>

ConsumerRelease(t) ==
  /\ At(t, "consumer_release")
  /\ ReleaseLocks(t)
  /\ Goto(t, <<"consumer_wait", "lock_registry", "lock_queue", "finish_sync",
               "consumer_queue_done">>)
  /\ UNCHANGED <<qs, ev, val, ring, copies, fresh, left, recycled>>

ConsumerQueueDone(t) ==
  LET q == th[t].cq
  IN  /\ At(t, "consumer_queue_done")
      /\ qs' = [qs EXCEPT ![q].sync = @ - 1]
      /\ ql' = [ql EXCEPT ![q] = NoThread]
      /\ th' = [th EXCEPT ![t].qpins = {}, ![t].k = Then(t, <<"consumers">>)]
      /\ UNCHANGED <<ev, reg, val, ring, copies, fresh, left, recycled>>
-----------------------------------------------------------------------------
(***************************************************************************)
(* What the event calls do once the event is quiescent: lr_event_record,   *)
(* lr_event_destroy, the asynchronous copies; and lr_event_create and      *)
(* lr_event_synchronize.                                                   *)
(***************************************************************************)

Usable(e) == valid_event(e) /\ ~ev[e].destroying

(* event_record_impl from the second validation on *)
RecordLock(t) ==
  LET c == th[t].call
  IN  /\ At(t, "record_lock")
      /\ IF Usable(c.e) /\ valid_queue(c.q)
         THEN /\ th' = [th EXCEPT ![t].cq = c.q,
                          ![t].k = <<"lock_queue", "record_pin">>]
              /\ UNCHANGED <<reg, ql>>
         ELSE Return(t)
      /\ UNCHANGED <<qs, ev, val, ring, copies, fresh, left, recycled>>

(* lr_event_record also waits for pending copies, by barriers that the      *)
(* event's own signal retires.                                              *)
RecordPin(t) ==
  LET c == th[t].call
  IN  /\ At(t, "record_pin")
      /\ ev' = [ev EXCEPT ![c.e].syncs = @ + 1]
      /\ th' = [th EXCEPT ![t].epins = {c.e}, ![t].need = 1,
           ![t].k = (IF c.q = DefaultQueue THEN Reap \o <<"collect">>
                     ELSE <<"capacity">>) \o <<"record_submit">>]
      /\ UNCHANGED <<qs, reg, ql, val, ring, copies, fresh, left, recycled>>

RecordSubmit(t) ==
  LET c == th[t].call
  IN  /\ At(t, "record_submit")
      /\ val' = [val EXCEPT ![c.e] = 1]
      /\ recycled' = recycled \cup References(c.e)
      /\ ev' = [ev EXCEPT ![c.e] = [@ EXCEPT !.syncs = @ - 1, !.kind = "Marker",
                  !.completed = FALSE, !.rq = c.q, !.pending = TRUE]]
      /\ qs' = [qs EXCEPT ![c.q].pe = Append(@, c.e)]
      /\ ring' = [ring EXCEPT ![c.q] = Append(@, Barrier({}, c.e))]
      /\ Return(t)
      /\ UNCHANGED <<copies, fresh, left>>

(* lr_event_destroy: the signal is destroyed and the event freed; a thread  *)
(* may still be waiting inside the event's own pin count.                   *)
EventDelete(t) ==
  LET e == th[t].call.e
  IN  /\ At(t, "event_delete")
      /\ recycled' = recycled \cup References(e) \cup
           {x \in {"pin_waiter"} : \E u \in Threads :
               At(u, "wait_launch_pins") /\ th[u].call.e = e}
      /\ ev' = [ev EXCEPT ![e].live = FALSE]
      /\ Return(t)
      /\ UNCHANGED <<qs, val, ring, copies, fresh, left>>

(* lr_event_create; the allocator may reuse the address of a freed event. *)
EventCreate(t) ==
  \E c \in left[t].calls :
    /\ c.name = "event_create" /\ ~ev[c.e].live
    /\ th[t].k = <<>> /\ left[t].count > 0 /\ reg = NoThread
    /\ left' = [left EXCEPT ![t].count = @ - 1]
    /\ ev' = [ev EXCEPT ![c.e] = NewEvent]
    /\ val' = [val EXCEPT ![c.e] = 1]
    /\ UNCHANGED <<qs, reg, ql, ring, copies, fresh, th, recycled>>

----------------------------------------------------------------------------
(* memcpy_async_impl from the second validation on                         *)

CopyArm(t) ==
  LET c == th[t].call
      implicit == c.name = "memcpy_async"
      accepted == implicit \/ (c.e \notin c.deps /\ AcceptsDependencies(c.deps))
  IN  /\ At(t, "copy_arm")
      /\ IF Usable(c.e) /\ accepted
         THEN /\ val' = [val EXCEPT ![c.e] = 1]
              /\ recycled' = recycled \cup References(c.e)
              /\ ev' = [ev EXCEPT ![c.e] = [@ EXCEPT !.kind = "AsyncCopy",
                          !.completed = FALSE, !.rq = NoQueue]]
              /\ th' = [th EXCEPT ![t].deps = CollectDependencies(c.deps),
                   ![t].cq = DefaultQueue,
                   ![t].k = IF implicit
                            THEN <<"lock_queue">> \o Reap \o <<"copy_submit">>
                            ELSE <<"copy_submit">>]
              /\ UNCHANGED <<reg, ql>>
         ELSE Return(t) /\ UNCHANGED <<val, ev, recycled>>
      /\ UNCHANGED <<qs, ring, copies, fresh, left>>

(* Implicitly the copy follows the dispatches in flight on the default      *)
(* queue, explicitly the given events, which it keeps referenced.           *)
CopyDependencies(t) ==
  IF th[t].call.name = "memcpy_async" THEN Range(qs[DefaultQueue].pd) ELSE th[t].deps

CopySubmit(t) ==
  LET e == th[t].call.e
  IN  /\ At(t, "copy_submit")
      /\ copies' = copies \cup {[e |-> e, deps |-> CopyDependencies(t)]}
      /\ ev' = [ev EXCEPT ![e] = [@ EXCEPT !.deps = th[t].deps, !.pending = TRUE]]
      /\ Return(t)
      /\ UNCHANGED <<qs, val, ring, fresh, left, recycled>>

(* hsa_amd_memory_async_copy reports an error: the event stays armed. *)
CopyFails(t) ==
  LET e == th[t].call.e
  IN  /\ At(t, "copy_submit")
      /\ ev' = [ev EXCEPT ![e].kind = "None"]
      /\ Return(t)
      /\ UNCHANGED <<qs, val, ring, copies, fresh, left, recycled>>

----------------------------------------------------------------------------
(* lr_event_synchronize                                                    *)

EventSynchronize(t) ==
  \E c \in left[t].calls :
    LET q == ev[c.e].rq
    IN  /\ c.name = "event_synchronize"
        /\ th[t].k = <<>> /\ left[t].count > 0 /\ reg = NoThread
        /\ left' = [left EXCEPT ![t].count = @ - 1]
        /\ IF Usable(c.e) /\ ev[c.e].pending
           THEN /\ ev' = [ev EXCEPT ![c.e].syncs = @ + 1]
                /\ qs' = IF q = NoQueue THEN qs ELSE [qs EXCEPT ![q].sync = @ + 1]
                /\ th' = [th EXCEPT ![t] = [Idle EXCEPT !.call = c, !.sig = c.e,
                     !.ce = c.e, !.epins = {c.e}, !.qpins = {q} \ {NoQueue},
                     !.k = <<"event_wait", "lock_registry", "finish_event",
                             "event_sync_done">>]]
           ELSE UNCHANGED <<ev, qs, th>>
        /\ UNCHANGED <<reg, ql, val, ring, copies, fresh, recycled>>

EventSynchronized(t) ==
  /\ At(t, "event_sync_done")
  /\ ev' = [ev EXCEPT ![th[t].ce].syncs = @ - 1]
  /\ qs' = [q \in Queues |-> [qs[q] EXCEPT
              !.sync = IF q \in th[t].qpins THEN @ - 1 ELSE @]]
  /\ Return(t)
  /\ UNCHANGED <<val, ring, copies, fresh, left, recycled>>
=============================================================================
