-------------------------- MODULE LightRocrProofs --------------------------
(***************************************************************************)
(* The hsakmt backend for any threads, queues, events, ring size, barrier  *)
(* width and calls: the state keeps its type, and reaping never frees a    *)
(* dispatch that a pending barrier is retired by.                          *)
(***************************************************************************)
EXTENDS LightRocrQueue, FiniteSetTheorems, TLAPS

RetirementInv == TypeOK /\ NoDanglingRetirement

LEMMA StackType ==
  ASSUME TypeOK, NEW t \in Threads, NEW label, At(t, label),
         NEW labels \in Seq(Labels)
  PROVE  Then(t, labels) \in Seq(Labels) /\ Tail(th[t].k) \in Seq(Labels)
<1>1. th[t] \in ThreadStates
  BY DEF TypeOK
<1>2. th[t].k \in Seq(Labels) /\ th[t].k # <<>>
  BY <1>1 DEF ThreadStates, At
<1>3. Tail(th[t].k) \in Seq(Labels)
  BY <1>2
<1> QED BY <1>3 DEF Then

LEMMA BarrierCountType ==
  ASSUME NEW D \in SUBSET Events
  PROVE  barrier_count(D) \in Nat
<1>1. Cardinality(D) \in Nat
  BY QueueAssumption, FS_Subset, FS_CardinalityType
<1> QED BY <1>1, QueueAssumption DEF barrier_count

(* Leaving a call, with success or with an error, is well typed. *)
LEMMA IdleType ==
  Idle \in ThreadStates
<1>1. Call("none", NoQueue, NoEvent, {}, 0) \in Calls
  BY DEF Call, Calls, CallNames
<1>2. <<>> \in Seq(Labels)
  OBVIOUS
<1> QED BY <1>1, <1>2 DEF Idle, ThreadStates

(* The three ways a routine moves on: to further labels, out of the call,   *)
(* and out of the call with an error.                                       *)
LEMMA GotoType ==
  ASSUME TypeOK, NEW t \in Threads, NEW label, At(t, label),
         NEW labels \in Seq(Labels), Goto(t, labels)
  PROVE  th' \in [Threads -> ThreadStates]
<1>1. Then(t, labels) \in Seq(Labels)
  BY StackType
<1>2. th \in [Threads -> ThreadStates]
  BY DEF TypeOK
<1> QED BY <1>1, <1>2, ZenonT(90) DEF Goto, ThreadStates

LEMMA ReturnType ==
  ASSUME TypeOK, NEW t \in Threads, Return(t)
  PROVE  th' \in [Threads -> ThreadStates] /\ lock' \in Threads \cup {NoThread}
BY IdleType DEF Return, TypeOK

LEMMA FailType ==
  ASSUME TypeOK, NEW t \in Threads, Fail(t)
  PROVE  /\ th' \in [Threads -> ThreadStates]
         /\ lock' \in Threads \cup {NoThread}
         /\ ev' \in [Events -> EventStates]
<1>1. Return(t)
  BY DEF Fail
<1>2. ev \in [Events -> EventStates]
  BY DEF TypeOK
<1>3. ev' \in [Events -> EventStates]
  BY <1>2, ZenonT(90) DEF Fail, EventStates
<1> QED BY <1>1, <1>3, ReturnType

LEMMA BudgetSpent ==
  ASSUME NEW b \in [Threads -> Budgets], NEW t \in Threads, b[t].count > 0
  PROVE  [b EXCEPT ![t].count = @ - 1] \in [Threads -> Budgets]
BY DEF Budgets

LEMMA BeginType ==
  ASSUME TypeOK, NEW t \in Threads, NEW c \in Calls, NEW Q \in SUBSET Queues,
         NEW labels \in Seq(Labels), Begin(t, c, Q, labels)
  PROVE  /\ th' \in [Threads -> ThreadStates]
         /\ lock' \in Threads \cup {NoThread}
         /\ left' \in [Threads -> Budgets]
<1>1. left' \in [Threads -> Budgets] /\ lock' \in Threads \cup {NoThread}
  BY BudgetSpent, ZenonT(30) DEF Begin, TypeOK
<1>2. [Idle EXCEPT !.k = labels, !.call = c, !.cq = c.q, !.todo = Q] \in ThreadStates
  BY IdleType, Zenon DEF ThreadStates, Calls
<1> QED BY <1>1, <1>2 DEF Begin, TypeOK

(* Steps that touch no list of dispatches or barriers keep both parts once  *)
(* the variables they write are well typed.                                 *)
LEMMA ListsUntouched ==
  ASSUME RetirementInv, UNCHANGED <<pd, pb>>, TypeOK'
  PROVE  RetirementInv'
BY DEF RetirementInv, NoDanglingRetirement

LEMMA ControlStep ==
  ASSUME TypeOK, UNCHANGED <<queueVars, val>>,
         lock' \in Threads \cup {NoThread}, live' \in [Queues -> BOOLEAN],
         ev' \in [Events -> EventStates], th' \in [Threads -> ThreadStates],
         left' \in [Threads -> Budgets]
  PROVE  TypeOK'
BY DEF TypeOK, queueVars

LEMMA InitType == Init => RetirementInv
<1> SUFFICES ASSUME Init PROVE RetirementInv
  OBVIOUS
<1>1. TypeOK
  BY IdleType, QueueAssumption, ProgramsAssumption DEF Init, TypeOK, NewEvent, EventStates
<1>2. NoDanglingRetirement
  BY DEF Init, NoDanglingRetirement
<1> QED BY <1>1, <1>2 DEF RetirementInv
(* Steps that only move control: waiting, and choosing what to do next. *)
LEMMA ControlSteps ==
  ASSUME RetirementInv, NEW t \in Threads,
         \/ ReapEvents(t) \/ FinishEvent(t) \/ WaitFront(t) \/ EnsureCapacity(t)
         \/ CheckCapacity(t) \/ SynchronizeQueue(t) \/ SynchronizeDevice(t)
         \/ EnsureScratch(t) \/ CollectDependencies(t) \/ Leave(t)
         \/ WaitForSynchronizers(t) \/ Revalidate(t) \/ WaitForEvent(t)
         \/ WaitForConsumers(t) \/ Record(t) \/ HostWait(t)
  PROVE  RetirementInv'
<1> USE DEF RetirementInv
<1>0. /\ TypeOK /\ th[t] \in ThreadStates /\ th \in [Threads -> ThreadStates]
      /\ lock \in Threads \cup {NoThread} /\ ev \in [Events -> EventStates]
      /\ live \in [Queues -> BOOLEAN] /\ left \in [Threads -> Budgets]
  BY DEF TypeOK
<1>s. /\ <<>> \in Seq(Labels) /\ ReapDispatches \in Seq(Labels) /\ Reap \in Seq(Labels)
      /\ \A l \in Labels : <<l>> \in Seq(Labels)
  <2>1. ReapDispatches \in Seq(Labels)
    BY DEF ReapDispatches, Labels
  <2>2. Reap \in Seq(Labels)
    BY <2>1 DEF Reap, Labels
  <2> QED BY <2>1, <2>2
<1> DEFINE Moved == /\ th' \in [Threads -> ThreadStates]
                    /\ lock' \in Threads \cup {NoThread}
                    /\ ev' \in [Events -> EventStates]
<1>1. SUFFICES Moved /\ UNCHANGED <<queueVars, live, val, left>>
  BY <1>0, ControlStep, ListsUntouched, SMTT(60) DEF queueVars
<1>2. UNCHANGED <<queueVars, live, val, left>>
  BY Zenon DEF ReapEvents, FinishEvent, WaitFront, EnsureCapacity, CheckCapacity,
         SynchronizeQueue, SynchronizeDevice, EnsureScratch, CollectDependencies, Leave,
         WaitForSynchronizers, Revalidate, WaitForEvent, WaitForConsumers, Record, HostWait
<1>3. ASSUME NEW labels \in Seq(Labels), NEW label, At(t, label), Goto(t, labels),
             UNCHANGED <<lock, ev>>
      PROVE  Moved
  BY <1>0, <1>3, GotoType
<1>4. ASSUME Return(t), UNCHANGED ev PROVE Moved
  BY <1>0, <1>4, ReturnType
<1>5. ASSUME Fail(t) PROVE Moved
  BY <1>0, <1>5, FailType
<1>6. CASE ReapEvents(t)
  <2>1. PICK q \in Queues :
          \/ Goto(t, <<>>)
          \/ \E x \in Oldest(pe[q]) :
               th' = [th EXCEPT ![t].ce = x.ev, ![t].k = <<"finish_event">> \o @]
    BY <1>6, Zenon DEF ReapEvents
  <2>2. At(t, "reap_events") /\ UNCHANGED <<lock, ev>>
    BY <1>6, Zenon DEF ReapEvents
  <2>3. CASE Goto(t, <<>>)
    BY <1>2, <1>s, <1>3, <2>2, <2>3, Zenon
  <2>4. ASSUME NEW x \in Oldest(pe[q]),
               th' = [th EXCEPT ![t].ce = x.ev, ![t].k = <<"finish_event">> \o @]
        PROVE  Moved
    <3>1. x.ev \in Events \cup {NoEvent}
      BY DEF TypeOK, Oldest
    <3>2. <<"finish_event">> \o th[t].k \in Seq(Labels)
      <4>1. th[t].k \in Seq(Labels)
        BY <1>0, Zenon DEF ThreadStates
      <4>2. <<"finish_event">> \in Seq(Labels)
        BY SMTT(60) DEF Labels
      <4> QED BY <4>1, <4>2
    <3>3. th' \in [Threads -> ThreadStates]
      BY <1>0, <2>4, <3>1, <3>2, Zenon DEF ThreadStates
    <3> QED BY <1>0, <2>2, <3>3
  <2> QED BY <1>2, <2>1, <2>3, <2>4, Zenon
<1>7. CASE FinishEvent(t)
  <2>1. At(t, "finish_event") /\ UNCHANGED <<lock, ev>>
    BY <1>7 DEF FinishEvent
  <2>2. CASE Goto(t, <<>>)
    BY <1>2, <1>s, <1>3, <2>1, <2>2, Zenon
  <2>3. ASSUME NEW q \in Queues,
               th' = [th EXCEPT ![t].cq = q,
                        ![t].k = Then(t, ReapDispatches \o <<"event_finished">>)]
        PROVE  Moved
    <3>1. ReapDispatches \o <<"event_finished">> \in Seq(Labels)
      BY <1>s DEF Labels
    <3>2. Then(t, ReapDispatches \o <<"event_finished">>) \in Seq(Labels)
      BY <1>0, <2>1, <3>1, StackType, Zenon
    <3>3. th' \in [Threads -> ThreadStates]
      BY <1>0, <2>3, <3>2, Zenon DEF ThreadStates
    <3> QED BY <1>0, <2>1, <3>3
  <2> QED BY <1>7, <2>2, <2>3, Zenon DEF FinishEvent
<1>8. CASE WaitFront(t)
  BY <1>s, <1>3, <1>8, Zenon DEF WaitFront
<1>9. CASE EnsureCapacity(t)
  <2>1. Reap \o <<"capacity_check">> \in Seq(Labels)
    BY <1>s DEF Labels
  <2> QED BY <1>3, <1>5, <1>9, <2>1, Zenon DEF EnsureCapacity
<1>10. CASE CheckCapacity(t)
  <2>1. <<"wait_front", "capacity">> \in Seq(Labels)
    BY DEF Labels
  <2> QED BY <1>s, <1>3, <1>5, <1>10, <2>1, Zenon DEF CheckCapacity
<1>11. CASE SynchronizeQueue(t)
  <2>1. <<"wait_front">> \o Reap \o <<"sync">> \in Seq(Labels)
    BY <1>s DEF Labels
  <2> QED BY <1>s, <1>3, <1>5, <1>11, <2>1, ZenonT(90) DEF SynchronizeQueue
<1>12. CASE SynchronizeDevice(t)
  <2>1. At(t, "device") /\ UNCHANGED <<lock, ev>>
    BY <1>12, Zenon DEF SynchronizeDevice
  <2>2. CASE Goto(t, <<>>)
    BY <1>2, <1>s, <1>3, <2>1, <2>2, ZenonT(90)
  <2>3. ASSUME NEW q \in th[t].todo,
               th' = [th EXCEPT ![t].todo = @ \ {q}, ![t].cq = q, ![t].k = <<"sync">> \o @]
        PROVE  Moved
    <3>1. th[t].k \in Seq(Labels) /\ <<"sync">> \in Seq(Labels) /\ q \in Queues
      <4>1. th[t].k \in Seq(Labels) /\ q \in Queues
        BY <1>0, Zenon DEF ThreadStates
      <4>2. <<"sync">> \in Seq(Labels)
        BY SMTT(60) DEF Labels
      <4> QED BY <4>1, <4>2
    <3>2. <<"sync">> \o th[t].k \in Seq(Labels)
      BY <3>1
    <3>3. th' \in [Threads -> ThreadStates]
      BY <1>0, <2>3, <3>1, <3>2, ZenonT(90) DEF ThreadStates
    <3> QED BY <1>0, <2>1, <3>3
  <2> QED BY <1>12, <2>2, <2>3, Zenon DEF SynchronizeDevice
<1>13. CASE EnsureScratch(t)
  <2>1. <<"sync", "replace">> \in Seq(Labels)
    BY DEF Labels
  <2> QED BY <1>s, <1>3, <1>5, <1>13, <2>1, Zenon DEF EnsureScratch
<1>14. CASE CollectDependencies(t)
  <2> DEFINE c == th[t].call
             D == Collect(c.deps)
  <2>1. c \in Calls /\ D \in SUBSET Events
    BY <1>0, Zenon DEF ThreadStates, Calls, Collect
  <2>2. barrier_count(D) + 1 \in Nat
    BY <2>1, BarrierCountType
  <2>3. <<"scratch", "capacity", "submit">> \in Seq(Labels)
    BY SMTT(60) DEF Labels
  <2>4. CASE Return(t)
    BY <1>4, <1>14, <2>4, Zenon DEF CollectDependencies
  <2>5. CASE /\ th' = [th EXCEPT ![t].cq = c.q, ![t].deps = D,
                          ![t].need = barrier_count(D) + 1,
                          ![t].k = <<"scratch", "capacity", "submit">>]
             /\ lock' = lock
    <3>1. c.q \in Queues \cup {NoQueue}
      BY <2>1, Zenon DEF Calls
    <3>2. th' \in [Threads -> ThreadStates]
      BY <1>0, <2>1, <2>2, <2>3, <2>5, <3>1, ZenonT(90) DEF ThreadStates
    <3> QED BY <1>0, <1>14, <2>5, <3>2, Zenon DEF CollectDependencies
  <2> QED BY <1>14, <2>4, <2>5, Zenon DEF CollectDependencies
<1>15. CASE Leave(t)
  BY <1>4, <1>15 DEF Leave
<1>16. CASE WaitForSynchronizers(t)
  <2>1. <<"sleep">> \in Seq(Labels)
    BY DEF Labels
  <2>2. PICK labels \in Seq(Labels), label \in {"synchronizers", "sleep"} :
          At(t, label) /\ Goto(t, labels)
    BY <1>s, <1>16, <2>1, Zenon DEF WaitForSynchronizers
  <2>3. th' \in [Threads -> ThreadStates]
    BY <1>0, <2>2, GotoType, SMTT(60)
  <2> QED BY <1>0, <1>16, <2>3, Zenon DEF WaitForSynchronizers
<1>17. CASE Revalidate(t)
  BY <1>s, <1>3, <1>4, <1>17, Zenon DEF Revalidate
<1>18. CASE WaitForEvent(t)
  <2> DEFINE e == th[t].call.e
             labels == IF ev[e].pending THEN <<"finish_event">> ELSE <<>>
  <2>0. <<"finish_event">> \in Seq(Labels)
    BY SMTT(60) DEF Labels
  <2>1. e \in Events \cup {NoEvent} /\ labels \in Seq(Labels)
    BY <1>0, <1>s, <2>0, Zenon DEF ThreadStates, Calls
  <2>2. Then(t, labels) \in Seq(Labels)
    BY <1>0, <1>18, <2>1, StackType, Zenon DEF WaitForEvent
  <2>3. th' = [th EXCEPT ![t].ce = e, ![t].k = Then(t, labels)]
    BY <1>18, Zenon DEF WaitForEvent
  <2> HIDE DEF e, labels
  <2>4. th' \in [Threads -> ThreadStates]
    BY <1>0, <2>1, <2>2, <2>3, Zenon DEF ThreadStates
  <2> QED BY <1>0, <1>18, <2>4, Zenon DEF WaitForEvent
<1>19. CASE WaitForConsumers(t)
  <2>1. At(t, "consumers")
    BY <1>19, Zenon DEF WaitForConsumers
  <2>2. CASE th' = [th EXCEPT ![t].k = Tail(@), ![t].quiet = TRUE] /\ UNCHANGED <<lock, ev>>
    <3>1. Tail(th[t].k) \in Seq(Labels)
      BY <1>0, <1>s, <2>1, StackType, Zenon
    <3>2. th' \in [Threads -> ThreadStates]
      BY <1>0, <2>2, <3>1, Zenon DEF ThreadStates
    <3> QED BY <1>0, <1>2, <2>2, <3>2
  <2>3. ASSUME NEW q \in Queues, UNCHANGED <<lock, ev>>,
               th' = [th EXCEPT ![t].cq = q, ![t].k = Then(t, <<"sync", "consumers">>)]
        PROVE  Moved
    <3>1. <<"sync", "consumers">> \in Seq(Labels)
      BY DEF Labels
    <3>2. Then(t, <<"sync", "consumers">>) \in Seq(Labels)
      BY <1>0, <2>1, <3>1, StackType, Zenon
    <3>3. th' \in [Threads -> ThreadStates]
      BY <1>0, <2>3, <3>2, Zenon DEF ThreadStates
    <3> QED BY <1>0, <2>3, <3>3
  <2>4. CASE Fail(t)
    BY <1>2, <1>5, <2>4
  <2> QED BY <1>19, <2>2, <2>3, <2>4, Zenon DEF WaitForConsumers, dependency_queues
<1>20. CASE Record(t)
  <2>1. <<"capacity", "record_submit">> \in Seq(Labels)
    BY DEF Labels
  <2>2. CASE Return(t)
    BY <1>4, <1>20, <2>2 DEF Record
  <2>3. CASE /\ th' = [th EXCEPT ![t].cq = th[t].call.q, ![t].need = 1,
                          ![t].k = <<"capacity", "record_submit">>]
             /\ lock' = lock
    <3>1. th[t].call.q \in Queues \cup {NoQueue}
      BY <1>0, Zenon DEF ThreadStates, Calls
    <3>2. th' \in [Threads -> ThreadStates]
      BY <1>0, <2>1, <2>3, <3>1, ZenonT(60) DEF ThreadStates
    <3> QED BY <1>0, <1>20, <2>3, <3>2, SMTT(60) DEF Record
  <2> QED BY <1>20, <2>2, <2>3, Zenon DEF Record
<1>21. CASE HostWait(t)
  <2>1. <<"relock">> \in Seq(Labels)
    BY DEF Labels
  <2>2. PICK labels \in Seq(Labels), label \in {"host_wait", "relock"} :
          At(t, label) /\ Goto(t, labels)
    BY <1>s, <1>21, <2>1, Zenon DEF HostWait
  <2>3. th' \in [Threads -> ThreadStates]
    BY <1>0, <2>2, GotoType
  <2> QED BY <1>0, <1>21, <2>3, Zenon DEF HostWait
<1> QED
  BY <1>2, <1>6, <1>7, <1>8, <1>9, <1>10, <1>11, <1>12, <1>13, <1>14, <1>15, <1>16,
     <1>17, <1>18, <1>19, <1>20, <1>21
(* Retiring: a barrier goes only when its dispatch is complete and still    *)
(* listed, a dispatch only when no barrier names it.                        *)
LEMMA RetireSteps ==
  ASSUME RetirementInv, NEW t \in Threads, ReapBarriers(t) \/ ReapDispatch(t)
  PROVE  RetirementInv'
<1> USE DEF RetirementInv
<1>0. /\ TypeOK /\ th[t] \in ThreadStates /\ th \in [Threads -> ThreadStates]
      /\ pb \in [Queues -> SUBSET [ret : Nat, deps : SUBSET Events]]
      /\ pd \in [Queues -> SUBSET [id : Nat, ev : Events \cup {NoEvent}]]
      /\ <<>> \in Seq(Labels)
  BY DEF TypeOK
<1>1. CASE ReapBarriers(t)
  <2>1. At(t, "reap_barriers") /\ Tail(th[t].k) \in Seq(Labels)
    BY <1>0, <1>1, StackType, ZenonT(60) DEF ReapBarriers
  <2>2. UNCHANGED <<lock, flight, wpos, pd, pe, ring, live, val, ev, left>>
    BY <1>1, Zenon DEF ReapBarriers
  <2>3. PICK q \in Queues :
          \/ th' = [th EXCEPT ![t].k = Tail(@), ![t].seen = {}] /\ pb' = pb
          \/ \E b \in pb[q] :
               \/ th' = [th EXCEPT ![t].seen = @ \cup {b}] /\ pb' = pb
               \/ pb' = [pb EXCEPT ![q] = @ \ {b}] /\ th' = th
    BY <1>1, Zenon DEF ReapBarriers
  <2>4. th' \in [Threads -> ThreadStates]
    <3>1. CASE th' = [th EXCEPT ![t].k = Tail(@), ![t].seen = {}]
      BY <1>0, <2>1, <3>1, Zenon DEF ThreadStates
    <3>2. ASSUME NEW b \in pb[q], th' = [th EXCEPT ![t].seen = @ \cup {b}]
          PROVE  th' \in [Threads -> ThreadStates]
      <4>1. th[t].seen \cup {b} \in SUBSET [ret : Nat, deps : SUBSET Events]
        BY <1>0 DEF ThreadStates
      <4> QED BY <1>0, <3>2, <4>1, Zenon DEF ThreadStates
    <3> QED BY <1>0, <2>3, <3>1, <3>2, Zenon
  <2>5. /\ pb' \in [Queues -> SUBSET [ret : Nat, deps : SUBSET Events]]
        /\ \A p \in Queues : pb'[p] \subseteq pb[p]
    BY <1>0, <2>3
  <2>6. TypeOK'
    BY <2>2, <2>4, <2>5 DEF TypeOK
  <2>7. NoDanglingRetirement'
    BY <2>2, <2>5 DEF NoDanglingRetirement
  <2> QED BY <2>6, <2>7
<1>2. CASE ReapDispatch(t)
  <2> DEFINE q == th[t].cq
             ready == {d \in Oldest(pd[q]) : Reapable(q, d)}
  <2>1. UNCHANGED <<lock, flight, wpos, pb, pe, ring, live, val, ev, left>>
    BY <1>2 DEF ReapDispatch
  <2>2. At(t, "reap_dispatches")
    BY <1>2 DEF ReapDispatch
  <2>3. CASE Goto(t, <<>>) /\ pd' = pd
    <3>1. th' \in [Threads -> ThreadStates]
      BY <1>0, <2>2, <2>3, GotoType, Zenon
    <3>2. TypeOK'
      BY <2>1, <2>3, <3>1 DEF TypeOK
    <3> QED BY <2>1, <2>3, <3>2, ListsUntouched
  <2>4. CASE pd' = [pd EXCEPT ![q] = @ \ ready] /\ th' = th
    <3>1. TypeOK'
      BY <1>0, <2>1, <2>4, Zenon DEF TypeOK
    <3>2. ASSUME NEW p \in Queues, NEW b \in pb[p]
          PROVE  \E d \in pd'[p] : d.id = b.ret
      <4>1. PICK d \in pd[p] : d.id = b.ret
        BY DEF NoDanglingRetirement
      <4>2. p = q => d \notin ready
        BY <4>1 DEF Reapable
      <4>3. d \in pd'[p]
        BY <1>0, <2>4, <4>2
      <4> QED BY <4>1, <4>3
    <3> QED BY <2>1, <3>1, <3>2, Zenon DEF NoDanglingRetirement
  <2> QED BY <1>2, <2>3, <2>4, Zenon DEF ReapDispatch
<1> QED BY <1>1, <1>2

(* Adding entries to one of the lists *)
LEMMA ListGrows ==
  ASSUME NEW I, NEW S, NEW f \in [I -> SUBSET S], NEW i, NEW A,
         i \in I => A \subseteq S
  PROVE  [f EXCEPT ![i] = @ \cup A] \in [I -> SUBSET S]
<1>1. CASE i \in I
  BY <1>1
<1>2. CASE i \notin I
  BY <1>2, Zenon
<1> QED BY <1>1, <1>2

(* Arming the signal of an event *)
LEMMA EventArmed ==
  ASSUME NEW f \in [Events -> EventStates], NEW e, NEW q \in Queues \cup {NoQueue}
  PROVE  [f EXCEPT ![e] = [@ EXCEPT !.pending = TRUE, !.completed = FALSE, !.rq = q]]
           \in [Events -> EventStates]
<1>1. CASE e \in Events
  <2>1. [f[e] EXCEPT !.pending = TRUE, !.completed = FALSE, !.rq = q] \in EventStates
    BY <1>1, Zenon DEF EventStates
  <2> QED BY <1>1, <2>1
<1>2. CASE e \notin Events
  BY <1>2, Zenon
<1> QED BY <1>1, <1>2

(* The other writes to an event: finished, deleted, marked for destruction, *)
(* and its set of synchronisers.                                            *)
LEMMA EventWritten ==
  ASSUME NEW f \in [Events -> EventStates], NEW e
  PROVE  /\ [f EXCEPT ![e] = [@ EXCEPT !.pending = FALSE, !.completed = TRUE,
                                       !.rq = NoQueue]] \in [Events -> EventStates]
         /\ [f EXCEPT ![e].live = FALSE] \in [Events -> EventStates]
         /\ \A b \in BOOLEAN : [f EXCEPT ![e].destroying = b] \in [Events -> EventStates]
         /\ \A t \in Threads :
              /\ [f EXCEPT ![e].syncs = @ \cup {t}] \in [Events -> EventStates]
              /\ [f EXCEPT ![e].syncs = @ \ {t}] \in [Events -> EventStates]
<1>1. CASE e \in Events
  <2>0. f[e] \in EventStates
    BY <1>1
  <2>1. [f[e] EXCEPT !.pending = FALSE, !.completed = TRUE, !.rq = NoQueue]
          \in EventStates
    BY <2>0, Zenon DEF EventStates
  <2>2. [f[e] EXCEPT !.live = FALSE] \in EventStates
    BY <2>0, Zenon DEF EventStates
  <2>3. ASSUME NEW b \in BOOLEAN PROVE [f[e] EXCEPT !.destroying = b] \in EventStates
    BY <2>0 DEF EventStates
  <2>4. ASSUME NEW t \in Threads
        PROVE  /\ [f[e] EXCEPT !.syncs = @ \cup {t}] \in EventStates
               /\ [f[e] EXCEPT !.syncs = @ \ {t}] \in EventStates
    <3>1. f[e].syncs \cup {t} \in SUBSET Threads /\ f[e].syncs \ {t} \in SUBSET Threads
      BY <2>0 DEF EventStates
    <3> QED BY <2>0, <3>1 DEF EventStates
  <2>5. ASSUME NEW s \in EventStates PROVE [f EXCEPT ![e] = s] \in [Events -> EventStates]
    BY Zenon
  <2> QED BY <1>1, <2>1, <2>2, <2>3, <2>4, <2>5
<1>2. CASE e \notin Events
  BY <1>2, Zenon
<1> QED BY <1>1, <1>2

(* Submitting: the barriers of a kernel are listed together with it. *)
LEMMA SubmitStep ==
  ASSUME RetirementInv, NEW t \in Threads, SubmitKernel(t)
  PROVE  RetirementInv'
<1> USE DEF RetirementInv
<1> DEFINE q == th[t].cq
           e == th[t].call.e
           D == th[t].deps
           n == barrier_count(D)
           id == wpos[q] + n + 1
<1>0. /\ TypeOK /\ th[t] \in ThreadStates
      /\ pb \in [Queues -> SUBSET [ret : Nat, deps : SUBSET Events]]
      /\ pd \in [Queues -> SUBSET [id : Nat, ev : Events \cup {NoEvent}]]
      /\ pe \in [Queues -> SUBSET [id : Nat, ev : Events \cup {NoEvent}]]
      /\ flight \in [Queues -> SUBSET Packets]
      /\ wpos \in [Queues -> Nat]
      /\ val \in [Events -> {0, 1}] /\ ev \in [Events -> EventStates]
  BY SMTT(60) DEF TypeOK
<1>1. /\ q \in Queues \cup {NoQueue} /\ e \in Events \cup {NoEvent}
      /\ D \in SUBSET Events
  BY <1>0, SMTT(60) DEF ThreadStates, Calls
<1>2. n \in Nat
  BY <1>1, BarrierCountType, SMTT(60)
<1>3. /\ Return(t) /\ UNCHANGED <<ring, live, left>>
      /\ wpos' = [wpos EXCEPT ![q] = id]
      /\ pd' = [pd EXCEPT ![q] = @ \cup {[id |-> id, ev |-> e]}]
  BY ZenonT(90) DEF SubmitKernel
<1>4. PICK b \in Batchings(D) :
        /\ pb' = [pb EXCEPT ![q] = @ \cup
             {[ret |-> id, deps |-> {x \in D : b[x] = i}] : i \in 1 .. n}]
        /\ flight' = [flight EXCEPT ![q] = @ \cup
             {[pos |-> wpos[q] + i, kind |-> "barrier", ret |-> id,
               deps |-> {x \in D : b[x] = i}, ev |-> NoEvent, bit |-> TRUE] : i \in 1 .. n}
             \cup {[pos |-> id, kind |-> "dispatch", ret |-> id, deps |-> {},
                    ev |-> e, bit |-> pd[q] # {} \/ n # 0]}]
  BY ZenonT(90) DEF SubmitKernel
<1>5. /\ \/ UNCHANGED <<val, ev, pe>>
         \/ /\ val' = [val EXCEPT ![e] = 1]
            /\ ev' = [ev EXCEPT ![e] = [@ EXCEPT !.pending = TRUE,
                                          !.completed = FALSE, !.rq = q]]
            /\ pe' = [pe EXCEPT ![q] = @ \cup {[id |-> id, ev |-> e]}]
  BY Zenon DEF SubmitKernel
<1> HIDE DEF q, e, D, n, id
<1>6. q \in Queues => id \in Nat
  BY <1>0, <1>2 DEF id
<1>7. pb' \in [Queues -> SUBSET [ret : Nat, deps : SUBSET Events]]
  <2> DEFINE S == [ret : Nat, deps : SUBSET Events]
             A == {[ret |-> id, deps |-> {x \in D : b[x] = i}] : i \in 1 .. n}
  <2>1. q \in Queues => A \subseteq S
    BY <1>1, <1>6, SMTT(60)
  <2>2. pb \in [Queues -> SUBSET S] /\ pb' = [pb EXCEPT ![q] = @ \cup A]
    BY <1>0, <1>4, ZenonT(90)
  <2> HIDE DEF S, A
  <2>3. pb' \in [Queues -> SUBSET S]
    BY <2>1, <2>2, ListGrows, Zenon
  <2> QED BY <2>3 DEF S
<1>8. flight' \in [Queues -> SUBSET Packets]
  <2>1. q \in Queues => \A i \in 1 .. n :
          [pos |-> wpos[q] + i, kind |-> "barrier", ret |-> id,
           deps |-> {x \in D : b[x] = i}, ev |-> NoEvent, bit |-> TRUE] \in Packets
    <3> SUFFICES ASSUME q \in Queues, NEW i \in 1 .. n
                 PROVE  [pos |-> wpos[q] + i, kind |-> "barrier", ret |-> id,
                         deps |-> {x \in D : b[x] = i}, ev |-> NoEvent,
                         bit |-> TRUE] \in Packets
      OBVIOUS
    <3>1. wpos[q] + i \in Nat
      BY <1>0, <1>2
    <3> QED BY <1>1, <1>6, <3>1 DEF Packets
  <2>2. q \in Queues =>
          [pos |-> id, kind |-> "dispatch", ret |-> id, deps |-> {},
           ev |-> e, bit |-> pd[q] # {} \/ n # 0] \in Packets
    BY <1>1, <1>6 DEF Packets
  <2> DEFINE A == {[pos |-> wpos[q] + i, kind |-> "barrier", ret |-> id,
               deps |-> {x \in D : b[x] = i}, ev |-> NoEvent, bit |-> TRUE] : i \in 1 .. n}
             \cup {[pos |-> id, kind |-> "dispatch", ret |-> id, deps |-> {},
                    ev |-> e, bit |-> pd[q] # {} \/ n # 0]}
  <2>3. q \in Queues => A \subseteq Packets
    BY <2>1, <2>2, SMTT(60)
  <2>4. flight' = [flight EXCEPT ![q] = @ \cup A]
    BY <1>4, Zenon
  <2> HIDE DEF A
  <2> QED BY <1>0, <2>3, <2>4, ListGrows, Zenon
<1>9. /\ pd' \in [Queues -> SUBSET [id : Nat, ev : Events \cup {NoEvent}]]
      /\ pe' \in [Queues -> SUBSET [id : Nat, ev : Events \cup {NoEvent}]]
      /\ wpos' \in [Queues -> Nat]
  <2> DEFINE S == [id : Nat, ev : Events \cup {NoEvent}]
             A == {[id |-> id, ev |-> e]}
  <2>1. q \in Queues => A \subseteq S
    BY <1>1, <1>6
  <2>2. pd \in [Queues -> SUBSET S] /\ pe \in [Queues -> SUBSET S]
    BY <1>0, ZenonT(90)
  <2>3. /\ pd' = [pd EXCEPT ![q] = @ \cup A]
        /\ pe' = pe \/ pe' = [pe EXCEPT ![q] = @ \cup A]
    BY <1>3, <1>5
  <2>4. wpos' \in [Queues -> Nat]
    BY <1>0, <1>3, <1>6, Zenon
  <2> HIDE DEF S, A
  <2>5. pd' \in [Queues -> SUBSET S]
    BY <2>1, <2>2, <2>3, ListGrows, Zenon
  <2>6. [pe EXCEPT ![q] = @ \cup A] \in [Queues -> SUBSET S]
    BY <2>1, <2>2, ListGrows, ZenonT(90)
  <2>7. pe' \in [Queues -> SUBSET S]
    BY <2>2, <2>3, <2>6
  <2> QED BY <2>4, <2>5, <2>7 DEF S
<1>10. val' \in [Events -> {0, 1}] /\ ev' \in [Events -> EventStates]
  <2>1. val' \in [Events -> {0, 1}]
    BY <1>0, <1>5
  <2>2. ev' \in [Events -> EventStates]
    <3>1. [ev EXCEPT ![e] = [@ EXCEPT !.pending = TRUE, !.completed = FALSE, !.rq = q]]
            \in [Events -> EventStates]
      BY <1>0, <1>1, EventArmed, Zenon
    <3> QED BY <1>0, <1>5, <3>1
  <2> QED BY <2>1, <2>2
<1>11. TypeOK'
  <2>1. th' \in [Threads -> ThreadStates] /\ lock' \in Threads \cup {NoThread}
    BY <1>0, <1>3, ReturnType, Zenon
  <2>2. ring' = ring /\ live' = live /\ left' = left
    BY <1>3, Zenon
  <2>3. /\ ring \in [Queues -> Int] /\ live \in [Queues -> BOOLEAN]
        /\ left \in [Threads -> Budgets]
    BY DEF TypeOK
  <2> QED BY <1>7, <1>8, <1>9, <1>10, <2>1, <2>2, <2>3, ZenonT(90) DEF TypeOK
<1> DEFINE A == {[ret |-> id, deps |-> {x \in D : b[x] = i}] : i \in 1 .. n}
<1>b. pb' = [pb EXCEPT ![q] = @ \cup A]
  BY <1>4, Zenon
<1>c. \A y \in A : y.ret = id
  OBVIOUS
<1> HIDE DEF A
<1>12. ASSUME NEW p \in Queues, NEW x \in pb'[p]
       PROVE  \E d \in pd'[p] : d.id = x.ret
  <2>1. CASE x \in pb[p]
    <3>1. PICK d \in pd[p] : d.id = x.ret
      BY <2>1, SMTT(60) DEF NoDanglingRetirement
    <3>2. d \in pd'[p]
      BY <1>0, <1>3, Zenon
    <3> QED BY <3>1, <3>2
  <2>2. CASE x \notin pb[p]
    <3>1. p = q /\ x.ret = id
      BY <1>0, <1>b, <1>c, <2>2, ZenonT(90)
    <3>2. [id |-> id, ev |-> e] \in pd'[p]
      BY <1>0, <1>3, <3>1, Zenon
    <3> QED BY <3>1, <3>2, SMTT(60)
  <2> QED BY <2>1, <2>2
<1> QED BY <1>11, <1>12 DEF NoDanglingRetirement

(* Replacing one queue's ring keeps the type of ring. *)
LEMMA RingWritten ==
  ASSUME NEW f \in [Queues -> Int], NEW q, NEW v \in Int
  PROVE  [f EXCEPT ![q] = v] \in [Queues -> Int]
<1>1. CASE q \in Queues
  BY <1>1
<1>2. CASE q \notin Queues
  BY <1>2, ZenonT(90)
<1> QED BY <1>1, <1>2

(* The other steps write an event, a signal, a ring or pending_events. *)
LEMMA EventSteps ==
  ASSUME RetirementInv, NEW t \in Threads,
         \/ EventFinished(t) \/ RecordSubmit(t) \/ SubmitFails(t) \/ ReplaceQueue(t)
         \/ QueueDelete(t) \/ EventDelete(t) \/ Unpin(t)
  PROVE  RetirementInv'
<1> USE DEF RetirementInv
<1>0. /\ TypeOK /\ th[t] \in ThreadStates /\ th \in [Threads -> ThreadStates]
      /\ lock \in Threads \cup {NoThread} /\ ev \in [Events -> EventStates]
      /\ live \in [Queues -> BOOLEAN] /\ left \in [Threads -> Budgets]
      /\ pe \in [Queues -> SUBSET [id : Nat, ev : Events \cup {NoEvent}]]
      /\ flight \in [Queues -> SUBSET Packets]
      /\ wpos \in [Queues -> Nat] /\ ring \in [Queues -> Int]
      /\ val \in [Events -> {0, 1}]
      /\ <<>> \in Seq(Labels)
  BY SMTT(60) DEF TypeOK
<1>1. /\ th[t].cq \in Queues \cup {NoQueue} /\ th[t].call \in Calls
      /\ th[t].call.e \in Events \cup {NoEvent} /\ th[t].call.scratch \in Nat
  BY <1>0, Zenon DEF ThreadStates, Calls
<1>2. CASE EventFinished(t)
  <2> DEFINE e == th[t].ce
             q == th[t].cq
  <2>1. /\ pe' = [pe EXCEPT ![q] = {x \in @ : x.ev # e}]
        /\ ev' = [ev EXCEPT ![e] = [@ EXCEPT !.pending = FALSE, !.completed = TRUE,
                                             !.rq = NoQueue]]
        /\ At(t, "event_finished") /\ Goto(t, <<>>)
        /\ UNCHANGED <<lock, flight, wpos, pd, pb, ring, live, val, left>>
    BY <1>2 DEF EventFinished
  <2> HIDE DEF e, q
  <2>2. pe' \in [Queues -> SUBSET [id : Nat, ev : Events \cup {NoEvent}]]
    BY <1>0, <2>1, Zenon
  <2>3. ev' \in [Events -> EventStates]
    BY <1>0, <2>1, EventWritten, Zenon
  <2>4. th' \in [Threads -> ThreadStates]
    BY <1>0, <2>1, GotoType, ZenonT(90)
  <2>5. TypeOK'
    BY <2>1, <2>2, <2>3, <2>4 DEF TypeOK
  <2> QED BY <2>1, <2>5, ListsUntouched
<1>3. CASE RecordSubmit(t)
  <2> DEFINE q == th[t].cq
             e == th[t].call.e
             id == wpos[q] + 1
             p == [pos |-> id, kind |-> "barrier", ret |-> id, deps |-> {}, ev |-> e,
                   bit |-> TRUE]
  <2>1. /\ wpos' = [wpos EXCEPT ![q] = id]
        /\ flight' = [flight EXCEPT ![q] = @ \cup {p}]
        /\ val' = [val EXCEPT ![e] = 1]
        /\ ev' = [ev EXCEPT ![e] = [@ EXCEPT !.pending = TRUE, !.completed = FALSE,
                                             !.rq = q]]
        /\ pe' = [pe EXCEPT ![q] = @ \cup {[id |-> id, ev |-> e]}]
        /\ Return(t)
        /\ UNCHANGED <<pd, pb, ring, live, left>>
    BY <1>3 DEF RecordSubmit
  <2>2. q \in Queues => id \in Nat
    BY <1>0
  <2>3. q \in Queues => {p} \subseteq Packets
    BY <1>1, <2>2, SMTT(60) DEF Packets
  <2>4. q \in Queues =>
          {[id |-> id, ev |-> e]} \subseteq [id : Nat, ev : Events \cup {NoEvent}]
    BY <1>1, <2>2, SMTT(60)
  <2>5. q \in Queues \cup {NoQueue}
    BY <1>1, Zenon
  <2> HIDE DEF q, e, id, p
  <2>6. flight' \in [Queues -> SUBSET Packets]
    BY <1>0, <2>1, <2>3, ListGrows, Zenon
  <2>7. pe' \in [Queues -> SUBSET [id : Nat, ev : Events \cup {NoEvent}]]
    <3> DEFINE S == [id : Nat, ev : Events \cup {NoEvent}]
               A == {[id |-> id, ev |-> e]}
    <3>1. /\ pe \in [Queues -> SUBSET S]
          /\ q \in Queues => A \subseteq S
          /\ pe' = [pe EXCEPT ![q] = @ \cup A]
      BY <1>0, <2>1, <2>4
    <3> HIDE DEF S, A
    <3>2. pe' \in [Queues -> SUBSET S]
      BY <3>1, ListGrows, Zenon
    <3> QED BY <3>2 DEF S
  <2>8. ev' \in [Events -> EventStates]
    BY <1>0, <2>1, <2>5, EventArmed, Zenon
  <2>9. wpos' \in [Queues -> Nat] /\ val' \in [Events -> {0, 1}]
    BY <1>0, <2>1, <2>2, Zenon
  <2>10. th' \in [Threads -> ThreadStates] /\ lock' \in Threads \cup {NoThread}
    BY <1>0, <2>1, ReturnType
  <2>11. TypeOK'
    BY <2>1, <2>6, <2>7, <2>8, <2>9, <2>10 DEF TypeOK
  <2> QED BY <2>1, <2>11, ListsUntouched
<1>4. CASE SubmitFails(t)
  <2>1. th' \in [Threads -> ThreadStates] /\ lock' \in Threads \cup {NoThread}
    BY <1>0, <1>4, ReturnType, Zenon DEF SubmitFails
  <2>2. val' \in [Events -> {0, 1}]
    BY <1>0, <1>4 DEF SubmitFails
  <2>3. UNCHANGED <<queueVars, live, ev, left>>
    BY <1>4 DEF SubmitFails
  <2>4. TypeOK'
    BY <2>1, <2>2, <2>3, Zenon DEF TypeOK, queueVars
  <2> QED BY <2>3, <2>4, ListsUntouched DEF queueVars
<1>5. CASE ReplaceQueue(t)
  <2>1. UNCHANGED <<flight, wpos, pd, pb, pe, live, val, left>>
    BY <1>5, SMTT(60) DEF ReplaceQueue
  <2>2. ring' \in [Queues -> Int]
    <3>a. ring \in [Queues -> Int]
      BY <1>0
    <3>b. th[t].call.scratch \in Int
      BY <1>1, SMTT(60)
    <3>c. NoRing \in Int
      BY SMTT(60) DEF NoRing
    <3>0. ring \in [Queues -> Int] /\ th[t].call.scratch \in Int /\ NoRing \in Int
      BY <3>a, <3>b, <3>c
    <3>1. [ring EXCEPT ![th[t].cq] = th[t].call.scratch] \in [Queues -> Int]
      BY <3>0, RingWritten
    <3>2. [ring EXCEPT ![th[t].cq] = NoRing] \in [Queues -> Int]
      BY <3>0, RingWritten
    <3> QED BY <1>0, <1>5, <3>1, <3>2, Zenon DEF ReplaceQueue
  <2>3. /\ th' \in [Threads -> ThreadStates] /\ lock' \in Threads \cup {NoThread}
        /\ ev' \in [Events -> EventStates]
    <3>1. CASE Goto(t, <<>>) /\ UNCHANGED <<lock, ev>>
      BY <1>0, <1>5, <3>1, GotoType, Zenon DEF ReplaceQueue
    <3>2. CASE Fail(t)
      BY <1>0, <3>2, FailType
    <3> QED BY <1>5, <3>1, <3>2, Zenon DEF ReplaceQueue
  <2>4. TypeOK'
    BY <2>1, <2>2, <2>3, Zenon DEF TypeOK
  <2> QED BY <2>1, <2>4, ListsUntouched
<1>6. CASE QueueDelete(t) \/ EventDelete(t) \/ Unpin(t)
  <2>1. Return(t) /\ UNCHANGED <<queueVars, val, left>>
    BY <1>6, Zenon DEF QueueDelete, EventDelete, Unpin
  <2>2. th' \in [Threads -> ThreadStates] /\ lock' \in Threads \cup {NoThread}
    BY <1>0, <2>1, ReturnType
  <2>3. live' \in [Queues -> BOOLEAN]
    BY <1>0, <1>6, ZenonT(90) DEF QueueDelete, EventDelete, Unpin
  <2>4. ev' \in [Events -> EventStates]
    <3>1. CASE QueueDelete(t)
      BY <1>0, <3>1, Zenon DEF QueueDelete
    <3>2. CASE EventDelete(t)
      BY <1>0, <3>2, EventWritten, Zenon DEF EventDelete
    <3>3. CASE Unpin(t)
      BY <1>0, <3>3, EventWritten, Zenon DEF Unpin
    <3> QED BY <1>6, <3>1, <3>2, <3>3
  <2>5. TypeOK'
    BY <1>0, <2>1, <2>2, <2>3, <2>4, ControlStep, SMTT(60)
  <2> QED BY <2>1, <2>5, ListsUntouched, SMTT(60) DEF queueVars
<1> QED BY <1>2, <1>3, <1>4, <1>5, <1>6

(* Entering a call *)
LEMMA InvokeStep ==
  ASSUME RetirementInv, NEW t \in Threads, Invoke(t)
  PROVE  RetirementInv'
<1> USE DEF RetirementInv
<1>0. /\ TypeOK /\ th \in [Threads -> ThreadStates]
      /\ lock \in Threads \cup {NoThread} /\ ev \in [Events -> EventStates]
      /\ live \in [Queues -> BOOLEAN] /\ left \in [Threads -> Budgets]
  BY Zenon DEF TypeOK
<1>1. SUFFICES /\ th' \in [Threads -> ThreadStates]
               /\ lock' \in Threads \cup {NoThread}
               /\ ev' \in [Events -> EventStates]
               /\ left' \in [Threads -> Budgets]
               /\ UNCHANGED <<queueVars, live, val>>
  BY <1>0, ControlStep, ListsUntouched DEF queueVars
<1>2. ASSUME NEW c \in left[t].calls PROVE c \in Calls
  BY <1>0, SMTT(60) DEF Budgets
<1>3. CASE Launch(t)
  <2>1. PICK c \in left[t].calls : Begin(t, c, {}, <<"launch">>)
    BY <1>3 DEF Launch
  <2>2. <<"launch">> \in Seq(Labels)
    BY DEF Labels
  <2> QED BY <1>0, <1>2, <1>3, <2>1, <2>2, BeginType, Zenon DEF Launch
<1>4. CASE QueueCall(t)
  <2>1. PICK c \in left[t].calls :
          Begin(t, c, {}, <<"sync", IF c.name = "queue_destroy" THEN "queue_delete"
                                    ELSE "return">>)
    BY <1>4, Zenon DEF QueueCall
  <2>2. <<"sync", IF c.name = "queue_destroy" THEN "queue_delete" ELSE "return">>
          \in Seq(Labels)
    BY SMTT(60) DEF Labels
  <2> QED BY <1>0, <1>2, <1>4, <2>1, <2>2, BeginType, ZenonT(90) DEF QueueCall
<1>5. CASE DeviceCall(t)
  <2>1. PICK c \in left[t].calls :
          Begin(t, c, {q \in Queues : live[q]}, <<"device", "return">>)
    BY <1>5, Zenon DEF DeviceCall
  <2>2. <<"device", "return">> \in Seq(Labels)
    BY DEF Labels
  <2> QED BY <1>0, <1>2, <1>5, <2>1, <2>2, BeginType, Zenon DEF DeviceCall
<1>6. CASE EventCall(t)
  <2> DEFINE last(c) == CASE c.name = "event_record" -> "record"
                          [] c.name = "event_destroy" -> "event_delete"
                          [] OTHER -> "launch"
  <2>1. PICK c \in left[t].calls :
          /\ Begin(t, c, {}, <<"synchronizers", "revalidate", "event_wait", "consumers",
                               last(c)>>)
          /\ ev' = [ev EXCEPT ![c.e].destroying = c.name = "event_destroy"]
    BY <1>6, Zenon DEF EventCall
  <2>2. last(c) \in Labels
    BY DEF Labels
  <2>3. UNCHANGED <<queueVars, live, val>>
    BY <1>6 DEF EventCall
  <2>4. ev' \in [Events -> EventStates]
    BY <1>0, <2>1, EventWritten, Zenon
  <2> HIDE DEF last
  <2>5. <<"synchronizers", "revalidate", "event_wait", "consumers", last(c)>>
          \in Seq(Labels)
    BY <2>2, SMTT(60) DEF Labels
  <2> QED BY <1>0, <1>2, <2>1, <2>3, <2>4, <2>5, BeginType, Zenon
<1>7. CASE EventSynchronize(t)
  <2>1. PICK c \in left[t].calls :
          /\ left[t].count > 0 /\ left' = [left EXCEPT ![t].count = @ - 1]
          /\ ev' = [ev EXCEPT ![c.e].syncs = @ \cup {t}]
          /\ th' = [th EXCEPT ![t] = [Idle EXCEPT !.call = c, !.ce = c.e,
                       !.k = <<"host_wait", "finish_event", "unpin">>]]
    BY <1>7, Zenon DEF EventSynchronize
  <2>2. UNCHANGED <<lock, queueVars, live, val>>
    BY <1>7 DEF EventSynchronize
  <2>3. <<"host_wait", "finish_event", "unpin">> \in Seq(Labels)
    BY DEF Labels
  <2>4. c \in Calls /\ c.e \in Events \cup {NoEvent}
    BY <1>2 DEF Calls
  <2>5. [Idle EXCEPT !.call = c, !.ce = c.e,
           !.k = <<"host_wait", "finish_event", "unpin">>] \in ThreadStates
    BY <2>3, <2>4, IdleType, Zenon DEF ThreadStates
  <2>6. th' \in [Threads -> ThreadStates]
    BY <1>0, <2>1, <2>5
  <2>7. ev' \in [Events -> EventStates]
    BY <1>0, <2>1, ZenonT(90) DEF EventStates
  <2>8. left' \in [Threads -> Budgets]
    BY <1>0, <2>1, BudgetSpent
  <2> QED BY <1>0, <2>2, <2>6, <2>7, <2>8, Zenon
<1> QED BY <1>3, <1>4, <1>5, <1>6, <1>7, Zenon DEF Invoke

LEMMA DeviceStep ==
  ASSUME RetirementInv, NEW q \in Queues, GpuComplete(q)
  PROVE  RetirementInv'
<1> USE DEF RetirementInv
<1>1. UNCHANGED <<lock, wpos, pd, pb, pe, ring, live, ev, th, left>>
  BY Zenon DEF GpuComplete
<1>2. flight' \in [Queues -> SUBSET Packets]
  BY DEF GpuComplete, TypeOK
<1>3. val' \in [Events -> {0, 1}]
  BY Zenon DEF GpuComplete, TypeOK
<1>4. TypeOK'
  BY <1>1, <1>2, <1>3, Zenon DEF TypeOK
<1> QED BY <1>1, <1>4, ListsUntouched

(* The inductive step, one group of actions at a time *)
LEMMA RetirementStep == RetirementInv /\ [Next]_vars => RetirementInv'
<1> SUFFICES ASSUME RetirementInv, [Next]_vars PROVE RetirementInv'
  OBVIOUS
<1>1. ASSUME NEW t \in Threads, Step(t) PROVE RetirementInv'
  BY <1>1, ControlSteps, RetireSteps, SubmitStep, EventSteps DEF Step
<1>2. ASSUME NEW t \in Threads, Invoke(t) PROVE RetirementInv'
  BY <1>2, InvokeStep
<1>3. ASSUME NEW q \in Queues, GpuComplete(q) PROVE RetirementInv'
  BY <1>3, DeviceStep
<1>4. CASE UNCHANGED vars
  BY <1>4, Zenon DEF vars, RetirementInv, TypeOK, NoDanglingRetirement
<1> QED BY <1>1, <1>2, <1>3, <1>4, Zenon DEF Next, Finished

(* The state of the hsakmt backend keeps its type: every step of every call *)
(* leaves queues, signals, events and threads in the shape the code gives   *)
(* them, whatever the threads call.                                         *)
THEOREM TypeCorrect == Spec => []TypeOK
<1>1. RetirementInv => TypeOK
  BY DEF RetirementInv
<1> QED BY <1>1, InitType, RetirementStep, PTL DEF Spec

(* reap_completed_light_rocr_dispatches_locked never frees a PendingDispatch *)
(* that the retirement_dispatch of a PendingBarrier still points at.        *)
THEOREM RetirementNeverDangles == Spec => []NoDanglingRetirement
<1>1. RetirementInv => NoDanglingRetirement
  BY DEF RetirementInv
<1> QED BY <1>1, InitType, RetirementStep, PTL DEF Spec
=============================================================================
