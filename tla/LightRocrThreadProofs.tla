----------------------- MODULE LightRocrThreadProofs ------------------------
(***************************************************************************)
(* A step of a thread of the hsakmt backend leaves that thread with what   *)
(* RingInv says of it (OwnSteps, from one lemma per group of routines),    *)
(* writes nothing another thread relies on (StepFrame, EventFrames), and so*)
(* leaves every thread with it (ThreadsKept).                              *)
(***************************************************************************)
EXTENDS LightRocrRing

(* Goto to the labels of a plain move *)
LEMMA PlainGoto ==
  ASSUME RingInv, NEW t \in Threads, NEW l \in Plain, At(t, l),
         NEW s \in {<<>>, Reap \o <<"capacity_check">>, <<"wait_front", "capacity">>,
                    <<"wait_front">> \o Reap \o <<"sync">>, <<"sync", "replace">>},
         Replaces(th[t].call.name, s, l), Goto(t, s),
         UNCHANGED <<lock, flight, live, val, ev, pb>>,
         l = "capacity" => s # <<>>,
         l = "capacity_check" /\ s = <<>> => HasRoom(th[t].cq, th[t].need),
         l = "sync" /\ s = <<>> => flight[th[t].cq] = {},
         l = "finish_event" => s = <<>> /\ ~ev[th[t].ce].pending
  PROVE  OwnInv(t)'
<1>1. s \in Seq(Labels) /\ l \notin LastLabels
  <2>1. <<"wait_front", "capacity">> \in Seq(Labels) /\ <<"sync", "replace">> \in Seq(Labels) /\ <<>> \in Seq(Labels)
    BY DEF Labels
  <2>2. l \notin LastLabels
    BY DEF Plain, LastLabels
  <2> QED BY <2>1, <2>2, PushTypes, Zenon
<1>2. Moved(t, l, s) /\ SameCall(t)
  BY <1>1, GotoMoves, Zenon
<1>3. /\ \A q \in Charged : ~Has(s, q)
      /\ s # <<>> => s[1] \in {"reap_barriers", "wait_front", "sync"}
  BY PlainPushes, Zenon
<1>4. \A q \in Queues : pb'[q] \subseteq pb[q]
  OBVIOUS
<1>5. CallInv(t)' /\ HeldInv(t)'
  BY <1>2, <1>3, <1>4, PlainMove, Zenon
<1> QED BY <1>5 DEF OwnInv

(* Waiting for the front of a queue, for room, for a drained queue and for more *)
(* scratch                                                                  *)
LEMMA PlainSteps ==
  ASSUME RingInv, NEW t \in Threads,
         \/ WaitFront(t) \/ EnsureCapacity(t) \/ CheckCapacity(t) \/ SynchronizeQueue(t)
         \/ EnsureScratch(t) \/ ReplaceQueue(t)
  PROVE  OwnInv(t)'
<1> DEFINE name == th[t].call.name
<1>1. ASSUME NEW l, At(t, l) PROVE Serves(name, l) /\ (l \in QueueLabels => th[t].cq \in Queues)
  BY <1>1, Runs
<1> HIDE DEF name
<1>2. CASE WaitFront(t)
  <2>1. At(t, "wait_front") /\ Goto(t, <<>>) /\ UNCHANGED <<lock, flight, live, val, ev, pb>>
    BY <1>2 DEF WaitFront, queueVars
  <2> QED BY <2>1, PlainGoto, EmptyReplaces DEF Plain
<1>3. CASE EnsureCapacity(t)
  <2>1. At(t, "capacity") /\ UNCHANGED <<flight, live, val, pb>>
    BY <1>3 DEF EnsureCapacity, queueVars
  <2>2. CASE Fail(t)
    BY <2>2, FailEnds
  <2>3. CASE Goto(t, Reap \o <<"capacity_check">>) /\ UNCHANGED <<lock, ev>>
    <3>1. Replaces(th[t].call.name, Reap \o <<"capacity_check">>, "capacity")
      BY <1>1, <2>1, PushedStacks DEF name
    <3>2. Reap \o <<"capacity_check">> # <<>>
      BY DEF Reap, ReapDispatches
    <3> QED BY <2>1, <2>3, <3>1, <3>2, PlainGoto, Zenon DEF Plain
  <2> QED BY <1>3, <2>2, <2>3, Zenon DEF EnsureCapacity
<1>4. CASE CheckCapacity(t)
  <2>1. At(t, "capacity_check") /\ UNCHANGED <<flight, live, val, pb>>
    BY <1>4 DEF CheckCapacity, queueVars
  <2>2. CASE Fail(t)
    BY <2>2, FailEnds
  <2>3. CASE Goto(t, <<"wait_front", "capacity">>) /\ UNCHANGED <<lock, ev>>
    <3>1. Replaces(th[t].call.name, <<"wait_front", "capacity">>, "capacity_check")
      BY <1>1, <2>1, PushedStacks DEF name
    <3> QED BY <2>1, <2>3, <3>1, PlainGoto, Zenon DEF Plain
  <2>4. CASE HasRoom(th[t].cq, th[t].need) /\ Goto(t, <<>>) /\ UNCHANGED <<lock, ev>>
    BY <2>1, <2>4, PlainGoto, EmptyReplaces, Zenon DEF Plain
  <2> QED BY <1>4, <2>2, <2>3, <2>4, Zenon DEF CheckCapacity
<1>5. CASE SynchronizeQueue(t)
  <2>1. At(t, "sync") /\ UNCHANGED <<flight, live, val, pb>>
    BY <1>5 DEF SynchronizeQueue, queueVars
  <2>2. CASE Fail(t)
    BY <2>2, FailEnds
  <2>3. CASE Goto(t, <<"wait_front">> \o Reap \o <<"sync">>) /\ UNCHANGED <<lock, ev>>
    <3>1. Replaces(th[t].call.name, <<"wait_front">> \o Reap \o <<"sync">>, "sync")
      BY <1>1, <2>1, PushedStacks DEF name
    <3>2. <<"wait_front">> \o Reap \o <<"sync">> # <<>>
      BY DEF Reap, ReapDispatches
    <3> QED BY <2>1, <2>3, <3>1, <3>2, PlainGoto, Zenon DEF Plain
  <2>4. CASE /\ pd[th[t].cq] = {} /\ pe[th[t].cq] = {} /\ pb[th[t].cq] = {}
             /\ Goto(t, <<>>) /\ UNCHANGED <<lock, ev>>
    <3>1. th[t].cq \in Queues
      BY <1>1, <2>1 DEF QueueLabels
    <3>2. flight[th[t].cq] = {}
      BY <2>4, <3>1, DrainedIdle
    <3> QED BY <2>1, <2>4, <3>2, PlainGoto, EmptyReplaces DEF Plain
  <2> QED BY <1>5, <2>2, <2>3, <2>4, Zenon DEF SynchronizeQueue
<1>6. CASE EnsureScratch(t)
  <2>1. At(t, "scratch") /\ UNCHANGED <<flight, live, val, pb>>
    BY <1>6 DEF EnsureScratch, queueVars
  <2>2. CASE Fail(t)
    BY <2>2, FailEnds
  <2>3. CASE Goto(t, <<"sync", "replace">>) /\ UNCHANGED <<lock, ev>>
    <3>1. Replaces(th[t].call.name, <<"sync", "replace">>, "scratch")
      BY <1>1, <2>1, PushedStacks DEF name
    <3> QED BY <2>1, <2>3, <3>1, PlainGoto, Zenon DEF Plain
  <2>4. CASE Goto(t, <<>>) /\ UNCHANGED <<lock, ev>>
    BY <2>1, <2>4, PlainGoto, EmptyReplaces DEF Plain
  <2> QED BY <1>6, <2>2, <2>3, <2>4, Zenon DEF EnsureScratch
<1>7. CASE ReplaceQueue(t)
  <2>1. At(t, "replace") /\ UNCHANGED <<flight, live, val, pb>>
    BY <1>7, Zenon DEF ReplaceQueue
  <2>2. CASE Fail(t)
    BY <2>2, FailEnds
  <2>4. CASE Goto(t, <<>>) /\ UNCHANGED <<lock, ev>>
    BY <2>1, <2>4, PlainGoto, EmptyReplaces, Zenon DEF Plain
  <2> QED BY <1>7, <2>2, <2>4, Zenon DEF ReplaceQueue
<1> QED BY <1>2, <1>3, <1>4, <1>5, <1>6, <1>7

(* The steps of a reap pass *)
LEMMA RetireMoves ==
  ASSUME RingInv, NEW t \in Threads,
         ReapBarriers(t) \/ ReapDispatch(t) \/ ReapEvents(t)
  PROVE  OwnInv(t)'
<1>0. th \in [Threads -> ThreadStates] /\ th[t] \in ThreadStates
      /\ pb \in [Queues -> SUBSET [ret : Nat, deps : SUBSET Events]]
      /\ pe \in [Queues -> SUBSET [id : Nat, ev : Events \cup {NoEvent}]]
  BY DEF RingInv, TypeOK
<1>1. CASE ReapBarriers(t)
  <2>1. At(t, "reap_barriers") /\ UNCHANGED <<lock, flight, live, val, ev>>
    BY <1>1, Zenon DEF ReapBarriers
  <2>2. PICK q \in Queues :
          \/ th' = [th EXCEPT ![t].k = Tail(@), ![t].seen = {}] /\ pb' = pb
          \/ \E b \in pb[q] :
               \/ th' = [th EXCEPT ![t].seen = @ \cup {b}] /\ pb' = pb
               \/ pb' = [pb EXCEPT ![q] = @ \ {b}] /\ th' = th
    BY <1>1, Zenon DEF ReapBarriers
  <2>3. \A p \in Queues : pb'[p] \subseteq pb[p]
    BY <1>0, <2>2
  <2>4. CASE th' = [th EXCEPT ![t].k = Tail(@), ![t].seen = {}]
    <3>1. th'[t] = [th[t] EXCEPT !.k = Tail(@), !.seen = {}]
      BY <1>0, <2>4, Zenon
    <3>2. th'[t].k = Tail(th[t].k) /\ SameCall(t)
      BY <1>0, <3>1 DEF ThreadStates, SameCall
    <3>3. Tail(th[t].k) = <<>> \o Tail(th[t].k)
      BY <2>1, Runs, StackTail
    <3>4. Moved(t, "reap_barriers", <<>>)
      BY <2>1, <3>2, <3>3, Moves, EmptyReplaces, Zenon DEF LastLabels
    <3>5. CallInv(t)' /\ HeldInv(t)'
      BY <2>1, <2>3, <3>2, <3>4, PlainMove, PlainPushes DEF Plain
    <3> QED BY <3>5 DEF OwnInv
  <2>5. ASSUME NEW b \in pb[q], th' = [th EXCEPT ![t].seen = @ \cup {b}] \/ th' = th
        PROVE  OwnInv(t)'
    <3>1. th'[t].k = th[t].k /\ SameCall(t)
      <4>1. CASE th' = th
        BY <4>1 DEF SameCall
      <4>2. CASE th' = [th EXCEPT ![t].seen = @ \cup {b}]
        <5>1. th'[t] = [th[t] EXCEPT !.seen = @ \cup {b}]
          BY <1>0, <4>2, Zenon
        <5> QED BY <1>0, <5>1 DEF ThreadStates, SameCall
      <4> QED BY <2>5, <4>1, <4>2
    <3> QED BY <2>1, <2>3, <3>1, Stays DEF Unlocked
  <2> QED BY <2>2, <2>4, <2>5, Zenon
<1>2. CASE ReapDispatch(t)
  <2>1. At(t, "reap_dispatches") /\ UNCHANGED <<lock, flight, live, val, ev, pb>>
    BY <1>2 DEF ReapDispatch
  <2>2. CASE Goto(t, <<>>)
    BY <2>1, <2>2, PlainGoto, EmptyReplaces DEF Plain
  <2>3. CASE th' = th
    <3>1. th'[t].k = th[t].k /\ SameCall(t) /\ \A q \in Queues : pb'[q] \subseteq pb[q]
      BY <2>1, <2>3 DEF SameCall
    <3> QED BY <2>1, <3>1, Stays DEF Unlocked
  <2> QED BY <1>2, <2>2, <2>3, Zenon DEF ReapDispatch
<1>3. CASE ReapEvents(t)
  <2>1. At(t, "reap_events") /\ UNCHANGED <<lock, flight, live, val, ev, pb>>
    BY <1>3, Zenon DEF ReapEvents, queueVars
  <2>2. PICK q \in Queues :
          /\ q = th[t].cq
          /\ \/ Goto(t, <<>>)
             \/ \E x \in pe[q] : val[x.ev] = 0 /\
                  th' = [th EXCEPT ![t].ce = x.ev, ![t].k = <<"finish_event">> \o @]
    BY <1>3, Zenon DEF ReapEvents, Oldest
  <2>3. CASE Goto(t, <<>>)
    BY <2>1, <2>3, PlainGoto, EmptyReplaces, Zenon DEF Plain
  <2>4. ASSUME NEW x \in pe[q], val[x.ev] = 0,
               th' = [th EXCEPT ![t].ce = x.ev, ![t].k = <<"finish_event">> \o @]
        PROVE  OwnInv(t)'
    <3> DEFINE s == <<"finish_event", "reap_events">>
               y == th'[t]
    <3>0. /\ th[t].k \in Seq(Labels) /\ th[t].k # <<>> /\ Head(th[t].k) = "reap_events" /\ lock = t
          /\ FinishInv(t) /\ QuiesceInv(t) /\ SubmitInv(t) /\ DrainInv(t)
          /\ Serves(th[t].call.name, "reap_events") /\ Stacked(th[t].call.name, th[t].k)
      BY <2>1, Runs DEF Unlocked
    <3>1. /\ x.ev \in Events /\ ev[x.ev].pending /\ ev[x.ev].rq = q
      BY DEF RingInv, SharedInv, ListInv
    <3>2. y = [th[t] EXCEPT !.ce = x.ev, !.k = <<"finish_event">> \o @]
      BY <1>0, <2>4, Zenon
    <3>3. /\ y.k = <<"finish_event">> \o th[t].k /\ y.ce = x.ev
          /\ y.call = th[t].call /\ y.cq = th[t].cq /\ y.deps = th[t].deps
          /\ y.need = th[t].need /\ y.todo = th[t].todo /\ y.quiet = th[t].quiet
      BY <1>0, <3>2 DEF ThreadStates
    <3>4. <<"finish_event">> \o th[t].k = s \o Tail(th[t].k)
      <4>1. ASSUME NEW k \in Seq(Labels), k # <<>>, Head(k) = "reap_events"
            PROVE  <<"finish_event">> \o k = s \o Tail(k)
        BY <4>1
      <4> QED BY <3>0, <4>1
    <3>5. Moved(t, "reap_events", s)
      <4>1. s \in Seq(Labels) /\ "reap_events" \notin LastLabels
        BY DEF Labels, LastLabels
      <4>2. Replaces(th[t].call.name, s, "reap_events")
        BY <3>0, PushedStacks
      <4> QED BY <2>1, <3>3, <3>4, <4>1, <4>2, Moves, Zenon
    <3>6. /\ y.k # <<>> /\ Head(y.k) = "finish_event"
          /\ \A a : Has(y.k, a) => a = "finish_event" \/ a = "reap_events" \/ Has(th[t].k, a)
          /\ \A a : Has(th[t].k, a) /\ a # "reap_events" => Has(y.k, a)
      <4>1. s # <<>> /\ s[1] = "finish_event" /\ \A a : Has(s, a) => a = "finish_event" \/ a = "reap_events"
        BY DEF Has
      <4> QED BY <3>5, <4>1, Zenon DEF Moved
    <3>7. ~Has(th[t].k, "event_finished") /\ ~Has(th[t].k, "finish_event")
      BY <3>0, NoInner DEF Rank
    <3>i. /\ Head(th[t].k) = "reap_events" /\ val[x.ev] = 0
          /\ FinishInv(t) /\ QuiesceInv(t) /\ SubmitInv(t) /\ DrainInv(t)
      BY <2>4, <3>0
    <3>h. /\ ~Has(y.k, "event_finished") /\ Head(y.k) = "finish_event"
          /\ \A a \in Charged : Has(y.k, a) /\ a # "finish_event" => Has(th[t].k, a)
      BY <3>6, <3>7 DEF Charged
    <3>8. FinishInv(t)'
      BY <2>1, <2>2, <3>i, <3>1, <3>3, <3>h, SMTT(30) DEF FinishInv
    <3> HIDE DEF s, y
    <3>9. QuiesceInv(t)'
      BY <2>1, <3>i, <3>3, <3>h, <3>7, Zenon DEF QuiesceInv, Settled, dependency_queues, y
    <3>10. SubmitInv(t)' /\ DrainInv(t)'
      BY <2>1, <3>i, <3>3, <3>h, Zenon DEF SubmitInv, DrainInv, Charged, barrier_count, HasRoom, y
    <3>11. CallInv(t)'
      <4>1. "finish_event" \notin Waiting
        BY DEF Waiting, Unlocked
      <4>2. th'[t].cq \in Queues /\ lock' = t
        BY <2>1, <2>2, <3>0, <3>3, Zenon DEF y
      <4>3. \A e \in Events : /\ ev'[e].live = ev[e].live /\ ev'[e].syncs = ev[e].syncs
                              /\ ev'[e].destroying = ev[e].destroying
        BY <2>1
      <4> QED BY <2>1, <3>3, <3>5, <3>6, <4>1, <4>2, <4>3, MoveCall, Zenon DEF y
    <3> QED BY <3>6, <3>8, <3>9, <3>10, <3>11 DEF OwnInv, HeldInv, Unlocked, y
  <2> QED BY <2>2, <2>3, <2>4, Zenon
<1> QED BY <1>1, <1>2, <1>3

(* Finishing an event: its signal is 0 and it is on the list of its queue. *)
LEMMA FinishMoves ==
  ASSUME RingInv, NEW t \in Threads, FinishEvent(t) \/ EventFinished(t)
  PROVE  OwnInv(t)'
<1>0. th \in [Threads -> ThreadStates] /\ th[t] \in ThreadStates
      /\ ev \in [Events -> EventStates]
  BY DEF RingInv, TypeOK
<1>1. CASE FinishEvent(t)
  <2>1. At(t, "finish_event") /\ UNCHANGED <<lock, flight, live, val, ev, pb>>
    BY <1>1 DEF FinishEvent, queueVars
  <2>2. CASE ~ev[th[t].ce].pending /\ Goto(t, <<>>)
    BY <2>1, <2>2, PlainGoto, EmptyReplaces, Zenon DEF Plain
  <2>3. ASSUME NEW q \in Queues, ev[th[t].ce].pending, q = ev[th[t].ce].rq,
               th' = [th EXCEPT ![t].cq = q,
                        ![t].k = Then(t, ReapDispatches \o <<"event_finished">>)]
        PROVE  OwnInv(t)'
    <3> DEFINE s == ReapDispatches \o <<"event_finished">>
               y == th'[t]
    <3>0. /\ lock = t /\ Serves(th[t].call.name, "finish_event")
          /\ Head(th[t].k) = "finish_event"
          /\ FinishInv(t) /\ QuiesceInv(t) /\ SubmitInv(t) /\ DrainInv(t)
      BY <2>1, Runs DEF Unlocked
    <3>1. y = [th[t] EXCEPT !.cq = q, !.k = s \o Tail(th[t].k)]
      BY <1>0, <2>3, Zenon DEF Then
    <3>2. /\ y.k = s \o Tail(th[t].k) /\ y.cq = q /\ y.ce = th[t].ce
          /\ y.call = th[t].call /\ y.deps = th[t].deps
          /\ y.need = th[t].need /\ y.todo = th[t].todo /\ y.quiet = th[t].quiet
      <4> HIDE DEF s
      <4> QED BY <1>0, <3>1 DEF ThreadStates
    <3>3. s \in Seq(Labels) /\ "finish_event" \notin LastLabels
          /\ Replaces(th[t].call.name, s, "finish_event")
      BY <3>0, PushTypes, PushedStacks DEF LastLabels
    <3>4. Moved(t, "finish_event", s)
      BY <2>1, <3>2, <3>3, Moves, Zenon
    <3>5. /\ s # <<>> /\ s[1] = "reap_barriers" /\ Has(s, "event_finished")
          /\ ~Has(s, "submit") /\ ~Has(s, "record_submit")
      <4>1. Len(s) = 3 /\ s[1] = "reap_barriers" /\ s[2] = "reap_dispatches" /\ s[3] = "event_finished"
        BY DEF ReapDispatches
      <4> HIDE DEF s
      <4>2. s # <<>>
        BY <4>1
      <4> QED BY <4>1, <4>2 DEF Has
    <3>6. /\ y.k # <<>> /\ Head(y.k) = "reap_barriers" /\ Has(y.k, "event_finished")
          /\ Has(y.k, "submit") => Has(th[t].k, "submit")
          /\ Has(y.k, "record_submit") => Has(th[t].k, "record_submit")
      <4> HIDE DEF s
      <4> QED BY <3>4, <3>5, Zenon DEF Moved
    <3> HIDE DEF s
    <3>7. /\ th[t].ce \in Events /\ val[th[t].ce] = 0
          /\ th[t].call.name = "synchronize" => q = th[t].cq
      BY <2>3, <3>0, Zenon DEF FinishInv
    <3>q. ev[th[t].ce].pending /\ q = ev[th[t].ce].rq
      BY <2>3
    <3>8. FinishInv(t)'
      BY <2>1, <3>2, <3>6, <3>7, <3>q, Zenon DEF FinishInv
    <3>9. QuiesceInv(t)'
      BY <2>1, <3>0, <3>2, <3>6, Zenon DEF QuiesceInv, Settled, dependency_queues
    <3>10. SubmitInv(t)'
      BY <2>1, <3>0, <3>2, <3>6, Zenon DEF SubmitInv, barrier_count
    <3>11. DrainInv(t)'
      BY <2>1, <3>0, <3>2, <3>6, <3>7, Zenon DEF DrainInv
    <3>12. CallInv(t)'
      <4>1. "reap_barriers" \notin Waiting
        BY DEF Waiting, Unlocked
      <4>2. th'[t].cq \in Queues /\ lock' = t
        BY <2>1, <3>0, <3>2, Zenon
      <4>3. \A e \in Events : /\ ev'[e].live = ev[e].live /\ ev'[e].syncs = ev[e].syncs
                              /\ ev'[e].destroying = ev[e].destroying
        BY <2>1
      <4> QED BY <2>1, <3>2, <3>4, <3>6, <4>1, <4>2, <4>3, MoveCall, Zenon
    <3> QED BY <3>6, <3>8, <3>9, <3>10, <3>11, <3>12 DEF OwnInv, HeldInv, Unlocked
  <2> QED BY <1>1, <2>2, <2>3, Zenon DEF FinishEvent
<1>2. CASE EventFinished(t)
  <2> DEFINE e == th[t].ce
             y == th'[t]
  <2>1. /\ At(t, "event_finished") /\ Goto(t, <<>>)
        /\ UNCHANGED <<lock, flight, live, val, pb>>
        /\ ev' = [ev EXCEPT ![e] = [@ EXCEPT !.pending = FALSE, !.completed = TRUE,
                                             !.rq = NoQueue]]
    BY <1>2 DEF EventFinished
  <2>2. /\ lock = t /\ Serves(th[t].call.name, "event_finished")
        /\ Head(th[t].k) = "event_finished" /\ Has(th[t].k, "event_finished")
        /\ FinishInv(t) /\ QuiesceInv(t) /\ SubmitInv(t) /\ DrainInv(t)
    BY <2>1, Runs DEF Unlocked
  <2>3. e \in Events
    BY <2>2 DEF FinishInv
  <2>4. /\ \A f \in Events : /\ ev'[f].live = ev[f].live /\ ev'[f].syncs = ev[f].syncs
                             /\ ev'[f].destroying = ev[f].destroying
                             /\ ev'[f].pending => ev[f].pending /\ f # e
    <3>1. \A f \in Events : f # e => ev'[f] = ev[f]
      BY <1>0, <2>1, Zenon
    <3>2. ev'[e] = [ev[e] EXCEPT !.pending = FALSE, !.completed = TRUE, !.rq = NoQueue]
      BY <1>0, <2>1, <2>3, Zenon
    <3>3. ev[e] \in EventStates
      BY <1>0, <2>3
    <3>4. /\ ev'[e].live = ev[e].live /\ ev'[e].syncs = ev[e].syncs
          /\ ev'[e].destroying = ev[e].destroying /\ ev'[e].pending = FALSE
      BY <3>2, <3>3 DEF EventStates
    <3> QED BY <3>1, <3>4
  <2>5. Moved(t, "event_finished", <<>>) /\ SameCall(t)
    BY <2>1, GotoMoves, EmptyReplaces, Zenon DEF LastLabels
  <2>6. /\ y.k # <<>> /\ y.k \in Seq(Labels) /\ Stacked(th[t].call.name, y.k)
        /\ Above(th[t].call.name, "event_finished", Head(y.k)) /\ Head(y.k) \in Labels
        /\ \A a : Has(y.k, a) => Has(<<>>, a) \/ Has(th[t].k, a)
    BY <2>5, Zenon DEF Moved
  <2>7. Head(y.k) \in {"reap_events", "unpin", "consumers"}
    BY <2>6 DEF Above, Labels
  <2>8. ~Has(y.k, "event_finished")
    BY <2>6, <2>7, NoInner DEF Rank
  <2>h. \A a : ~Has(<<>>, a)
    BY DEF Has
  <2>9. \A a : Has(y.k, a) => Has(th[t].k, a)
    BY <2>6, <2>h, Zenon
  <2>10. /\ y.call = th[t].call /\ y.cq = th[t].cq /\ y.ce = th[t].ce /\ y.deps = th[t].deps
         /\ y.need = th[t].need /\ y.todo = th[t].todo /\ y.quiet = th[t].quiet
    BY <2>5 DEF SameCall
  <2>w. th[t].call.name \in RearmCalls => th[t].call.e \in Events
    BY <2>1, Runs DEF WellFormed, RearmCalls
  <2>e. /\ th[t].call.name \in RearmCalls =>
             /\ ev'[th[t].call.e].syncs = {} /\ ~ev'[th[t].call.e].pending
        /\ th[t].quiet => Settled(th[t].call.e)'
    <3>1. th[t].call.name \in RearmCalls =>
            /\ ev[th[t].call.e].syncs = {} 
            /\ ev[th[t].call.e].pending => th[t].call.e = e
      BY <2>2, Zenon DEF QuiesceInv
    <3>2. th[t].quiet => th[t].call.name \in RearmCalls /\ Settled(th[t].call.e)
      BY <2>2, Zenon DEF QuiesceInv
    <3>3. th[t].call.name \in RearmCalls =>
             /\ ev'[th[t].call.e].syncs = {} /\ ~ev'[th[t].call.e].pending
      BY <2>4, <2>w, <3>1, Zenon
    <3> QED BY <2>1, <2>10, <2>w, <3>2, <3>3, Zenon DEF Settled, dependency_queues
  <2> HIDE DEF e, y
  <2>11. FinishInv(t)'
    BY <2>7, <2>8 DEF FinishInv, y
  <2>12. QuiesceInv(t)'
    BY <2>2, <2>7, <2>10, <2>e, Zenon DEF QuiesceInv, y
  <2>13. SubmitInv(t)'
    BY <2>1, <2>2, <2>7, <2>9, <2>10, SMTT(30) DEF SubmitInv, barrier_count, y
  <2>14. DrainInv(t)'
    BY <2>1, <2>2, <2>7, <2>10, SMTT(30) DEF DrainInv, y
  <2>15. CallInv(t)'
    <3>1. Head(y.k) \notin Waiting
      BY <2>7 DEF Waiting, Unlocked
    <3>2. \A q \in QueueLabels : ~Has(<<>>, q)
      BY DEF Has
    <3>3. lock' = t
      BY <2>1, <2>2
    <3> QED BY <2>1, <2>4, <2>5, <2>10, <3>1, <3>2, <3>3, MoveCall, Zenon DEF y
  <2> QED BY <2>6, <2>7, <2>11, <2>12, <2>13, <2>14, <2>15, Zenon DEF OwnInv, HeldInv, Unlocked, y
<1> QED BY <1>1, <1>2

(* lr_synchronize goes from queue to queue; a queue it has drained stays drained. *)
LEMMA DeviceMoves ==
  ASSUME RingInv, NEW t \in Threads, SynchronizeDevice(t)
  PROVE  OwnInv(t)'
<1> DEFINE y == th'[t]
<1>0. th \in [Threads -> ThreadStates] /\ th[t] \in ThreadStates
  BY DEF RingInv, TypeOK
<1>1. At(t, "device") /\ UNCHANGED <<lock, flight, live, val, ev, pb>>
  BY Zenon DEF SynchronizeDevice, queueVars
<1>2. /\ lock = t /\ Serves(th[t].call.name, "device") /\ Head(th[t].k) = "device"
      /\ th[t].k \in Seq(Labels) /\ th[t].k # <<>> /\ Stacked(th[t].call.name, th[t].k)
  BY <1>1, Runs DEF Unlocked
<1>i. /\ FinishInv(t) /\ QuiesceInv(t) /\ SubmitInv(t) /\ DrainInv(t) /\ Head(th[t].k) = "device"
  BY <1>1, Runs DEF Unlocked
<1>3. ~Has(th[t].k, "event_finished")
  BY <1>2, NoInner DEF Rank
<1>n. th[t].call.name = "synchronize"
  BY <1>2 DEF Serves
<1>4. ASSUME NEW s, Moved(t, "device", s), y.call = th[t].call, y.quiet = th[t].quiet,
             y.deps = th[t].deps, y.need = th[t].need,
             y.cq = th[t].cq \/ y.cq \in Queues,
             \A q \in QueueLabels : Has(s, q) => y.cq \in Queues,
             \A a \in Charged : ~Has(s, a), Head(y.k) \in {"return", "sync"},
             DrainInv(t)'
      PROVE  OwnInv(t)'
  <2>1. y.k # <<>> /\ \A a : Has(y.k, a) => Has(s, a) \/ Has(th[t].k, a)
    BY <1>4, Zenon DEF Moved
  <2>2. \A a \in Charged : Has(y.k, a) => Has(th[t].k, a)
    BY <1>4, <2>1, Zenon
  <2> HIDE DEF y
  <2>3. FinishInv(t)'
    BY <1>3, <1>4, <2>2, Zenon DEF FinishInv, Charged, y
  <2>4. QuiesceInv(t)'
    BY <1>1, <1>i, <1>n, <1>4, Zenon DEF QuiesceInv, Settled, dependency_queues, RearmCalls, y
  <2>5. SubmitInv(t)'
    BY <1>i, <1>4, <2>2, Zenon DEF SubmitInv, Charged, barrier_count, y
  <2>6. CallInv(t)'
    <3>1. Head(y.k) \notin Waiting
      BY <1>4 DEF Waiting, Unlocked
    <3>2. \A e \in Events : /\ ev'[e].live = ev[e].live /\ ev'[e].syncs = ev[e].syncs
                            /\ ev'[e].destroying = ev[e].destroying
      BY <1>1
    <3>3. lock' = t
      BY <1>1, <1>2
    <3> QED BY <1>1, <1>4, <3>1, <3>2, <3>3, MoveCall, Zenon DEF y
  <2> QED BY <1>4, <2>1, <2>3, <2>4, <2>5, <2>6, Zenon DEF OwnInv, HeldInv, Unlocked, y
<1>5. CASE th[t].todo = {} /\ Goto(t, <<>>)
  <2>1. Moved(t, "device", <<>>) /\ SameCall(t)
    BY <1>1, <1>5, GotoMoves, EmptyReplaces, Zenon DEF LastLabels
  <2>2. Above(th[t].call.name, "device", Head(y.k)) /\ Head(y.k) \in Labels
    BY <2>1, Zenon DEF Moved
  <2>3. Head(y.k) = "return"
    BY <2>2 DEF Above, Labels
  <2>4. y.todo = {} /\ y.call = th[t].call
    BY <1>5, <2>1 DEF SameCall
  <2>5. DrainInv(t)'
    BY <1>1, <1>i, <1>5, <1>n, <2>3, <2>4, Zenon DEF DrainInv
  <2>6. \A a : ~Has(<<>>, a)
    BY DEF Has
  <2> QED BY <1>4, <2>1, <2>3, <2>5, <2>6, Zenon DEF SameCall
<1>6. ASSUME NEW q \in th[t].todo,
             th' = [th EXCEPT ![t].todo = @ \ {q}, ![t].cq = q, ![t].k = <<"sync">> \o @]
      PROVE  OwnInv(t)'
  <2> DEFINE s == <<"sync", "device">>
  <2>0. q \in Queues
    BY <1>0 DEF ThreadStates
  <2>1. y = [th[t] EXCEPT !.todo = @ \ {q}, !.cq = q, !.k = <<"sync">> \o @]
    BY <1>0, <1>6, Zenon
  <2>2. /\ y.k = <<"sync">> \o th[t].k /\ y.cq = q
        /\ y.call = th[t].call /\ y.deps = th[t].deps
        /\ y.need = th[t].need /\ y.todo = th[t].todo \ {q} /\ y.quiet = th[t].quiet
    BY <1>0, <2>1 DEF ThreadStates
  <2>3. <<"sync">> \o th[t].k = s \o Tail(th[t].k)
    <3>1. ASSUME NEW k \in Seq(Labels), k # <<>>, Head(k) = "device"
          PROVE  <<"sync">> \o k = s \o Tail(k)
      BY <3>1
    <3> QED BY <1>2, <3>1
  <2>4. s \in Seq(Labels) /\ "device" \notin LastLabels
        /\ Replaces(th[t].call.name, s, "device")
    BY <1>2, PushedStacks DEF Labels, LastLabels
  <2>5. Moved(t, "device", s)
    BY <1>1, <2>2, <2>3, <2>4, Moves, Zenon
  <2>6. s # <<>> /\ s[1] = "sync" /\ \A a \in Charged : ~Has(s, a)
    BY DEF Has, Charged
  <2> HIDE DEF s
  <2>7. Head(y.k) = "sync"
    BY <2>5, <2>6, Zenon DEF Moved
  <2>8. DrainInv(t)'
    BY <1>1, <1>i, <1>n, <2>2, <2>7, Zenon DEF DrainInv
  <2> QED BY <1>4, <2>0, <2>2, <2>5, <2>6, <2>7, <2>8, Zenon
<1> QED BY <1>5, <1>6, Zenon DEF SynchronizeDevice

(* A step that keeps the lock and proves the four parts keeps the invariant. *)
LEMMA MoveHeld ==
  ASSUME RingInv, NEW t \in Threads, NEW l, At(t, l), NEW s, Moved(t, l, s),
         lock' = t, ev' = ev, th'[t].call = th[t].call,
         \A q \in QueueLabels : Has(s, q) => th'[t].cq \in Queues,
         th'[t].cq = th[t].cq \/ th'[t].cq \in Queues,
         Head(th'[t].k) \notin Waiting,
         FinishInv(t)', QuiesceInv(t)', SubmitInv(t)', DrainInv(t)'
  PROVE  OwnInv(t)'
<1>1. \A e \in Events : /\ ev'[e].live = ev[e].live /\ ev'[e].syncs = ev[e].syncs
                        /\ ev'[e].destroying = ev[e].destroying
  OBVIOUS
<1>2. CallInv(t)'
  BY <1>1, MoveCall, Zenon
<1>3. th'[t].k # <<>>
  BY Zenon DEF Moved
<1> QED BY <1>2, <1>3, Zenon DEF OwnInv, HeldInv, Waiting

(* Making an event quiescent: the wait for its recorded work *)
LEMMA EventMoves ==
  ASSUME RingInv, NEW t \in Threads, WaitForEvent(t) \/ Revalidate(t)
  PROVE  OwnInv(t)'
<1> DEFINE y == th'[t]
           e == th[t].call.e
<1>0. th \in [Threads -> ThreadStates] /\ th[t] \in ThreadStates
  BY DEF RingInv, TypeOK
<1>e. \A a : ~Has(<<>>, a)
  BY DEF Has
<1>1. CASE WaitForEvent(t)
  <2> DEFINE s == IF ev[e].pending THEN <<"finish_event">> ELSE <<>>
  <2>1. /\ At(t, "event_wait") /\ UNCHANGED <<lock, flight, live, val, ev, pb>>
        /\ ev[e].pending => val[e] = 0
    BY <1>1, Zenon DEF WaitForEvent, queueVars
  <2>t. th' = [th EXCEPT ![t].ce = e, ![t].k = s \o Tail(th[t].k)]
    BY <1>1, Zenon DEF WaitForEvent, Then
  <2>2. /\ lock = t /\ Serves(th[t].call.name, "event_wait")
        /\ th[t].k \in Seq(Labels) /\ th[t].k # <<>> /\ Stacked(th[t].call.name, th[t].k)
        /\ Head(th[t].k) = "event_wait" /\ WellFormed(th[t].call)
    BY <2>1, Runs DEF Unlocked
  <2>i. /\ FinishInv(t) /\ QuiesceInv(t) /\ SubmitInv(t) /\ DrainInv(t)
        /\ Head(th[t].k) = "event_wait"
    BY <2>1, Runs DEF Unlocked
  <2>3. ~Has(th[t].k, "event_finished") /\ th[t].call.name \in RearmCalls /\ e \in Events
    <3>1. ~Has(th[t].k, "event_finished")
      BY <2>2, NoInner DEF Rank
    <3>2. th[t].call.name \in RearmCalls
      BY <2>2, Zenon DEF Serves
    <3> QED BY <2>2, <3>1, <3>2, Zenon DEF WellFormed, RearmCalls
  <2>4. /\ s \in Seq(Labels) /\ Replaces(th[t].call.name, s, "event_wait")
        /\ "event_wait" \notin LastLabels
    <3>1. <<"finish_event">> \in Seq(Labels) /\ "event_wait" \notin LastLabels
      BY DEF Labels, LastLabels
    <3>2. Replaces(th[t].call.name, <<"finish_event">>, "event_wait")
      BY <2>2, PushedStacks, Zenon
    <3> QED BY <3>1, <3>2, EmptyReplaces, Zenon
  <2>s. /\ ev[e].pending => s # <<>> /\ s[1] = "finish_event" /\ Has(s, "finish_event")
        /\ ~ev[e].pending => s = <<>>
        /\ \A a : Has(s, a) => a = "finish_event"
    BY <1>e DEF Has
  <2> HIDE DEF s
  <2>5. y = [th[t] EXCEPT !.ce = e, !.k = s \o Tail(th[t].k)]
    BY <1>0, <2>t, Zenon
  <2>k. y.k = s \o Tail(th[t].k)
    BY <1>0, <2>5, Zenon DEF ThreadStates
  <2>6. /\ y.ce = e /\ y.cq = th[t].cq
        /\ y.call = th[t].call /\ y.deps = th[t].deps
        /\ y.need = th[t].need /\ y.todo = th[t].todo /\ y.quiet = th[t].quiet
    BY <1>0, <2>5 DEF ThreadStates
  <2>7. Moved(t, "event_wait", s)
    BY <2>1, <2>4, <2>k, Moves, Zenon
  <2>8. /\ y.k # <<>> /\ Head(y.k) \in Labels
        /\ \A a : Has(y.k, a) => Has(s, a) \/ Has(th[t].k, a)
        /\ \A a : Has(s, a) => Has(y.k, a)
        /\ s # <<>> => Head(y.k) = s[1]
        /\ s = <<>> => Above(th[t].call.name, "event_wait", Head(y.k))
    BY <2>7, Zenon DEF Moved
  <2>9. /\ Head(y.k) = IF ev[e].pending THEN "finish_event" ELSE "consumers"
        /\ ev[e].pending => Has(y.k, "finish_event")
        /\ ~Has(y.k, "event_finished")
        /\ \A a \in {"submit", "record_submit"} : Has(y.k, a) => Has(th[t].k, a)
    BY <2>3, <2>8, <2>s, Zenon DEF Above, Labels
  <2>10. FinishInv(t)'
    BY <2>1, <2>3, <2>6, <2>9, Zenon DEF FinishInv, RearmCalls
  <2>q. ev[e].syncs = {} /\ (th[t].quiet => Settled(e))
    BY <2>i, <2>3, Zenon DEF QuiesceInv
  <2>v. ev' = ev /\ pb' = pb /\ Settled(e)' = Settled(e)
    BY <2>1, <2>6, Zenon DEF Settled, dependency_queues
  <2>11. QuiesceInv(t)'
    <3>1. Head(y.k) \in {"finish_event", "consumers"}
      BY <2>9, Zenon
    <3>2. ev[e].pending => y.ce = e /\ Has(y.k, "finish_event")
      BY <2>6, <2>9, Zenon
    <3> QED BY <2>v, <2>q, <2>3, <2>6, <3>1, <3>2, Zenon DEF QuiesceInv
  <2>12. SubmitInv(t)'
    BY <2>i, <2>6, <2>9, Zenon DEF SubmitInv, barrier_count
  <2>13. DrainInv(t)'
    BY <2>3, <2>6, <2>9, Zenon DEF DrainInv, RearmCalls
  <2>14. Head(y.k) \notin Waiting /\ \A q \in QueueLabels : Has(s, q) => y.cq \in Queues
    BY <2>9, <2>s, Zenon DEF Waiting, Unlocked, QueueLabels
  <2> QED BY <2>1, <2>2, <2>6, <2>7, <2>10, <2>11, <2>12, <2>13, <2>14, MoveHeld, Zenon
<1>2. CASE Revalidate(t)
  <2>1. At(t, "revalidate") /\ UNCHANGED <<flight, live, val, ev, pb>>
    BY <1>2, Zenon DEF Revalidate, queueVars
  <2>2. CASE Return(t)
    BY <2>2, FailEnds
  <2>3. CASE (Usable(e) \/ th[t].call.name = "event_destroy") /\ Goto(t, <<>>) /\ lock' = lock
    <3>1. Moved(t, "revalidate", <<>>) /\ SameCall(t)
      BY <2>1, <2>3, GotoMoves, EmptyReplaces, Zenon DEF LastLabels
    <3>2. /\ Above(th[t].call.name, "revalidate", Head(y.k)) /\ Head(y.k) \in Labels
          /\ \A a : Has(y.k, a) => Has(<<>>, a) \/ Has(th[t].k, a)
      BY <3>1, Zenon DEF Moved
    <3>3. Head(y.k) = "event_wait"
      BY <3>2, Zenon DEF Above, Labels
    <3>4. \A a : Has(y.k, a) => Has(th[t].k, a)
      BY <1>e, <3>2, Zenon
    <3>5. /\ lock = t /\ Serves(th[t].call.name, "revalidate") /\ CallInv(t) /\ th[t].k # <<>>
      BY <2>1, Runs DEF Unlocked
    <3>i. /\ FinishInv(t) /\ QuiesceInv(t) /\ SubmitInv(t) /\ DrainInv(t)
          /\ Head(th[t].k) = "revalidate"
      BY <2>1, Runs DEF Unlocked
    <3>6. th[t].call.name \in RearmCalls /\ ev[e].live
      BY <2>3, <3>5, Zenon DEF Serves, CallInv, Usable
    <3>7. ev[e].syncs = {}
      BY <3>6, <3>i, Zenon DEF QuiesceInv
    <3>8. /\ y.call = th[t].call /\ y.cq = th[t].cq /\ y.ce = th[t].ce /\ y.deps = th[t].deps
          /\ y.need = th[t].need /\ y.todo = th[t].todo /\ y.quiet = th[t].quiet
      BY <3>1, Zenon DEF SameCall
    <3>9. FinishInv(t)'
      BY <2>1, <3>3, <3>4, <3>i, <3>8, Zenon DEF FinishInv
    <3>10. QuiesceInv(t)'
      BY <2>1, <3>3, <3>i, <3>7, <3>8, Zenon DEF QuiesceInv, Settled, dependency_queues
    <3>11. SubmitInv(t)'
      BY <2>1, <3>3, <3>4, <3>i, <3>8, Zenon DEF SubmitInv, barrier_count
    <3>12. DrainInv(t)'
      BY <2>1, <3>3, <3>6, <3>8, Zenon DEF DrainInv, RearmCalls
    <3>13. Head(y.k) \notin Waiting /\ \A q \in QueueLabels : ~Has(<<>>, q)
      BY <1>e, <3>3 DEF Waiting, Unlocked
    <3>14. lock' = t /\ ev' = ev
      BY <2>1, <2>3, <3>5, Zenon
    <3> QED BY <2>1, <3>1, <3>8, <3>9, <3>10, <3>11, <3>12, <3>13, <3>14, MoveHeld, Zenon
  <2> QED BY <1>2, <2>2, <2>3, Zenon DEF Revalidate
<1> QED BY <1>1, <1>2

(* and the wait for the queues whose barriers name it *)
LEMMA ConsumerMoves ==
  ASSUME RingInv, NEW t \in Threads, WaitForConsumers(t)
  PROVE  OwnInv(t)'
<1> DEFINE y == th'[t]
           e == th[t].call.e
<1>0. th \in [Threads -> ThreadStates] /\ th[t] \in ThreadStates
  BY DEF RingInv, TypeOK
<1>e. \A a : ~Has(<<>>, a)
  BY DEF Has
<1>1. At(t, "consumers") /\ UNCHANGED <<flight, live, val, pb>>
  BY DEF WaitForConsumers, queueVars
<1>2. /\ lock = t /\ Serves(th[t].call.name, "consumers")
      /\ th[t].k \in Seq(Labels) /\ th[t].k # <<>> /\ Stacked(th[t].call.name, th[t].k)
      /\ Head(th[t].k) = "consumers" /\ WellFormed(th[t].call)
  BY <1>1, Runs DEF Unlocked
<1>i. /\ FinishInv(t) /\ QuiesceInv(t) /\ SubmitInv(t) /\ DrainInv(t)
      /\ Head(th[t].k) = "consumers"
  BY <1>1, Runs DEF Unlocked
<1>3. th[t].call.name \in RearmCalls
  BY <1>2, Zenon DEF Serves
<1>4. ~Has(th[t].k, "event_finished") /\ ~Has(th[t].k, "finish_event")
  BY <1>2, NoInner DEF Rank
<1>5. ~ev[e].pending /\ ev[e].syncs = {}
  BY <1>3, <1>4, <1>i, Zenon DEF QuiesceInv
<1>6. CASE /\ dependency_queues(e) = {}
           /\ th' = [th EXCEPT ![t].k = Tail(@), ![t].quiet = TRUE] /\ UNCHANGED <<lock, ev>>
  <2>1. y = [th[t] EXCEPT !.k = Tail(@), !.quiet = TRUE]
    BY <1>0, <1>6, Zenon
  <2>k. y.k = Tail(th[t].k)
    BY <1>0, <2>1 DEF ThreadStates
  <2>2. /\ y.ce = th[t].ce /\ y.cq = th[t].cq
        /\ y.call = th[t].call /\ y.deps = th[t].deps
        /\ y.need = th[t].need /\ y.todo = th[t].todo /\ y.quiet = TRUE
    BY <1>0, <2>1 DEF ThreadStates
  <2>3. Tail(th[t].k) = <<>> \o Tail(th[t].k)
    BY <1>2
  <2>4. Moved(t, "consumers", <<>>)
    BY <1>1, <2>k, <2>3, Moves, EmptyReplaces, Zenon DEF LastLabels
  <2>5. /\ Above(th[t].call.name, "consumers", Head(y.k)) /\ Head(y.k) \in Labels
        /\ \A a : Has(y.k, a) => Has(<<>>, a) \/ Has(th[t].k, a)
    BY <2>4, Zenon DEF Moved
  <2>6. Head(y.k) \in {"record", "event_delete", "launch"}
    BY <2>5, Zenon DEF Above, Labels
  <2>7. \A a : Has(y.k, a) => Has(th[t].k, a)
    BY <1>e, <2>5, Zenon
  <2>v. ev' = ev /\ pb' = pb /\ lock' = t /\ dependency_queues(e) = {}
    BY <1>1, <1>2, <1>6
  <2>8. FinishInv(t)'
    BY <1>4, <2>6, <2>7, Zenon DEF FinishInv
  <2>9. QuiesceInv(t)'
    BY <1>3, <1>5, <2>v, <2>2, <2>6, Zenon DEF QuiesceInv, Settled, dependency_queues
  <2>10. SubmitInv(t)'
    BY <1>i, <2>2, <2>6, <2>7, Zenon DEF SubmitInv, barrier_count
  <2>11. DrainInv(t)'
    BY <1>3, <2>2, <2>6, Zenon DEF DrainInv, RearmCalls
  <2>12. Head(y.k) \notin Waiting /\ \A q \in QueueLabels : ~Has(<<>>, q)
    BY <1>e, <2>6 DEF Waiting, Unlocked
  <2> QED BY <1>1, <2>v, <2>2, <2>4, <2>8, <2>9, <2>10, <2>11, <2>12, MoveHeld, Zenon
<1>7. ASSUME NEW q \in Queues, UNCHANGED <<lock, ev>>,
             th' = [th EXCEPT ![t].cq = q, ![t].k = Then(t, <<"sync", "consumers">>)]
      PROVE  OwnInv(t)'
  <2> DEFINE s == <<"sync", "consumers">>
  <2>1. y = [th[t] EXCEPT !.cq = q, !.k = s \o Tail(th[t].k)]
    BY <1>0, <1>7, Zenon DEF Then
  <2>k. y.k = s \o Tail(th[t].k)
    <3> HIDE DEF s
    <3> QED BY <1>0, <2>1, Zenon DEF ThreadStates
  <2>2. /\ y.cq = q /\ y.ce = th[t].ce
        /\ y.call = th[t].call /\ y.deps = th[t].deps
        /\ y.need = th[t].need /\ y.todo = th[t].todo /\ y.quiet = th[t].quiet
    <3> HIDE DEF s
    <3> QED BY <1>0, <2>1 DEF ThreadStates
  <2>3. s \in Seq(Labels) /\ "consumers" \notin LastLabels
        /\ Replaces(th[t].call.name, s, "consumers")
    BY <1>2, PushedStacks DEF LastLabels, Labels
  <2>4. Moved(t, "consumers", s)
    BY <1>1, <2>k, <2>3, Moves, Zenon
  <2>5. s # <<>> /\ s[1] = "sync" /\ \A a \in Charged : ~Has(s, a)
    BY DEF Has, Charged
  <2> HIDE DEF s
  <2>6. Head(y.k) = "sync" /\ \A a \in Charged : Has(y.k, a) => Has(th[t].k, a)
    BY <2>4, <2>5, Zenon DEF Moved
  <2>v. ev' = ev /\ pb' = pb /\ lock' = t
    BY <1>1, <1>2, <1>7
  <2>8. FinishInv(t)'
    BY <1>4, <2>6, Zenon DEF FinishInv, Charged
  <2>9. QuiesceInv(t)'
    BY <1>3, <1>5, <1>i, <2>v, <2>2, <2>6, Zenon DEF QuiesceInv, Settled, dependency_queues
  <2>10. SubmitInv(t)'
    BY <1>i, <2>2, <2>6, Zenon DEF SubmitInv, barrier_count, Charged
  <2>11. DrainInv(t)'
    BY <1>3, <2>2, <2>6, Zenon DEF DrainInv, RearmCalls
  <2>12. Head(y.k) \notin Waiting /\ y.cq \in Queues
    BY <2>2, <2>6, Zenon DEF Waiting, Unlocked
  <2> QED BY <1>1, <2>v, <2>2, <2>4, <2>8, <2>9, <2>10, <2>11, <2>12, MoveHeld, Zenon
<1>8. CASE Fail(t)
  BY <1>8, FailEnds
<1> QED BY <1>6, <1>7, <1>8, Zenon DEF WaitForConsumers, dependency_queues

(* Waiting for the synchronizers of an event, or as one of them *)
LEMMA WaitingMoves ==
  ASSUME RingInv, NEW t \in Threads, WaitForSynchronizers(t) \/ HostWait(t)
  PROVE  OwnInv(t)'
<1> DEFINE y == th'[t]
           x == th[t]
           e == th[t].call.e
<1>e. \A a : ~Has(<<>>, a)
  BY DEF Has
<1>u. UNCHANGED <<flight, live, val, ev, pb>>
  BY Zenon DEF WaitForSynchronizers, HostWait, queueVars
<1>1. PICK l \in Waiting, s \in {<<>>, <<"sleep">>, <<"relock">>} :
        /\ At(t, l) /\ Goto(t, s)
        /\ \/ /\ l = "synchronizers" /\ s = <<>> /\ lock' = lock
              /\ ~ev[e].live \/ ev[e].syncs = {}
           \/ l = "synchronizers" /\ s = <<"sleep">> /\ lock' = NoThread
           \/ /\ l = "sleep" /\ s = <<>> /\ lock' = t
              /\ ~ev[e].live \/ ev[e].syncs = {}
           \/ l = "host_wait" /\ s = <<"relock">> /\ lock' = lock /\ val[x.ce] = 0
           \/ l = "relock" /\ s = <<>> /\ lock' = t
  <2>1. CASE WaitForSynchronizers(t)
    <3>1. "synchronizers" \in Waiting /\ "sleep" \in Waiting
      BY DEF Waiting, Unlocked
    <3> QED BY <2>1, <3>1, Zenon DEF WaitForSynchronizers, valid_event
  <2>2. CASE HostWait(t)
    <3>1. "host_wait" \in Waiting /\ "relock" \in Waiting
      BY DEF Waiting, Unlocked
    <3> QED BY <2>2, <3>1, Zenon DEF HostWait
  <2> QED BY <2>1, <2>2, Zenon
<1>2. /\ CallInv(t) /\ HeldInv(t) /\ Serves(x.call.name, l) /\ Head(x.k) = l /\ x.k # <<>>
      /\ WellFormed(x.call) /\ x.call.name # "none"
  BY <1>1, Runs, Zenon DEF RingInv
<1>3. Moved(t, l, s) /\ SameCall(t)
  <2>1. l \notin LastLabels /\ <<>> \in Seq(Labels) /\ <<"sleep">> \in Seq(Labels) /\ <<"relock">> \in Seq(Labels)
    BY DEF Waiting, Unlocked, LastLabels, Labels
  <2>2. /\ l = "synchronizers" => Replaces(x.call.name, <<"sleep">>, l)
        /\ l = "host_wait" => Replaces(x.call.name, <<"relock">>, l)
    BY <1>2, PushedStacks, Zenon
  <2>3. Replaces(x.call.name, s, l)
    BY <1>1, <2>2, EmptyReplaces, Zenon
  <2> QED BY <1>1, <2>1, <2>3, GotoMoves, Zenon
<1>4. /\ y.call = x.call /\ y.cq = x.cq /\ y.ce = x.ce /\ y.deps = x.deps
      /\ y.need = x.need /\ y.todo = x.todo /\ y.quiet = x.quiet
  BY <1>3, Zenon DEF SameCall
<1>5. /\ y.k # <<>> /\ Stacked(x.call.name, y.k) /\ Head(y.k) \in Labels
      /\ s # <<>> => Head(y.k) = s[1]
      /\ s = <<>> => Above(x.call.name, l, Head(y.k))
      /\ \A a : Has(y.k, a) => Has(s, a) \/ Has(x.k, a)
  BY <1>3, Zenon DEF Moved
<1>6. \A a \in QueueLabels \cup {"event_finished", "submit", "record_submit"} :
        Has(y.k, a) => Has(x.k, a)
  <2>1. \A a \in QueueLabels \cup {"event_finished", "submit", "record_submit"} : ~Has(s, a)
    <3>1. CASE s = <<>>
      BY <1>e, <3>1
    <3>2. CASE s = <<"sleep">>
      BY <3>2 DEF Has, QueueLabels
    <3>3. CASE s = <<"relock">>
      BY <3>3 DEF Has, QueueLabels
    <3> QED BY <3>1, <3>2, <3>3
  <2> QED BY <1>5, <2>1, Zenon
<1>7. /\ s = <<"sleep">> => Head(y.k) = "sleep"
      /\ s = <<"relock">> => Head(y.k) = "relock"
      /\ s = <<>> /\ l \in {"synchronizers", "sleep"} => Head(y.k) = "revalidate"
      /\ s = <<>> /\ l = "relock" => Head(y.k) = "finish_event"
  <2>1. s = <<"sleep">> => s # <<>> /\ s[1] = "sleep"
    OBVIOUS
  <2>2. s = <<"relock">> => s # <<>> /\ s[1] = "relock"
    OBVIOUS
  <2>3. /\ s = <<>> /\ l \in {"synchronizers", "sleep"} => Head(y.k) = "revalidate"
        /\ s = <<>> /\ l = "relock" => Head(y.k) = "finish_event"
    BY <1>5, Zenon DEF Above, Labels
  <2> QED BY <1>5, <2>1, <2>2, <2>3, Zenon
<1>8. /\ ~x.quiet /\ \A a \in {"event_finished", "submit", "record_submit"} : ~Has(y.k, a)
      /\ \A a \in QueueLabels : Has(y.k, a) => y.cq \in Queues
      /\ l \in {"host_wait", "relock"} => x.ce = e
      /\ l = "relock" => val[e] = 0
      /\ x.call.name = "event_synchronize" => t \in ev[e].syncs
      /\ x.call.name = "event_destroy" => ev[e].live /\ ev[e].destroying
  BY <1>1, <1>2, <1>4, <1>6, Zenon DEF CallInv
<1>9. lock = t => l \notin Unlocked
  BY <1>2, Zenon DEF HeldInv
<1>10. Head(y.k) \notin Unlocked => lock' = t
  <2>1. l = "synchronizers" => lock = t
    BY <1>2, Zenon DEF CallInv, Unlocked
  <2> QED BY <1>1, <1>7, <2>1, QueueAssumption, Zenon DEF Unlocked
<1>11. /\ Head(y.k) \in {"host_wait", "relock"} => x.ce = e
       /\ Head(y.k) = "relock" => val[e] = 0
       /\ Head(y.k) \in {"sleep", "relock", "revalidate", "finish_event"}
       /\ Head(y.k) = "finish_event" => l = "relock" /\ x.ce = e /\ val[e] = 0
       /\ Head(y.k) = "revalidate" => ~ev[e].live \/ ev[e].syncs = {}
  BY <1>1, <1>7, <1>8, Zenon
<1>12. lock' = t => Head(y.k) \in {"revalidate", "finish_event"}
  <2>1. lock = t => l = "synchronizers"
    BY <1>9 DEF Waiting, Unlocked
  <2> QED BY <1>1, <1>7, <2>1, QueueAssumption, Zenon
<1>s. /\ Head(y.k) = "finish_event" => x.call.name = "event_synchronize"
      /\ Head(y.k) = "revalidate" => x.call.name \in RearmCalls
      /\ x.call.name \in RearmCalls \cup {"event_synchronize"}
  <2>1. Head(y.k) = "finish_event" => l = "relock"
    BY <1>11, Zenon
  <2>2. Head(y.k) = "revalidate" => l \in {"synchronizers", "sleep"}
    BY <1>1, <1>7, <1>11, Zenon
  <2> QED BY <1>2, <2>1, <2>2, Zenon DEF Serves, Waiting, Unlocked
<1>13. CallInv(t)'
  <2>1. /\ WellFormed(y.call) /\ y.call.name # "none" /\ Stacked(y.call.name, y.k)
        /\ y.call.e = e /\ ~y.quiet
    BY <1>2, <1>4, <1>5, <1>8, Zenon
  <2>2. /\ lock' # t => Head(y.k) \in Unlocked
        /\ \A a \in QueueLabels : Has(y.k, a) => y.cq \in Queues
        /\ \A a \in {"event_finished", "submit", "record_submit"} : ~Has(y.k, a)
    BY <1>8, <1>10, Zenon
  <2>3. /\ y.call.name = "event_synchronize" => t \in ev'[e].syncs
        /\ y.call.name = "event_destroy" => ev'[e].live /\ ev'[e].destroying
        /\ Head(y.k) \in {"host_wait", "relock"} => y.ce = e
        /\ Head(y.k) = "relock" => val'[e] = 0
    BY <1>u, <1>4, <1>8, <1>11, Zenon
  <2> HIDE DEF y, e
  <2>4. y = th'[t]
    BY DEF y
  <2>5. th'[t].k # <<>>
    BY <1>5, Zenon DEF y
  <2>6. (WellFormed(th[t].call))'
    BY <2>1, Zenon DEF WellFormed, y
  <2> QED BY <2>1, <2>2, <2>3, <2>4, <2>5, <2>6, Zenon DEF CallInv
<1>14. ASSUME lock' = t PROVE FinishInv(t)' /\ QuiesceInv(t)' /\ SubmitInv(t)' /\ DrainInv(t)'
  <2>0. Head(y.k) \in {"revalidate", "finish_event"}
    BY <1>12, <1>14
  <2>w. e \in Events
    BY <1>2, <1>s, Zenon DEF WellFormed, RearmCalls
  <2>1. FinishInv(t)'
    BY <1>u, <1>4, <1>8, <1>11, <1>s, <2>0, <2>w, Zenon DEF FinishInv
  <2>2. QuiesceInv(t)'
    BY <1>u, <1>4, <1>8, <1>11, <1>s, <2>0, Zenon DEF QuiesceInv, RearmCalls
  <2>3. SubmitInv(t)'
    BY <1>8, <2>0, Zenon DEF SubmitInv
  <2>4. DrainInv(t)'
    BY <1>4, <1>s, <2>0, Zenon DEF DrainInv, RearmCalls
  <2> QED BY <2>1, <2>2, <2>3, <2>4
<1> QED BY <1>5, <1>12, <1>13, <1>14, Zenon DEF OwnInv, HeldInv, Unlocked

(* The stacks calls start with *)
EventStack(name) ==
  <<"synchronizers", "revalidate", "event_wait", "consumers",
    CASE name = "event_record" -> "record"
      [] name = "event_destroy" -> "event_delete"
      [] OTHER -> "launch">>

(* They are in order. *)
LEMMA NewStacks ==
  ASSUME NEW name
  PROVE  /\ name \in KernelCalls => Stacked(name, <<"scratch", "capacity", "submit">>)
         /\ name = "event_record" => Stacked(name, <<"capacity", "record_submit">>)
         /\ name = "launch" => Stacked(name, <<"launch">>)
         /\ name = "queue_synchronize" => Stacked(name, <<"sync", "return">>)
         /\ name = "queue_destroy" => Stacked(name, <<"sync", "queue_delete">>)
         /\ name = "synchronize" => Stacked(name, <<"device", "return">>)
         /\ name = "event_synchronize" => Stacked(name, <<"host_wait", "finish_event", "unpin">>)
         /\ name \in RearmCalls => Stacked(name, EventStack(name))
<1> USE DEF Stacked, Serves, Above, Rank, LastLabels, KernelCalls, RearmCalls
<1>1. name \in KernelCalls => Stacked(name, <<"scratch", "capacity", "submit">>)
  OBVIOUS
<1>2. name = "event_record" => Stacked(name, <<"capacity", "record_submit">>)
  OBVIOUS
<1>3. name = "launch" => Stacked(name, <<"launch">>)
  OBVIOUS
<1>4. name = "queue_synchronize" => Stacked(name, <<"sync", "return">>)
  OBVIOUS
<1>5. name = "queue_destroy" => Stacked(name, <<"sync", "queue_delete">>)
  OBVIOUS
<1>6. name = "synchronize" => Stacked(name, <<"device", "return">>)
  OBVIOUS
<1>7. name = "event_synchronize" => Stacked(name, <<"host_wait", "finish_event", "unpin">>)
  OBVIOUS
<1>8. name \in RearmCalls => Stacked(name, EventStack(name))
  <2> DEFINE last == CASE name = "event_record" -> "record"
                       [] name = "event_destroy" -> "event_delete"
                       [] OTHER -> "launch"
  <2>1. /\ name = "event_record" => last = "record"
        /\ name = "event_destroy" => last = "event_delete"
        /\ name = "memcpy_async" => last = "launch"
    OBVIOUS
  <2>2. EventStack(name) = <<"synchronizers", "revalidate", "event_wait", "consumers", last>>
    BY DEF EventStack
  <2> HIDE DEF last
  <2>3. CASE name = "event_record"
    BY <2>1, <2>2, <2>3
  <2>4. CASE name = "event_destroy"
    BY <2>1, <2>2, <2>4
  <2>5. CASE name = "memcpy_async"
    BY <2>1, <2>2, <2>5
  <2> QED BY <2>3, <2>4, <2>5, Zenon
<1> HIDE DEF Stacked, Serves, Above, Rank, LastLabels, KernelCalls, RearmCalls
<1> QED BY <1>1, <1>2, <1>3, <1>4, <1>5, <1>6, <1>7, <1>8

(* What the new stacks hold *)
LEMMA NewLabels ==
  /\ \A a : Has(<<"scratch", "capacity", "submit">>, a) => a \in {"scratch", "capacity", "submit"}
  /\ \A a : Has(<<"capacity", "record_submit">>, a) => a \in {"capacity", "record_submit"}
  /\ \A a : Has(<<"launch">>, a) => a = "launch"
  /\ \A a : Has(<<"sync", "return">>, a) => a \in {"sync", "return"}
  /\ \A a : Has(<<"sync", "queue_delete">>, a) => a \in {"sync", "queue_delete"}
  /\ \A a : Has(<<"device", "return">>, a) => a \in {"device", "return"}
  /\ \A a : Has(<<"host_wait", "finish_event", "unpin">>, a) =>
       a \in {"host_wait", "finish_event", "unpin"}
  /\ \A name, a : Has(EventStack(name), a) =>
       a \in {"synchronizers", "revalidate", "event_wait", "consumers", "record",
              "event_delete", "launch"}
<1> USE DEF Has
<1>1. \A a : Has(<<"scratch", "capacity", "submit">>, a) => a \in {"scratch", "capacity", "submit"}
  OBVIOUS
<1>2. \A a : Has(<<"capacity", "record_submit">>, a) => a \in {"capacity", "record_submit"}
  OBVIOUS
<1>3. \A a : Has(<<"launch">>, a) => a = "launch"
  OBVIOUS
<1>4. \A a : Has(<<"sync", "return">>, a) => a \in {"sync", "return"}
  OBVIOUS
<1>5. \A a : Has(<<"sync", "queue_delete">>, a) => a \in {"sync", "queue_delete"}
  OBVIOUS
<1>6. \A a : Has(<<"device", "return">>, a) => a \in {"device", "return"}
  OBVIOUS
<1>7. \A a : Has(<<"host_wait", "finish_event", "unpin">>, a) =>
        a \in {"host_wait", "finish_event", "unpin"}
  OBVIOUS
<1>8. ASSUME NEW name, NEW a, Has(EventStack(name), a)
      PROVE  a \in {"synchronizers", "revalidate", "event_wait", "consumers", "record",
                    "event_delete", "launch"}
  <2> DEFINE last == CASE name = "event_record" -> "record"
                       [] name = "event_destroy" -> "event_delete"
                       [] OTHER -> "launch"
  <2>1. last \in {"record", "event_delete", "launch"}
    OBVIOUS
  <2>2. EventStack(name) = <<"synchronizers", "revalidate", "event_wait", "consumers", last>>
    BY DEF EventStack
  <2> HIDE DEF last
  <2> QED BY <1>8, <2>1, <2>2
<1> HIDE DEF Has
<1> QED BY <1>1, <1>2, <1>3, <1>4, <1>5, <1>6, <1>7, <1>8, Zenon

(* The packets of a kernel or a record are decided on. *)
LEMMA SubmitMoves ==
  ASSUME RingInv, NEW t \in Threads, CollectDependencies(t) \/ Record(t)
  PROVE  OwnInv(t)'
<1> DEFINE y == th'[t]
           x == th[t]
           e == th[t].call.e
<1>0. th \in [Threads -> ThreadStates] /\ th[t] \in ThreadStates
  BY DEF RingInv, TypeOK
<1>1. /\ At(t, "launch") \/ At(t, "record")
      /\ UNCHANGED <<flight, live, val, ev, pb>>
  BY Zenon DEF CollectDependencies, Record, queueVars
<1>2. PICK l \in {"launch", "record"} : At(t, l)
  BY <1>1
<1>3. /\ lock = t /\ Serves(x.call.name, l) /\ WellFormed(x.call)
      /\ x.k \in Seq(Labels) /\ x.k # <<>> /\ Stacked(x.call.name, x.k) /\ Head(x.k) = l
  BY <1>2, Runs, Zenon DEF Unlocked
<1>4. CallInv(t) /\ QuiesceInv(t) /\ Head(x.k) = l /\ x.k # <<>>
  BY <1>2, Runs, Zenon DEF Unlocked
<1>5. ~Has(x.k, "event_finished") /\ ~Has(x.k, "finish_event")
  BY <1>3, NoInner DEF Rank
<1>6. /\ x.call.name \in RearmCalls => ev[e].syncs = {} /\ ~ev[e].pending
      /\ x.quiet => x.call.name \in RearmCalls /\ Settled(e)
      /\ l = "record" => x.quiet
      /\ l = "launch" /\ x.call.name = "memcpy_async" => x.quiet
  BY <1>4, <1>5, Zenon DEF QuiesceInv
<1>7. /\ l = "launch" => x.call.name \in KernelCalls
      /\ l = "record" => x.call.name = "event_record"
      /\ x.call.q \in Queues
  BY <1>3, QueueAssumption, Zenon DEF Serves, WellFormed, KernelCalls
<1>8. CASE Return(t)
  BY <1>8, FailEnds
<1>9. ASSUME NEW k, y.k = k, k # <<>>, y.call = x.call, y.cq = x.call.q, y.quiet = x.quiet, lock' = t,
             Stacked(x.call.name, k), Head(k) \in {"scratch", "capacity"},
             \A a : Has(k, a) => a \in {"scratch", "capacity", "submit", "record_submit"},
             Has(k, "submit") => l = "launch" /\ y.need = barrier_count(y.deps) + 1,
             Has(k, "record_submit") => l = "record" /\ y.need = 1
      PROVE  OwnInv(t)'
  <2>1. FinishInv(t)'
    BY <1>9 DEF FinishInv
  <2>2. QuiesceInv(t)'
    <3>1. x.quiet => Settled(e)'
      BY <1>1, <1>6, <1>9, Zenon DEF Settled, dependency_queues
    <3> QED BY <1>1, <1>6, <1>9, <3>1, Zenon DEF QuiesceInv
  <2>3. SubmitInv(t)'
    BY <1>6, <1>9, Zenon DEF SubmitInv, barrier_count
  <2>4. DrainInv(t)'
    BY <1>7, <1>9, Zenon DEF DrainInv, KernelCalls
  <2>5. (WellFormed(th[t].call))'
    BY <1>3, <1>9, Zenon DEF WellFormed
  <2>6. x.call.name \in {"launch", "memcpy_async", "event_record"}
    BY <1>7 DEF KernelCalls
  <2>7. CallInv(t)'
    BY <1>7, <1>9, <2>5, <2>6, Zenon DEF CallInv, Waiting, Unlocked
  <2> QED BY <1>9, <2>1, <2>2, <2>3, <2>4, <2>7, Zenon DEF OwnInv, HeldInv, Unlocked
<1>10. CASE CollectDependencies(t) /\ ~Return(t)
  <2> DEFINE D == Collect(x.call.deps)
             k == <<"scratch", "capacity", "submit">>
  <2>1. /\ th' = [th EXCEPT ![t].cq = x.call.q, ![t].deps = D,
                          ![t].need = barrier_count(D) + 1, ![t].k = k]
        /\ lock' = lock /\ At(t, "launch")
    BY <1>10, Zenon DEF CollectDependencies
  <2> HIDE DEF D, k
  <2>2. y = [x EXCEPT !.cq = x.call.q, !.deps = D, !.need = barrier_count(D) + 1, !.k = k]
    BY <1>0, <2>1, Zenon
  <2>3. /\ y.k = k /\ y.call = x.call /\ y.cq = x.call.q /\ y.quiet = x.quiet
        /\ y.need = barrier_count(D) + 1 /\ y.deps = D
    BY <1>0, <2>2 DEF ThreadStates
  <2>4. l = "launch" /\ lock' = t
    BY <1>3, <2>1 DEF At
  <2>5. /\ k # <<>> /\ Head(k) = "scratch"
        /\ \A a : Has(k, a) => a \in {"scratch", "capacity", "submit"}
    BY NewLabels DEF k
  <2>6. Stacked(x.call.name, k)
    BY <1>7, <2>4, NewStacks, Zenon DEF k
  <2> QED BY <1>9, <2>3, <2>4, <2>5, <2>6
<1>11. CASE Record(t) /\ ~Return(t)
  <2> DEFINE k == <<"capacity", "record_submit">>
  <2>1. /\ th' = [th EXCEPT ![t].cq = x.call.q, ![t].need = 1, ![t].k = k]
        /\ lock' = lock /\ At(t, "record")
    BY <1>11, Zenon DEF Record
  <2> HIDE DEF k
  <2>2. y = [x EXCEPT !.cq = x.call.q, !.need = 1, !.k = k]
    BY <1>0, <2>1, Zenon
  <2>3. /\ y.k = k /\ y.call = x.call /\ y.cq = x.call.q /\ y.quiet = x.quiet
        /\ y.need = 1
    BY <1>0, <2>2 DEF ThreadStates
  <2>4. l = "record" /\ lock' = t
    BY <1>3, <2>1 DEF At
  <2>5. /\ k # <<>> /\ Head(k) = "capacity"
        /\ \A a : Has(k, a) => a \in {"capacity", "record_submit"}
    BY NewLabels DEF k
  <2>6. Stacked(x.call.name, k)
    BY <1>7, <2>4, NewStacks, Zenon DEF k
  <2> QED BY <1>9, <2>3, <2>4, <2>5, <2>6
<1> QED BY <1>8, <1>10, <1>11

(* A call starts with the lock and nothing found out. *)
LEMMA BegunHeld ==
  ASSUME NEW t \in Threads, NEW k, th'[t].k = k, k # <<>>, ~th'[t].quiet, lock' = t,
         WellFormed(th'[t].call), Stacked(th'[t].call.name, k), th'[t].cq = th'[t].call.q,
         th'[t].call.name \notin {"none", "event_synchronize"},
         Head(k) \in {"launch", "sync", "device", "synchronizers"},
         \A a \in {"event_finished", "submit", "record_submit"} : ~Has(k, a),
         Head(k) = "launch" => th'[t].call.name = "launch",
         Head(k) \in {"launch", "device", "sync"} => th'[t].call.name \notin RearmCalls,
         th'[t].call.name \in RearmCalls => Head(k) = "synchronizers",
         th'[t].call.name = "event_destroy" =>
           ev'[th'[t].call.e].live /\ ev'[th'[t].call.e].destroying,
         th'[t].call.name = "synchronize" => \A q \in Queues : live'[q] => q \in th'[t].todo,
         \A a \in QueueLabels : Has(k, a) => th'[t].cq \in Queues
  PROVE  OwnInv(t)'
<1>1. FinishInv(t)'
  BY Zenon DEF FinishInv
<1>2. QuiesceInv(t)'
  BY Zenon DEF QuiesceInv, RearmCalls
<1>3. SubmitInv(t)'
  BY Zenon DEF SubmitInv
<1>4. DrainInv(t)'
  BY Zenon DEF DrainInv
<1>5. CallInv(t)'
  <2>1. (WellFormed(th[t].call))'
    BY Zenon DEF WellFormed
  <2> QED BY <2>1, Zenon DEF CallInv, Waiting, Unlocked
<1> QED BY <1>1, <1>2, <1>3, <1>4, <1>5, Zenon DEF OwnInv, HeldInv, Unlocked

(* The first step of every call *)
LEMMA InvokeMoves ==
  ASSUME RingInv, NEW t \in Threads, Invoke(t)
  PROVE  OwnInv(t)'
<1>0. /\ \A c \in left[t].calls : WellFormed(c)
      /\ th \in [Threads -> ThreadStates] /\ ev \in [Events -> EventStates]
  BY Zenon DEF RingInv, ProgramInv, TypeOK
<1>1. CASE Launch(t)
  <2>1. PICK c \in left[t].calls : c.name = "launch" /\ Begin(t, c, {}, <<"launch">>)
    BY <1>1, Zenon DEF Launch
  <2> DEFINE k == <<"launch">>
  <2>2. k # <<>> /\ Head(k) = "launch" /\ \A a : Has(k, a) => a = "launch"
    BY NewLabels
  <2>3. Stacked(c.name, k)
    BY <2>1, NewStacks, Zenon
  <2>4. /\ th'[t].k = k /\ th'[t].call = c /\ th'[t].cq = c.q /\ ~th'[t].quiet /\ lock' = t
    BY <2>1, BeginFields, Zenon
  <2>5. WellFormed(c)
    BY <1>0, Zenon
  <2> HIDE DEF k
  <2> QED BY <2>1, <2>2, <2>3, <2>4, <2>5, BegunHeld, Zenon DEF RearmCalls, QueueLabels
<1>2. CASE QueueCall(t)
  <2>1. PICK c \in left[t].calls :
          /\ c.name \in {"queue_synchronize", "queue_destroy"}
          /\ Begin(t, c, {}, <<"sync", IF c.name = "queue_destroy" THEN "queue_delete"
                                       ELSE "return">>)
    BY <1>2, Zenon DEF QueueCall
  <2> DEFINE k == <<"sync", IF c.name = "queue_destroy" THEN "queue_delete" ELSE "return">>
  <2>2. /\ k # <<>> /\ Head(k) = "sync"
        /\ \A a : Has(k, a) => a \in {"sync", "queue_delete", "return"}
    BY NewLabels
  <2>3. Stacked(c.name, k)
    BY <2>1, NewStacks, Zenon
  <2>4. /\ th'[t].k = k /\ th'[t].call = c /\ th'[t].cq = c.q /\ ~th'[t].quiet /\ lock' = t
    BY <2>1, BeginFields, Zenon
  <2>5. WellFormed(c) /\ c.q \in Queues
    BY <1>0, <2>1, Zenon DEF WellFormed
  <2> HIDE DEF k
  <2> QED BY <2>1, <2>2, <2>3, <2>4, <2>5, BegunHeld, Zenon DEF RearmCalls, QueueLabels
<1>3. CASE DeviceCall(t)
  <2>1. PICK c \in left[t].calls :
          /\ c.name = "synchronize" /\ live' = live
          /\ Begin(t, c, {q \in Queues : live[q]}, <<"device", "return">>)
    BY <1>3, Zenon DEF DeviceCall
  <2> DEFINE k == <<"device", "return">>
  <2>2. /\ k # <<>> /\ Head(k) = "device"
        /\ \A a : Has(k, a) => a \in {"device", "return"}
    BY NewLabels
  <2>3. Stacked(c.name, k)
    BY <2>1, NewStacks, Zenon
  <2>4. /\ th'[t].k = k /\ th'[t].call = c /\ th'[t].cq = c.q /\ ~th'[t].quiet /\ lock' = t
        /\ th'[t].todo = {q \in Queues : live[q]}
    BY <2>1, BeginFields, Zenon
  <2>5. WellFormed(c)
    BY <1>0, <2>1, Zenon DEF WellFormed
  <2>6. \A q \in Queues : live'[q] => q \in th'[t].todo
    BY <2>1, <2>4, Zenon
  <2> HIDE DEF k
  <2> QED BY <2>1, <2>2, <2>3, <2>4, <2>5, <2>6, BegunHeld, Zenon DEF RearmCalls, QueueLabels
<1>4. CASE EventCall(t)
  <2>1. PICK c \in left[t].calls :
          /\ c.name \in RearmCalls /\ Usable(c.e)
          /\ Begin(t, c, {}, EventStack(c.name))
          /\ ev' = [ev EXCEPT ![c.e].destroying = c.name = "event_destroy"]
    BY <1>4, Zenon DEF EventCall, EventStack, RearmCalls
  <2> DEFINE k == EventStack(c.name)
  <2>2. /\ k # <<>> /\ Head(k) = "synchronizers"
    BY DEF EventStack
  <2>3. \A a : Has(k, a) => a \in {"synchronizers", "revalidate", "event_wait", "consumers",
                                   "record", "event_delete", "launch"}
    BY NewLabels, Zenon
  <2>4. Stacked(c.name, k)
    BY <2>1, NewStacks
  <2>5. /\ th'[t].k = k /\ th'[t].call = c /\ th'[t].cq = c.q /\ ~th'[t].quiet /\ lock' = t
    BY <2>1, BeginFields
  <2>6. WellFormed(c)
    BY <1>0, <2>1
  <2>7. c.name = "event_destroy" => ev'[c.e].live /\ ev'[c.e].destroying
    BY <1>0, <2>1, <2>6 DEF WellFormed, Usable, EventStates
  <2> HIDE DEF k
  <2> QED BY <2>1, <2>2, <2>3, <2>4, <2>5, <2>6, <2>7, BegunHeld DEF RearmCalls, QueueLabels
<1>5. CASE EventSynchronize(t)
  <2> DEFINE k == <<"host_wait", "finish_event", "unpin">>
  <2>1. PICK c \in left[t].calls :
          /\ c.name = "event_synchronize" /\ lock = NoThread /\ lock' = lock
          /\ ev' = [ev EXCEPT ![c.e].syncs = @ \cup {t}]
          /\ th' = [th EXCEPT ![t] = [Idle EXCEPT !.call = c, !.ce = c.e, !.k = k]]
    BY <1>5, Zenon DEF EventSynchronize
  <2>2. /\ k # <<>> /\ Head(k) = "host_wait"
        /\ \A a : Has(k, a) => a \in {"host_wait", "finish_event", "unpin"}
    BY NewLabels
  <2>3. Stacked("event_synchronize", k)
    BY NewStacks, Zenon
  <2> HIDE DEF k
  <2>4. th'[t] = [Idle EXCEPT !.call = c, !.ce = c.e, !.k = k]
    BY <1>0, <2>1, Zenon
  <2>5. /\ th'[t].k = k /\ th'[t].call = c /\ th'[t].ce = c.e /\ ~th'[t].quiet /\ lock' # t
    <3>1. th'[t].k = k /\ th'[t].call = c /\ th'[t].ce = c.e /\ ~th'[t].quiet
      BY <2>4 DEF Idle
    <3>2. lock' # t
      BY <2>1, QueueAssumption, Zenon
    <3> QED BY <3>1, <3>2
  <2>6. WellFormed(c) /\ c.e \in Events
    BY <1>0, <2>1 DEF WellFormed
  <2>7. (WellFormed(th[t].call))'
    BY <2>5, <2>6, Zenon DEF WellFormed
  <2>8. t \in ev'[c.e].syncs
    <3>1. ev'[c.e] = [ev[c.e] EXCEPT !.syncs = ev[c.e].syncs \cup {t}]
      BY <1>0, <2>1, <2>6, Zenon
    <3> QED BY <1>0, <2>6, <3>1 DEF EventStates
  <2>9. CallInv(t)'
    BY <2>1, <2>2, <2>3, <2>5, <2>7, <2>8 DEF CallInv, Unlocked, Waiting, QueueLabels
  <2> QED BY <2>5, <2>9, Zenon DEF OwnInv, HeldInv
<1> QED BY <1>1, <1>2, <1>3, <1>4, <1>5 DEF Invoke

(* Every step of a call, and its first one *)
LEMMA OwnSteps ==
  ASSUME RingInv, NEW t \in Threads, Step(t) \/ Invoke(t)
  PROVE  OwnInv(t)'
<1>1. CASE \/ SubmitKernel(t) \/ RecordSubmit(t) \/ SubmitFails(t) \/ QueueDelete(t)
           \/ Leave(t) \/ EventDelete(t) \/ Unpin(t)
  <2>1. Return(t)
    BY <1>1, Zenon DEF SubmitKernel, RecordSubmit, SubmitFails, QueueDelete, Leave, EventDelete, Unpin
  <2> QED BY <2>1, FailEnds
<1> QED BY <1>1, PlainSteps, RetireMoves, FinishMoves, DeviceMoves, EventMoves,
           ConsumerMoves, WaitingMoves, SubmitMoves, InvokeMoves, Zenon DEF Step

(* A step of thread t leaves the other threads alone, and its own call. *)
Framed(t) ==
  /\ \A u \in Threads : u # t => th'[u] = th[u]
  /\ th'[t].k = <<>> \/ th'[t].call = th[t].call

(* The ways a step writes its thread *)
Shape(t, a, b, c, d) ==
  \/ th' = th
  \/ th' = [th EXCEPT ![t] = Idle]
  \/ th' = [th EXCEPT ![t].k = a]
  \/ th' = [th EXCEPT ![t].seen = a]
  \/ th' = [th EXCEPT ![t].k = a, ![t].seen = b]
  \/ th' = [th EXCEPT ![t].ce = b, ![t].k = a]
  \/ th' = [th EXCEPT ![t].cq = b, ![t].k = a]
  \/ th' = [th EXCEPT ![t].k = a, ![t].quiet = b]
  \/ th' = [th EXCEPT ![t].todo = c, ![t].cq = b, ![t].k = a]
  \/ th' = [th EXCEPT ![t].cq = b, ![t].need = c, ![t].k = a]
  \/ th' = [th EXCEPT ![t].cq = b, ![t].deps = d, ![t].need = c, ![t].k = a]

(* A step of one of these shapes *)
LEMMA ThreadFrame ==
  ASSUME TypeOK, NEW t \in Threads, NEW a, NEW b, NEW c, NEW d,
         Shape(t, a, b, c, d)
  PROVE  Framed(t)
<1>0. th \in [Threads -> ThreadStates] /\ th[t] \in ThreadStates
  BY Zenon DEF TypeOK
<1>1. ASSUME NEW y, th' = [th EXCEPT ![t] = y], y.k = <<>> \/ y.call = th[t].call
      PROVE  Framed(t)
  BY <1>0, <1>1, Zenon DEF Framed
<1>2. CASE th' = th
  BY <1>2, Zenon DEF Framed
<1>3. CASE th' = [th EXCEPT ![t] = Idle]
  BY <1>1, <1>3, Zenon DEF Idle
<1>4. CASE th' = [th EXCEPT ![t].k = a]
  <2>1. th' = [th EXCEPT ![t] = [th[t] EXCEPT !.k = a]]
    BY <1>4, Zenon
  <2>2. [th[t] EXCEPT !.k = a].call = th[t].call
    BY <1>0, Zenon DEF ThreadStates
  <2> QED BY <1>1, <2>1, <2>2, Zenon
<1>5. CASE th' = [th EXCEPT ![t].seen = a]
  <2>1. th' = [th EXCEPT ![t] = [th[t] EXCEPT !.seen = a]]
    BY <1>5, Zenon
  <2>2. [th[t] EXCEPT !.seen = a].call = th[t].call
    BY <1>0, Zenon DEF ThreadStates
  <2> QED BY <1>1, <2>1, <2>2, Zenon
<1>6. CASE th' = [th EXCEPT ![t].k = a, ![t].seen = b]
  <2> DEFINE y == [th[t] EXCEPT !.k = a, !.seen = b]
  <2>1. (\A u \in Threads : u # t => th'[u] = th[u]) /\ th'[t] = y
    BY <1>0, <1>6, Zenon
  <2>2. y.call = th[t].call
    BY <1>0, Zenon DEF ThreadStates
  <2> QED BY <2>1, <2>2, Zenon DEF Framed
<1>7. CASE th' = [th EXCEPT ![t].ce = b, ![t].k = a]
  <2> DEFINE y == [th[t] EXCEPT !.ce = b, !.k = a]
  <2>1. (\A u \in Threads : u # t => th'[u] = th[u]) /\ th'[t] = y
    BY <1>0, <1>7, Zenon
  <2>2. y.call = th[t].call
    BY <1>0, Zenon DEF ThreadStates
  <2> QED BY <2>1, <2>2, Zenon DEF Framed
<1>8. CASE th' = [th EXCEPT ![t].cq = b, ![t].k = a]
  <2> DEFINE y == [th[t] EXCEPT !.cq = b, !.k = a]
  <2>1. (\A u \in Threads : u # t => th'[u] = th[u]) /\ th'[t] = y
    BY <1>0, <1>8, Zenon
  <2>2. y.call = th[t].call
    BY <1>0, Zenon DEF ThreadStates
  <2> QED BY <2>1, <2>2, Zenon DEF Framed
<1>9. CASE th' = [th EXCEPT ![t].k = a, ![t].quiet = b]
  <2> DEFINE y == [th[t] EXCEPT !.k = a, !.quiet = b]
  <2>1. (\A u \in Threads : u # t => th'[u] = th[u]) /\ th'[t] = y
    BY <1>0, <1>9, Zenon
  <2>2. y.call = th[t].call
    BY <1>0, Zenon DEF ThreadStates
  <2> QED BY <2>1, <2>2, Zenon DEF Framed
<1>10. CASE th' = [th EXCEPT ![t].todo = c, ![t].cq = b, ![t].k = a]
  <2> DEFINE y == [th[t] EXCEPT !.todo = c, !.cq = b, !.k = a]
  <2>1. (\A u \in Threads : u # t => th'[u] = th[u]) /\ th'[t] = y
    BY <1>0, <1>10, Zenon
  <2>2. y.call = th[t].call
    BY <1>0, Zenon DEF ThreadStates
  <2> QED BY <2>1, <2>2, Zenon DEF Framed
<1>11. CASE th' = [th EXCEPT ![t].cq = b, ![t].need = c, ![t].k = a]
  <2> DEFINE y == [th[t] EXCEPT !.cq = b, !.need = c, !.k = a]
  <2>1. (\A u \in Threads : u # t => th'[u] = th[u]) /\ th'[t] = y
    BY <1>0, <1>11, Zenon
  <2>2. y.call = th[t].call
    BY <1>0, Zenon DEF ThreadStates
  <2> QED BY <2>1, <2>2, Zenon DEF Framed
<1>12. CASE th' = [th EXCEPT ![t].cq = b, ![t].deps = d, ![t].need = c, ![t].k = a]
  <2> DEFINE y == [th[t] EXCEPT !.cq = b, !.deps = d, !.need = c, !.k = a]
  <2>1. (\A u \in Threads : u # t => th'[u] = th[u]) /\ th'[t] = y
    BY <1>0, <1>12, Zenon
  <2>2. y.call = th[t].call
    BY <1>0, Zenon DEF ThreadStates
  <2> QED BY <2>1, <2>2, Zenon DEF Framed
<1> QED BY <1>2, <1>3, <1>4, <1>5, <1>6, <1>7, <1>8, <1>9, <1>10, <1>11, <1>12, Zenon DEF Shape

(* Every step of a call is one. *)
LEMMA StepFrame ==
  ASSUME RingInv, NEW t \in Threads, Step(t)
  PROVE  Framed(t) /\ th[t].k # <<>> /\ left' = left
<1>0. TypeOK
  BY Zenon DEF RingInv
<1>1. ASSUME NEW s, Goto(t, s) PROVE Framed(t)
  <2>1. th' = [th EXCEPT ![t].k = Then(t, s)]
    BY <1>1, Zenon DEF Goto
  <2> QED BY <1>0, <2>1, ThreadFrame, Zenon DEF Shape
<1>2. ASSUME Return(t) \/ Fail(t) PROVE Framed(t)
  <2>1. th' = [th EXCEPT ![t] = Idle]
    BY <1>2, Zenon DEF Return, Fail
  <2> QED BY <1>0, <2>1, ThreadFrame, Zenon DEF Shape
<1>3. ASSUME NEW a, NEW b, NEW c, NEW d, Shape(t, a, b, c, d) PROVE Framed(t)
  BY <1>0, <1>3, ThreadFrame, Zenon
<1>4. ASSUME \/ WaitFront(t) \/ EnsureCapacity(t) \/ CheckCapacity(t) \/ SynchronizeQueue(t)
             \/ EnsureScratch(t) \/ ReplaceQueue(t)
             \/ SubmitKernel(t) \/ RecordSubmit(t) \/ SubmitFails(t) \/ QueueDelete(t)
             \/ Leave(t) \/ EventDelete(t) \/ Unpin(t) \/ WaitForSynchronizers(t) \/ HostWait(t)
             \/ Revalidate(t) \/ EventFinished(t)
      PROVE  Framed(t) /\ left' = left
  BY <1>1, <1>2, <1>4, ZenonT(60) DEF WaitFront, EnsureCapacity, CheckCapacity, SynchronizeQueue,
     EnsureScratch, ReplaceQueue, SubmitKernel, RecordSubmit, SubmitFails, QueueDelete,
     Leave, EventDelete, Unpin, WaitForSynchronizers, HostWait, Revalidate, EventFinished
<1>5. ASSUME ReapDispatch(t) \/ ReapEvents(t) \/ FinishEvent(t) \/ SynchronizeDevice(t)
      PROVE  Framed(t) /\ left' = left
  BY <1>1, <1>3, <1>5, ZenonT(60) DEF ReapDispatch, ReapEvents, FinishEvent, SynchronizeDevice, Shape
<1>6. ASSUME ReapBarriers(t)
      PROVE  Framed(t) /\ left' = left
  BY <1>3, <1>6, ZenonT(60) DEF ReapBarriers, Shape
<1>7. ASSUME CollectDependencies(t)
      PROVE  Framed(t) /\ left' = left
  <2> DEFINE D == Collect(th[t].call.deps)
             n == barrier_count(D) + 1
             k == <<"scratch", "capacity", "submit">>
  <2>1. \/ Return(t)
        \/ th' = [th EXCEPT ![t].cq = th[t].call.q, ![t].deps = D, ![t].need = n, ![t].k = k]
    BY <1>7, Zenon DEF CollectDependencies
  <2>2. left' = left
    BY <1>7, Zenon DEF CollectDependencies
  <2> HIDE DEF D, n, k
  <2>3. Return(t) \/ Shape(t, k, th[t].call.q, n, D)
    BY <2>1, Zenon DEF Shape
  <2> QED BY <1>2, <1>3, <2>2, <2>3, Zenon
<1>9. ASSUME WaitForEvent(t) \/ Record(t)
      PROVE  Framed(t) /\ left' = left
  BY <1>2, <1>3, <1>9, Zenon DEF WaitForEvent, Record, Shape
<1>10. ASSUME WaitForConsumers(t)
      PROVE  Framed(t) /\ left' = left
  BY <1>2, <1>3, <1>10, Zenon DEF WaitForConsumers, Shape
<1>8. th[t].k # <<>>
  BY ZenonT(60) DEF Step, WaitFront, EnsureCapacity, CheckCapacity, SynchronizeQueue,
     EnsureScratch, ReplaceQueue, SubmitKernel, RecordSubmit, SubmitFails, QueueDelete,
     Leave, EventDelete, Unpin, WaitForSynchronizers, HostWait, Revalidate, EventFinished,
     ReapDispatch, ReapEvents, FinishEvent, SynchronizeDevice, ReapBarriers,
     CollectDependencies, WaitForEvent, WaitForConsumers, Record, At
<1> QED BY <1>4, <1>5, <1>6, <1>7, <1>8, <1>9, <1>10, Zenon DEF Step

(* What a step of t does to the events other threads rely on *)
EventFrame(t) ==
  \A e \in Events :
    /\ \A u \in Threads : u # t /\ u \in ev[e].syncs => u \in ev'[e].syncs
    /\ ev[e].live /\ ev[e].destroying =>
         \/ ev'[e].live /\ ev'[e].destroying
         \/ th[t].k # <<>> /\ th[t].call.name = "event_destroy" /\ th[t].call.e = e
    /\ val[e] = 0 => val'[e] = 0 \/ Settled(e)
    /\ ev[e].live => ev'[e].live \/ Settled(e)

(* The first step of a call touches no queue and no signal, and only an event no *)
(* other thread is destroying is marked for destruction.                    *)
LEMMA InvokeFrame ==
  ASSUME RingInv, NEW t \in Threads, Invoke(t)
  PROVE  /\ \A u \in Threads : u # t => th'[u] = th[u]
         /\ th[t].k = <<>> /\ lock = NoThread /\ lock' \in {t, NoThread}
         /\ \A u \in Threads : left'[u].calls = left[u].calls
         /\ th'[t].call.name = "event_destroy" => Usable(th'[t].call.e)
         /\ UNCHANGED <<queueVars, live, val>>
<1>0. th \in [Threads -> ThreadStates] /\ left \in [Threads -> Budgets]
  BY Zenon DEF RingInv, TypeOK
<1>1. ASSUME NEW y, th' = [th EXCEPT ![t] = y]
      PROVE  (\A u \in Threads : u # t => th'[u] = th[u]) /\ th'[t] = y
  BY <1>0, <1>1, Zenon
<1>2. ASSUME left' = [left EXCEPT ![t].count = @ - 1]
      PROVE  \A u \in Threads : left'[u].calls = left[u].calls
  BY <1>0, <1>2, Zenon DEF Budgets
<1>3. ASSUME NEW c, NEW Q, NEW s, Begin(t, c, Q, s)
      PROVE  /\ \A u \in Threads : u # t => th'[u] = th[u]
             /\ th[t].k = <<>> /\ lock = NoThread /\ lock' = t
             /\ \A u \in Threads : left'[u].calls = left[u].calls
             /\ th'[t].call = c
  <2>1. /\ th[t].k = <<>> /\ lock = NoThread /\ lock' = t
        /\ \A u \in Threads : left'[u].calls = left[u].calls
    BY <1>2, <1>3, Zenon DEF Begin
  <2>2. \A u \in Threads : u # t => th'[u] = th[u]
    BY <1>1, <1>3, Zenon DEF Begin
  <2>3. th'[t].call = c
    BY <1>3, BeginFields, Zenon
  <2> QED BY <2>1, <2>2, <2>3, Zenon
<1>4. CASE Launch(t)
  BY <1>3, <1>4, Zenon DEF Launch
<1>5. CASE QueueCall(t)
  BY <1>3, <1>5, Zenon DEF QueueCall
<1>6. CASE DeviceCall(t)
  BY <1>3, <1>6, Zenon DEF DeviceCall
<1>7. CASE EventCall(t)
  BY <1>3, <1>7, Zenon DEF EventCall
<1>8. CASE EventSynchronize(t)
  <2>1. PICK c \in left[t].calls :
          /\ c.name = "event_synchronize" /\ lock = NoThread /\ lock' = lock /\ th[t].k = <<>>
          /\ left' = [left EXCEPT ![t].count = @ - 1] /\ UNCHANGED <<queueVars, live, val>>
          /\ th' = [th EXCEPT ![t] = [Idle EXCEPT !.call = c, !.ce = c.e,
                       !.k = <<"host_wait", "finish_event", "unpin">>]]
    BY <1>8, Zenon DEF EventSynchronize
  <2>2. /\ \A u \in Threads : u # t => th'[u] = th[u]
        /\ th'[t] = [Idle EXCEPT !.call = c, !.ce = c.e,
                       !.k = <<"host_wait", "finish_event", "unpin">>]
    BY <1>1, <2>1, Zenon
  <2>3. th'[t].call = c
    BY <2>2, Zenon DEF Idle
  <2>4. \A u \in Threads : left'[u].calls = left[u].calls
    BY <1>2, <2>1, Zenon
  <2>5. th'[t].call.name # "event_destroy"
    BY <2>1, <2>3, Zenon
  <2> QED BY <2>1, <2>2, <2>4, <2>5, Zenon
<1> QED BY <1>4, <1>5, <1>6, <1>7, <1>8, Zenon DEF Invoke

(* The lock is only taken from no thread and only given up by its holder;  *)
(* without it a thread only polls a signal.                                 *)
LEMMA LockFrame ==
  ASSUME RingInv, NEW t \in Threads, Step(t)
  PROVE  \/ lock \in {t, NoThread} /\ lock' \in {t, NoThread}
         \/ UNCHANGED <<lock, queueVars, live, val, ev, left>>
<1>0. ASSUME NEW l, At(t, l), l \notin Unlocked PROVE lock = t
  BY <1>0, Runs, Zenon
<1>1. CASE At(t, "host_wait")
  <2>1. HostWait(t)
    BY <1>1, ZenonT(60) DEF Step, WaitFront, EnsureCapacity, CheckCapacity, SynchronizeQueue,
     EnsureScratch, ReplaceQueue, SubmitKernel, RecordSubmit, SubmitFails, QueueDelete,
     Leave, EventDelete, Unpin, WaitForSynchronizers, HostWait, Revalidate, EventFinished,
     ReapDispatch, ReapEvents, FinishEvent, SynchronizeDevice, ReapBarriers,
     CollectDependencies, WaitForEvent, WaitForConsumers, Record, At
  <2>2. ~At(t, "relock")
    BY <1>1, Zenon DEF At
  <2> QED BY <2>1, <2>2, Zenon DEF HostWait
<1>2. CASE HostWait(t) \/ WaitForSynchronizers(t)
  <2>1. "synchronizers" \notin Unlocked
    BY Zenon DEF Unlocked
  <2>2. At(t, "synchronizers") => lock = t
    BY <1>0, <2>1, Zenon
  <2> QED BY <1>1, <1>2, <2>2, Zenon DEF HostWait, WaitForSynchronizers
<1>3. CASE ~(HostWait(t) \/ WaitForSynchronizers(t))
  <2>1. lock = t
    BY <1>0, <1>3, ZenonT(60) DEF Step, WaitFront, EnsureCapacity, CheckCapacity, SynchronizeQueue,
     EnsureScratch, ReplaceQueue, SubmitKernel, RecordSubmit, SubmitFails, QueueDelete,
     Leave, EventDelete, Unpin, Revalidate, EventFinished,
     ReapDispatch, ReapEvents, FinishEvent, SynchronizeDevice, ReapBarriers,
     CollectDependencies, WaitForEvent, WaitForConsumers, Record, Unlocked
  <2>2. lock' \in {lock, NoThread}
    BY <1>3, ZenonT(60) DEF Step, WaitFront, EnsureCapacity, CheckCapacity, SynchronizeQueue,
     EnsureScratch, ReplaceQueue, SubmitKernel, RecordSubmit, SubmitFails, QueueDelete,
     Leave, EventDelete, Unpin, Revalidate, EventFinished,
     ReapDispatch, ReapEvents, FinishEvent, SynchronizeDevice, ReapBarriers,
     CollectDependencies, WaitForEvent, WaitForConsumers, Record, Return, Fail
  <2> QED BY <2>1, <2>2, Zenon
<1> QED BY <1>2, <1>3, Zenon

(* Steps that touch no event and no signal *)
LEMMA SameEvents ==
  ASSUME NEW t \in Threads, UNCHANGED <<ev, val>>
  PROVE  EventFrame(t)
BY Zenon DEF EventFrame

(* Steps that may fail, which takes back a destroying mark *)
LEMMA FailFrame ==
  ASSUME RingInv, NEW t \in Threads, th[t].k # <<>>, Fail(t) \/ ev' = ev, val' = val
  PROVE  EventFrame(t)
<1>0. ev \in [Events -> EventStates]
  BY Zenon DEF RingInv, TypeOK
<1>1. CASE ev' = ev
  BY <1>1, SameEvents, Zenon
<1>2. CASE Fail(t) /\ ev' # ev
  <2> DEFINE c == th[t].call
  <2>1. c.name = "event_destroy" /\ ev' = [ev EXCEPT ![c.e].destroying = FALSE]
    BY <1>2, Zenon DEF Fail
  <2> HIDE DEF c
  <2>2. \A e \in Events : e # c.e => ev'[e] = ev[e]
    BY <1>0, <2>1, Zenon
  <2>3. \A e \in Events : ev'[e].syncs = ev[e].syncs /\ ev'[e].live = ev[e].live
    BY <1>0, <2>1, Zenon DEF EventStates
  <2> QED BY <2>1, <2>2, <2>3, Zenon DEF EventFrame, c
<1> QED BY <1>1, <1>2, Zenon

(* What the step that submits for event e knows of it *)
LEMMA SubmitKnows ==
  ASSUME RingInv, NEW t \in Threads, At(t, "submit") \/ At(t, "record_submit")
  PROVE  LET e == th[t].call.e
         IN  /\ e = NoEvent \/ (e \in Events /\ th[t].quiet /\ Settled(e))
             /\ At(t, "record_submit") => e \in Events
             /\ HasRoom(th[t].cq, th[t].need) /\ th[t].cq \in Queues
             /\ At(t, "submit") => th[t].need = barrier_count(th[t].deps) + 1
             /\ At(t, "record_submit") => th[t].need = 1
             /\ lock = t
<1> DEFINE x == th[t]
<1>1. PICK l \in {"submit", "record_submit"} : At(t, l)
  OBVIOUS
<1>2. /\ lock = t /\ Serves(x.call.name, l) /\ WellFormed(x.call) /\ Head(x.k) = l
      /\ x.k \in Seq(Labels) /\ x.k # <<>> /\ QuiesceInv(t) /\ SubmitInv(t)
      /\ l \in QueueLabels => x.cq \in Queues
  BY <1>1, Runs, Zenon DEF Unlocked
<1>3. x.cq \in Queues
  BY <1>2, Zenon DEF QueueLabels
<1>4. Has(x.k, l)
  BY <1>2 DEF Has
<1>5. /\ x.quiet => Settled(x.call.e)
      /\ l = "submit" => x.need = barrier_count(x.deps) + 1 /\ (x.call.name = "memcpy_async" => x.quiet)
      /\ l = "record_submit" => x.need = 1 /\ x.quiet
      /\ HasRoom(x.cq, x.need)
  BY <1>2, <1>4, Zenon DEF QuiesceInv, SubmitInv
<1>6. /\ l = "submit" => x.call.name = "memcpy_async" \/ x.call.name = "launch"
      /\ l = "record_submit" => x.call.name = "event_record"
  BY <1>2, Zenon DEF Serves, KernelCalls
<1>7. /\ x.call.name = "launch" => x.call.e = NoEvent
      /\ x.call.name \in {"memcpy_async", "event_record"} => x.call.e \in Events
  BY <1>2, Zenon DEF WellFormed
<1>8. /\ At(t, "submit") => l = "submit"
      /\ At(t, "record_submit") => l = "record_submit"
  BY <1>1, Zenon DEF At
<1> QED BY <1>2, <1>3, <1>5, <1>6, <1>7, <1>8, Zenon

(* Only a settled event has its signal re-armed or is freed. *)
LEMMA EventFrames ==
  ASSUME RingInv, NEW t \in Threads, Step(t) \/ Invoke(t)
  PROVE  EventFrame(t)
<1>0. ev \in [Events -> EventStates] /\ val \in [Events -> {0, 1}]
  BY Zenon DEF RingInv, TypeOK
<1> DEFINE c == th[t].call
<1>1. CASE \/ ReapBarriers(t) \/ ReapDispatch(t) \/ ReapEvents(t) \/ FinishEvent(t)
           \/ WaitFront(t) \/ SynchronizeDevice(t) \/ CollectDependencies(t) \/ QueueDelete(t)
           \/ Leave(t) \/ WaitForSynchronizers(t) \/ Revalidate(t) \/ WaitForEvent(t)
           \/ Record(t) \/ HostWait(t) \/ Launch(t) \/ QueueCall(t) \/ DeviceCall(t)
  <2>1. UNCHANGED <<ev, val>>
    BY <1>1, ZenonT(30) DEF ReapBarriers, ReapDispatch, ReapEvents, FinishEvent,
       WaitFront, SynchronizeDevice, CollectDependencies, QueueDelete, Leave,
       WaitForSynchronizers, Revalidate, WaitForEvent, Record, HostWait, Launch, QueueCall,
       DeviceCall
  <2> QED BY <2>1, SameEvents, Zenon
<1>2. CASE \/ EnsureCapacity(t) \/ CheckCapacity(t) \/ SynchronizeQueue(t) \/ EnsureScratch(t)
           \/ ReplaceQueue(t) \/ WaitForConsumers(t)
  <2>1. (Fail(t) \/ ev' = ev) /\ val' = val /\ th[t].k # <<>>
    BY <1>2, ZenonT(30) DEF EnsureCapacity, CheckCapacity, SynchronizeQueue, EnsureScratch,
       ReplaceQueue, WaitForConsumers, At
  <2> QED BY <2>1, FailFrame, Zenon
<1>3. CASE EventFinished(t)
  <2> DEFINE e == th[t].ce
  <2>1. /\ val' = val
        /\ ev' = [ev EXCEPT ![e] = [@ EXCEPT !.pending = FALSE, !.completed = TRUE,
                                             !.rq = NoQueue]]
    BY <1>3, Zenon DEF EventFinished
  <2> HIDE DEF e
  <2>2. \A f \in Events : ev'[f].syncs = ev[f].syncs /\ ev'[f].live = ev[f].live
                          /\ ev'[f].destroying = ev[f].destroying
    BY <1>0, <2>1 DEF EventStates
  <2> QED BY <2>1, <2>2, Zenon DEF EventFrame
<1>4. CASE SubmitKernel(t) \/ RecordSubmit(t) \/ SubmitFails(t)
  <2> DEFINE e == th[t].call.e
             q == th[t].cq
  <2>0. At(t, "submit") \/ At(t, "record_submit")
    BY <1>4, Zenon DEF SubmitKernel, RecordSubmit, SubmitFails
  <2>1. (e = NoEvent \/ (e \in Events /\ Settled(e)))
        /\ (At(t, "record_submit") => e \in Events)
    BY <2>0, SubmitKnows, Zenon
  <2>2. \/ ev' = ev /\ \A f \in Events : val'[f] = val[f] \/ val'[f] = 0
        \/ /\ ev' = [ev EXCEPT ![e] = [@ EXCEPT !.pending = TRUE, !.completed = FALSE, !.rq = q]]
           /\ val' = [val EXCEPT ![e] = 1] /\ e \in Events
    <3>1. CASE SubmitKernel(t)
      <4>1. \/ UNCHANGED <<val, ev, pe>>
            \/ /\ e # NoEvent /\ val' = [val EXCEPT ![e] = 1]
               /\ ev' = [ev EXCEPT ![e] = [@ EXCEPT !.pending = TRUE, !.completed = FALSE, !.rq = q]]
        BY <3>1, Zenon DEF SubmitKernel
      <4> QED BY <2>1, <4>1, Zenon
    <3>2. CASE RecordSubmit(t)
      BY <2>1, <3>2, Zenon DEF RecordSubmit
    <3>3. CASE SubmitFails(t)
      <4>1. ev' = ev /\ val' \in {val, [x \in Events |-> IF x = e THEN 0 ELSE val[x]]}
        BY <3>3, Zenon DEF SubmitFails
      <4> HIDE DEF e
      <4> QED BY <1>0, <4>1, Zenon
    <3> QED BY <1>4, <3>1, <3>2, <3>3, Zenon
  <2> HIDE DEF e, q
  <2>3. CASE ev' = ev /\ \A f \in Events : val'[f] = val[f] \/ val'[f] = 0
    BY <1>0, <2>3, Zenon DEF EventFrame
  <2>4. CASE /\ ev' = [ev EXCEPT ![e] = [@ EXCEPT !.pending = TRUE, !.completed = FALSE, !.rq = q]]
             /\ val' = [val EXCEPT ![e] = 1] /\ e \in Events
    <3>1. \A f \in Events : ev'[f].syncs = ev[f].syncs /\ ev'[f].live = ev[f].live
                            /\ ev'[f].destroying = ev[f].destroying
      BY <1>0, <2>4, Zenon DEF EventStates
    <3>2. \A f \in Events : f # e => val'[f] = val[f]
      BY <1>0, <2>4, Zenon
    <3>3. e # NoEvent
      BY <2>4, QueueAssumption, Zenon
    <3> QED BY <2>1, <2>4, <3>1, <3>2, <3>3 DEF EventFrame
  <2> QED BY <2>2, <2>3, <2>4, Zenon
<1>5. CASE EventDelete(t)
  <2>1. At(t, "event_delete") /\ val' = val /\ ev' = [ev EXCEPT ![c.e].live = FALSE]
    BY <1>5, Zenon DEF EventDelete
  <2>2. c.name = "event_destroy" /\ th[t].k # <<>>
    BY <2>1, Runs, Zenon DEF Serves
  <2>4. Settled(c.e)
    BY <2>1, Runs DEF Unlocked, QuiesceInv
  <2> HIDE DEF c
  <2>3. \A f \in Events : ev'[f].syncs = ev[f].syncs /\ (f # c.e => ev'[f] = ev[f])
    BY <1>0, <2>1, Zenon DEF EventStates
  <2> QED BY <2>1, <2>2, <2>3, <2>4, Zenon DEF EventFrame, c
<1>6. CASE Unpin(t)
  <2>1. val' = val /\ ev' = [ev EXCEPT ![c.e].syncs = @ \ {t}]
    BY <1>6, Zenon DEF Unpin
  <2> HIDE DEF c
  <2>3. \A f \in Events : ev'[f].live = ev[f].live /\ ev'[f].destroying = ev[f].destroying
                          /\ \A u \in Threads : u # t /\ u \in ev[f].syncs => u \in ev'[f].syncs
    BY <1>0, <2>1 DEF EventStates
  <2> QED BY <2>1, <2>3, Zenon DEF EventFrame
<1>7. CASE EventCall(t)
  <2>1. PICK d \in left[t].calls :
          /\ Usable(d.e) /\ val' = val
          /\ ev' = [ev EXCEPT ![d.e].destroying = d.name = "event_destroy"]
    BY <1>7, Zenon DEF EventCall
  <2>2. \A f \in Events : ev'[f].syncs = ev[f].syncs /\ (f # d.e => ev'[f] = ev[f])
                          /\ ev'[f].live = ev[f].live
    BY <1>0, <2>1 DEF EventStates
  <2> QED BY <2>1, <2>2, Zenon DEF EventFrame, Usable
<1>8. CASE EventSynchronize(t)
  <2>1. PICK d \in left[t].calls : val' = val /\ ev' = [ev EXCEPT ![d.e].syncs = @ \cup {t}]
    BY <1>8, Zenon DEF EventSynchronize
  <2>2. \A f \in Events : ev'[f].live = ev[f].live /\ ev'[f].destroying = ev[f].destroying
                          /\ \A u \in Threads : u \in ev[f].syncs => u \in ev'[f].syncs
    BY <1>0, <2>1 DEF EventStates
  <2> QED BY <2>1, <2>2, Zenon DEF EventFrame
<1> QED BY <1>1, <1>2, <1>3, <1>4, <1>5, <1>6, <1>7, <1>8, Zenon DEF Step, Invoke

(* A thread without the lock keeps what it relies on through a step of another. *)
LEMMA OtherThread ==
  ASSUME RingInv, NEW t \in Threads, NEW u \in Threads, u # t, EventFrame(t), OneDestroyer,
         th'[u] = th[u], lock \in {t, NoThread}, lock' \in {t, NoThread}
  PROVE  OwnInv(u)'
<1> DEFINE x == th[u]
           e == th[u].call.e
<1>0. lock # u /\ lock' # u
  BY QueueAssumption
<1>1. CallInv(u)
  BY Zenon DEF RingInv
<1>2. CASE x.k = <<>>
  BY <1>0, <1>2, Zenon DEF OwnInv, CallInv, HeldInv
<1>3. CASE x.k # <<>>
  <2>1. WellFormed(x.call) /\ (WellFormed(th[u].call))'
    BY <1>1, <1>3, Zenon DEF CallInv, WellFormed
  <2>2. x.call.name = "event_synchronize" => e \in Events /\ u \in ev[e].syncs /\ u \in ev'[e].syncs
    BY <1>1, <1>3, <2>1, Zenon DEF CallInv, WellFormed, EventFrame
  <2>3. Head(x.k) = "relock" => val[e] = 0 /\ x.call.name = "event_synchronize"
    <3>1. Head(x.k) = "relock" => val[e] = 0 /\ Stacked(x.call.name, x.k)
      BY <1>1, <1>3, Zenon DEF CallInv
    <3>2. x.k \in Seq(Labels)
      BY Zenon DEF RingInv, TypeOK, ThreadStates
    <3>3. Stacked(x.call.name, x.k) => Serves(x.call.name, Head(x.k))
      BY <1>3, <3>2 DEF Stacked
    <3> QED BY <3>1, <3>3, Zenon DEF Serves
  <2>4. Head(x.k) = "relock" => val'[e] = 0
    BY <2>2, <2>3, Zenon DEF EventFrame, Settled
  <2>5. x.call.name = "event_destroy" => ev'[e].live /\ ev'[e].destroying
    <3>1. x.call.name = "event_destroy" => e \in Events /\ ev[e].live /\ ev[e].destroying
      BY <1>1, <1>3, <2>1, Zenon DEF CallInv, WellFormed
    <3>2. x.call.name = "event_destroy" =>
            ~(th[t].k # <<>> /\ th[t].call.name = "event_destroy" /\ th[t].call.e = e)
      BY <1>3, Zenon DEF OneDestroyer
    <3> QED BY <3>1, <3>2, Zenon DEF EventFrame
  <2>6. CallInv(u)'
    BY <1>0, <1>1, <1>3, <2>1, <2>2, <2>4, <2>5, Zenon DEF CallInv
  <2> QED BY <1>0, <2>6, Zenon DEF OwnInv, HeldInv
<1> QED BY <1>2, <1>3, Zenon

(* A thread keeps it through a step that writes nothing of the device. *)
LEMMA Undisturbed ==
  ASSUME RingInv, NEW u \in Threads, th'[u] = th[u],
         UNCHANGED <<lock, queueVars, live, val, ev>>
  PROVE  OwnInv(u)'
<1>1. CallInv(u) /\ HeldInv(u)
  BY Zenon DEF RingInv
<1>2. CallInv(u)'
  BY <1>1, Zenon DEF CallInv, WellFormed
<1>3. FinishInv(u) => FinishInv(u)'
  BY Zenon DEF FinishInv
<1>4. QuiesceInv(u) => QuiesceInv(u)'
  BY Zenon DEF QuiesceInv, Settled, dependency_queues, queueVars
<1>5. SubmitInv(u) => SubmitInv(u)'
  BY Zenon DEF SubmitInv, HasRoom, queueVars, barrier_count
<1>6. DrainInv(u) => DrainInv(u)'
  BY Zenon DEF DrainInv, queueVars
<1> QED BY <1>1, <1>2, <1>3, <1>4, <1>5, <1>6, Zenon DEF OwnInv, HeldInv

(* Every thread keeps what it relies on. *)
LEMMA ThreadsKept ==
  ASSUME RingInv, NEW t \in Threads, Step(t) \/ Invoke(t)
  PROVE  \A u \in Threads : OwnInv(u)'
<1> SUFFICES ASSUME NEW u \in Threads, u # t PROVE OwnInv(u)'
  BY OwnSteps
<1>0. EventFrame(t) /\ OneDestroyer
  BY EventFrames DEF RingInv
<1>1. CASE Step(t)
  <2>1. th'[u] = th[u]
    BY <1>1, StepFrame DEF Framed
  <2>2. CASE lock \in {t, NoThread} /\ lock' \in {t, NoThread}
    BY <1>0, <2>1, <2>2, OtherThread
  <2>3. CASE UNCHANGED <<lock, queueVars, live, val, ev, left>>
    BY <2>1, <2>3, Undisturbed
  <2> QED BY <1>1, <2>2, <2>3, LockFrame
<1>2. CASE Invoke(t)
  <2>1. th'[u] = th[u] /\ lock \in {t, NoThread} /\ lock' \in {t, NoThread}
    BY <1>2, InvokeFrame
  <2> QED BY <1>0, <2>1, OtherThread
<1> QED BY <1>1, <1>2

(* A second lr_event_destroy of an event finds it marked. *)
LEMMA DestroyerKept ==
  ASSUME RingInv, NEW t \in Threads, Step(t) \/ Invoke(t)
  PROVE  OneDestroyer' /\ ProgramInv'
<1>0. OneDestroyer /\ ProgramInv /\ \A u \in Threads : CallInv(u)
  BY Zenon DEF RingInv
<1>1. CASE Step(t)
  <2>1. /\ \A u \in Threads : u # t => th'[u] = th[u]
        /\ th'[t].k = <<>> \/ th'[t].call = th[t].call
        /\ th[t].k # <<>> /\ left' = left
    BY <1>1, StepFrame, Zenon DEF Framed
  <2>2. \A u \in Threads : th'[u].k # <<>> => th[u].k # <<>> /\ th'[u].call = th[u].call
    BY <2>1, Zenon
  <2>3. OneDestroyer'
    BY <1>0, <2>2, Zenon DEF OneDestroyer
  <2>4. ProgramInv'
    BY <1>0, <2>1, Zenon DEF ProgramInv, WellFormed
  <2> QED BY <2>3, <2>4, Zenon
<1>2. CASE Invoke(t)
  <2>1. /\ \A u \in Threads : u # t => th'[u] = th[u]
        /\ \A u \in Threads : left'[u].calls = left[u].calls
        /\ th'[t].call.name = "event_destroy" => ~ev[th'[t].call.e].destroying
    BY <1>2, InvokeFrame, Zenon DEF Usable
  <2>2. \A u \in Threads : th[u].k # <<>> /\ th[u].call.name = "event_destroy" =>
          ev[th[u].call.e].destroying
    BY <1>0, Zenon DEF CallInv
  <2>3. OneDestroyer'
    BY <1>0, <2>1, <2>2 DEF OneDestroyer
  <2>4. ProgramInv'
    BY <1>0, <2>1, Zenon DEF ProgramInv, WellFormed
  <2> QED BY <2>3, <2>4, Zenon
<1> QED BY <1>1, <1>2, Zenon
=============================================================================
