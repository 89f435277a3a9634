------------------------ MODULE LightRocrRingProofs -------------------------
(***************************************************************************)
(* Packets, lists and signals change together (SharedSteps, DeviceShared), so*)
(* RingInv is inductive: RingAccounted and SignalReuseSafe hold for any    *)
(* threads, queues, events, ring size, barrier width and calls.            *)
(***************************************************************************)
EXTENDS LightRocrProofs, LightRocrThreadProofs

(* Steps that write no list, no packet and no signal *)
LEMMA SharedFrame ==
  ASSUME SharedInv, UNCHANGED <<flight, wpos, pd, pb, pe, val>>,
         \A e \in Events : ev'[e].pending = ev[e].pending /\ ev'[e].rq = ev[e].rq
  PROVE  SharedInv'
<1>1. PacketInv'
  BY DEF SharedInv, PacketInv
<1>2. ListInv'
  BY DEF SharedInv, ListInv
<1>3. PacketsTracked' /\ WithinCapacity'
  BY Zenon DEF SharedInv, PacketsTracked, WithinCapacity
<1> QED BY <1>1, <1>2, <1>3, Zenon DEF SharedInv

(* A complete dispatch has no packet in flight. *)
LEMMA CompleteGone ==
  ASSUME RingInv, NEW q \in Queues, NEW d \in pd[q], completion_value(q, d) = 0,
         NEW p \in flight[q]
  PROVE  p.pos # d.id
<1>1. SUFFICES ASSUME p.pos = d.id PROVE FALSE
  OBVIOUS
<1>2. d.ev = p.ev /\ (p.ev # NoEvent => val[p.ev] = 1)
  BY <1>1 DEF RingInv, SharedInv, PacketInv
<1> QED BY <1>1, <1>2 DEF completion_value

(* Nothing in flight or on a list names a settled event. *)
LEMMA SettledFree ==
  ASSUME RingInv, NEW e \in Events, Settled(e)
  PROVE  \A q \in Queues :
           /\ \A p \in flight[q] : p.ev # e /\ e \notin p.deps
           /\ \A x \in pe[q] : x.ev # e
<1> TAKE q \in Queues
<1>1. \A x \in pe[q] : x.ev # e
  BY Zenon DEF RingInv, SharedInv, ListInv, Settled
<1>2. ASSUME NEW p \in flight[q] PROVE p.ev # e /\ e \notin p.deps
  <2>1. /\ p.deps # {} => \E b \in pb[q] : b.ret = p.ret /\ b.deps = p.deps
        /\ p.ev # NoEvent => \E x \in pe[q] : x.id = p.pos /\ x.ev = p.ev
    BY <1>2, Zenon DEF RingInv, SharedInv, PacketsTracked
  <2>2. \A b \in pb[q] : e \notin b.deps
    BY Zenon DEF Settled, dependency_queues
  <2>3. e # NoEvent
    BY QueueAssumption, Zenon
  <2> QED BY <1>1, <2>1, <2>2, <2>3, Zenon
<1> QED BY <1>1, <1>2, Zenon

(* A reap pass takes only entries off the lists whose packets are complete. *)
LEMMA RetireShared ==
  ASSUME RingInv, NEW t \in Threads, ReapBarriers(t) \/ ReapDispatch(t)
  PROVE  SharedInv'
<1>0. /\ pb \in [Queues -> SUBSET [ret : Nat, deps : SUBSET Events]]
      /\ pd \in [Queues -> SUBSET [id : Nat, ev : Events \cup {NoEvent}]]
      /\ SharedInv
  BY Zenon DEF RingInv, TypeOK
<1>1. CASE ReapBarriers(t)
  <2>1. UNCHANGED <<flight, wpos, pd, pe, val, ev>>
    BY <1>1, Zenon DEF ReapBarriers
  <2>2. pb' = pb \/ \E q \in Queues : \E b \in pb[q] : \E d \in pd[q] :
          d.id = b.ret /\ completion_value(q, d) = 0 /\ pb' = [pb EXCEPT ![q] = @ \ {b}]
    BY <1>1, Zenon DEF ReapBarriers
  <2>3. CASE pb' = pb
    BY <1>0, <2>1, <2>3, SharedFrame, Zenon
  <2>4. ASSUME NEW q \in Queues, NEW b \in pb[q], NEW d \in pd[q],
               d.id = b.ret, completion_value(q, d) = 0, pb' = [pb EXCEPT ![q] = @ \ {b}]
        PROVE  SharedInv'
    <3>1. PacketInv' /\ ListInv' /\ WithinCapacity'
      BY <1>0, <2>1 DEF SharedInv, PacketInv, ListInv, WithinCapacity
    <3>2. ASSUME NEW r \in Queues, NEW p \in flight[r], p.deps # {}
          PROVE  \E c \in pb'[r] : c.ret = p.ret /\ c.deps = p.deps
      <4>1. PICK c \in pb[r] : c.ret = p.ret /\ c.deps = p.deps
        BY <1>0, <3>2, Zenon DEF SharedInv, PacketsTracked
      <4>2. PICK o \in flight[r] : o.pos = p.ret
        BY <1>0, <3>2 DEF SharedInv, PacketInv
      <4>3. r = q => c # b
        BY <2>4, <4>1, <4>2, CompleteGone, Zenon
      <4>4. c \in pb'[r]
        BY <1>0, <2>4, <4>3, Zenon
      <4> QED BY <4>1, <4>4, Zenon
    <3>3. PacketsTracked'
      BY <1>0, <2>1, <3>2 DEF SharedInv, PacketsTracked
    <3> QED BY <3>1, <3>3, Zenon DEF SharedInv
  <2> QED BY <2>2, <2>3, <2>4, Zenon
<1>2. CASE ReapDispatch(t)
  <2> DEFINE q == th[t].cq
             ready == {d \in Oldest(pd[q]) : Reapable(q, d)}
  <2>1. UNCHANGED <<flight, wpos, pb, pe, val, ev>>
    BY <1>2, Zenon DEF ReapDispatch
  <2>2. pd' = pd \/ pd' = [pd EXCEPT ![q] = @ \ ready]
    BY <1>2, Zenon DEF ReapDispatch
  <2>3. \A d \in ready : d \in pd[q] /\ completion_value(q, d) = 0
    BY Zenon DEF Oldest, Reapable
  <2> HIDE DEF q, ready
  <2>4. CASE pd' = pd
    BY <1>0, <2>1, <2>4, SharedFrame, Zenon
  <2>5. CASE pd' = [pd EXCEPT ![q] = @ \ ready]
    <3>1. \A r \in Queues : pd'[r] \subseteq pd[r]
      BY <1>0, <2>5, Zenon
    <3>2. PacketInv' /\ ListInv' /\ WithinCapacity'
      BY <1>0, <2>1, <3>1 DEF SharedInv, PacketInv, ListInv, WithinCapacity
    <3>3. ASSUME NEW r \in Queues, NEW p \in flight[r], p.kind = "dispatch"
          PROVE  \E d \in pd'[r] : d.id = p.pos
      <4>1. PICK d \in pd[r] : d.id = p.pos
        BY <1>0, <3>3, Zenon DEF SharedInv, PacketsTracked
      <4>2. r = q => d \notin ready
        BY <2>3, <3>3, <4>1, CompleteGone, Zenon
      <4>3. d \in pd'[r]
        BY <1>0, <2>5, <4>2, Zenon
      <4> QED BY <4>1, <4>3, Zenon
    <3>4. PacketsTracked'
      BY <1>0, <2>1, <3>3 DEF SharedInv, PacketsTracked
    <3> QED BY <3>2, <3>4, Zenon DEF SharedInv
  <2> QED BY <2>2, <2>4, <2>5, Zenon
<1> QED BY <1>1, <1>2, Zenon

(* Finishing an event takes its one entry off the list of its queue. *)
LEMMA FinishShared ==
  ASSUME RingInv, NEW t \in Threads, EventFinished(t)
  PROVE  SharedInv'
<1> DEFINE e == th[t].ce
           q == th[t].cq
<1>0. /\ SharedInv /\ ev \in [Events -> EventStates]
      /\ pe \in [Queues -> SUBSET [id : Nat, ev : Events \cup {NoEvent}]]
  BY Zenon DEF RingInv, TypeOK
<1>1. /\ At(t, "event_finished")
      /\ pe' = [pe EXCEPT ![q] = {x \in @ : x.ev # e}]
      /\ ev' = [ev EXCEPT ![e] = [@ EXCEPT !.pending = FALSE, !.completed = TRUE,
                                           !.rq = NoQueue]]
      /\ UNCHANGED <<flight, wpos, pd, pb, val>>
  BY Zenon DEF EventFinished
<1>2. e \in Events /\ ev[e].rq = q /\ val[e] = 0 /\ q \in Queues
  <2>1. /\ th[t].k \in Seq(Labels) /\ th[t].k # <<>> /\ Head(th[t].k) = "event_finished"
        /\ FinishInv(t) /\ ("event_finished" \in QueueLabels => th[t].cq \in Queues)
    BY <1>1, Runs DEF Unlocked
  <2>2. Has(th[t].k, "event_finished")
    BY <2>1 DEF Has
  <2> QED BY <2>1, <2>2, Zenon DEF FinishInv, QueueLabels
<1> HIDE DEF e, q
<1>3. /\ \A r \in Queues : r # q => pe'[r] = pe[r]
      /\ pe'[q] = {x \in pe[q] : x.ev # e}
      /\ \A f \in Events : f # e => ev'[f] = ev[f]
  BY <1>0, <1>1, <1>2, Zenon
<1>4. \A r \in Queues : \A x \in pe[r] :
        x \in pe'[r] <=> x.ev # e
  <2>1. \A r \in Queues : \A x \in pe[r] : x.ev \in Events /\ ev[x.ev].rq = r
    BY <1>0, Zenon DEF SharedInv, ListInv
  <2> QED BY <1>2, <1>3, <2>1
<1>5. \A r \in Queues : pe'[r] \subseteq pe[r]
  BY <1>2, <1>3, Zenon
<1>6. PacketInv' /\ WithinCapacity'
  BY <1>0, <1>1 DEF SharedInv, PacketInv, WithinCapacity
<1>7. ListInv'
  BY <1>0, <1>1, <1>3, <1>4, <1>5 DEF SharedInv, ListInv
<1>8. PacketsTracked'
  <2>1. \A r \in Queues : \A p \in flight[r] : p.ev # NoEvent => p.ev # e
    BY <1>0, <1>2 DEF SharedInv, PacketInv
  <2>2. \A r \in Queues : \A p \in flight[r] : p.ev # NoEvent =>
          \E x \in pe'[r] : x.id = p.pos /\ x.ev = p.ev
    BY <1>0, <1>4, <2>1 DEF SharedInv, PacketsTracked
  <2> QED BY <1>0, <1>1, <2>2 DEF SharedInv, PacketsTracked
<1> QED BY <1>6, <1>7, <1>8, Zenon DEF SharedInv

(* A refused submission clears a signal no packet completes. *)
LEMMA RefusedShared ==
  ASSUME RingInv, NEW t \in Threads, SubmitFails(t)
  PROVE  SharedInv'
<1> DEFINE e == th[t].call.e
<1>0. SharedInv /\ val \in [Events -> {0, 1}] /\ flight \in [Queues -> SUBSET Packets]
  BY Zenon DEF RingInv, TypeOK
<1>1. /\ At(t, "submit") \/ At(t, "record_submit")
      /\ val' \in {val, [x \in Events |-> IF x = e THEN 0 ELSE val[x]]}
      /\ UNCHANGED <<flight, wpos, pd, pb, pe, ev>>
  BY Zenon DEF SubmitFails, queueVars
<1>2. e = NoEvent \/ (e \in Events /\ Settled(e))
  BY <1>1, SubmitKnows, Zenon
<1> HIDE DEF e
<1>3. \A q \in Queues : \A p \in flight[q] : p.ev # NoEvent => p.ev # e
  BY <1>2, SettledFree, Zenon
<1>4. \A q \in Queues : \A p \in flight[q] : p.ev # NoEvent => val'[p.ev] = val[p.ev]
  <2>1. \A q \in Queues : \A p \in flight[q] : p.ev \in Events \cup {NoEvent}
    BY <1>0 DEF Packets
  <2> QED BY <1>0, <1>1, <1>3, <2>1, Zenon
<1>5. PacketInv'
  BY <1>0, <1>1, <1>4 DEF SharedInv, PacketInv
<1>6. ListInv' /\ PacketsTracked' /\ WithinCapacity'
  BY <1>0, <1>1 DEF SharedInv, ListInv, PacketsTracked, WithinCapacity
<1> QED BY <1>5, <1>6, Zenon DEF SharedInv

(* The packets N written to queue q up to position id, with the list        *)
(* entries D and B, and e the event they complete.                          *)
NewPackets(q, e, N, D, B, id) ==
  \A p \in N :
    /\ wpos[q] < p.pos /\ p.pos <= id /\ p.pos \in Nat
    /\ \A o \in N : o.pos = p.pos => o = p
    /\ p.kind = "dispatch" \/ p.deps # {} \/ p.ev # NoEvent
    /\ p.ev # NoEvent => p.ev = e /\ p.pos = id
    /\ p.kind = "dispatch" => \E d \in D : d.id = p.pos
    /\ D # {} /\ p.pos = id => p.ev = e
    /\ p.deps # {} =>
         /\ p.kind = "barrier" /\ p.ret = id /\ p.pos < id
         /\ \E o \in N : o.pos = id /\ o.kind = "dispatch"
         /\ \E b \in B : b.ret = p.ret /\ b.deps = p.deps

(* The writes of a submission to the queue and its lists, and to the event *)
QueueWrite(q, N, D, B, id) ==
  /\ flight' = [flight EXCEPT ![q] = @ \cup N]
  /\ wpos' = [wpos EXCEPT ![q] = id]
  /\ pd' = [pd EXCEPT ![q] = @ \cup D]
  /\ pb' = [pb EXCEPT ![q] = @ \cup B]

EventWrite(q, e, id) ==
  /\ e = NoEvent => UNCHANGED <<pe, val, ev>>
  /\ e \in Events =>
       /\ pe' = [pe EXCEPT ![q] = @ \cup {[id |-> id, ev |-> e]}]
       /\ val'[e] = 1 /\ ev'[e].pending /\ ev'[e].rq = q
       /\ \A f \in Events : f # e => val'[f] = val[f] /\ ev'[f] = ev[f]

(* A submission keeps the packets and the lists in step. *)
LEMMA Submitted ==
  ASSUME RingInv, NEW q \in Queues, NEW e, NEW N, NEW D, NEW B, NEW id \in Nat, NEW n \in Nat,
         e = NoEvent \/ (e \in Events /\ Settled(e)),
         IsFiniteSet(N), Cardinality(N) <= n, HasRoom(q, n), wpos[q] < id,
         QueueWrite(q, N, D, B, id), EventWrite(q, e, id), NewPackets(q, e, N, D, B, id),
         \A d \in D : d.id = id /\ d.ev = e
  PROVE  SharedInv'
<1>0. /\ flight \in [Queues -> SUBSET Packets] /\ wpos \in [Queues -> Nat]
      /\ pd \in [Queues -> SUBSET [id : Nat, ev : Events \cup {NoEvent}]]
      /\ pb \in [Queues -> SUBSET [ret : Nat, deps : SUBSET Events]]
      /\ pe \in [Queues -> SUBSET [id : Nat, ev : Events \cup {NoEvent}]]
  BY Zenon DEF RingInv, TypeOK
<1>s. PacketInv /\ ListInv /\ PacketsTracked /\ WithinCapacity
  BY Zenon DEF RingInv, SharedInv
<1>1. /\ \A r \in Queues : r # q => /\ flight'[r] = flight[r] /\ wpos'[r] = wpos[r]
                                    /\ pd'[r] = pd[r] /\ pb'[r] = pb[r]
      /\ flight'[q] = flight[q] \cup N /\ wpos'[q] = id
      /\ pd'[q] = pd[q] \cup D /\ pb'[q] = pb[q] \cup B
  BY <1>0, Zenon DEF QueueWrite
<1>2. /\ e = NoEvent => pe' = pe
      /\ e \in Events => /\ \A r \in Queues : r # q => pe'[r] = pe[r]
                         /\ pe'[q] = pe[q] \cup {[id |-> id, ev |-> e]}
  BY <1>0 DEF EventWrite
<1>3. e \in Events => \A r \in Queues :
        /\ \A p \in flight[r] : p.ev # e
        /\ \A x \in pe[r] : x.ev # e
  BY SettledFree, QueueAssumption, Zenon
<1>4. \A r \in Queues :
        /\ \A p \in flight[r] : p.ev \in Events \cup {NoEvent} /\ p.pos \in Nat
        /\ \A d \in pd[r] : d.id \in Nat
        /\ \A x \in pe[r] : x.id \in Nat
        /\ wpos[r] \in Nat
  BY <1>0 DEF Packets
<1>5. /\ \A r \in Queues : \A p \in flight[r] : p.ev # NoEvent => val'[p.ev] = val[p.ev]
      /\ \A p \in N : p.ev # NoEvent => val'[p.ev] = 1
  BY <1>3, <1>4, QueueAssumption DEF EventWrite, NewPackets
<1>6. PacketInv'
  <2> SUFFICES ASSUME NEW r \in Queues, NEW p \in flight'[r]
               PROVE  /\ p.pos <= wpos'[r]
                      /\ \A o \in flight'[r] : o.pos = p.pos => o = p
                      /\ p.kind = "dispatch" \/ p.deps # {} \/ p.ev # NoEvent
                      /\ p.ev # NoEvent => val'[p.ev] = 1
                      /\ \A d \in pd'[r] : d.id = p.pos => d.ev = p.ev
                      /\ p.deps # {} =>
                           /\ p.kind = "barrier"
                           /\ \E o \in flight'[r] :
                                o.pos = p.ret /\ o.kind = "dispatch" /\ p.pos < o.pos
    BY Zenon DEF PacketInv
  <2>1. ASSUME p \in flight[r]
        PROVE  /\ p.pos <= wpos[r]
               /\ \A o \in flight[r] : o.pos = p.pos => o = p
               /\ p.kind = "dispatch" \/ p.deps # {} \/ p.ev # NoEvent
               /\ p.ev # NoEvent => val[p.ev] = 1
               /\ \A d \in pd[r] : d.id = p.pos => d.ev = p.ev
               /\ p.deps # {} =>
                    /\ p.kind = "barrier"
                    /\ \E o \in flight[r] :
                         o.pos = p.ret /\ o.kind = "dispatch" /\ p.pos < o.pos
    BY <1>s, <2>1, Zenon DEF PacketInv
  <2>2. CASE r # q
    BY <1>1, <1>5, <2>1, <2>2
  <2>3. CASE r = q /\ p \in flight[q]
    <3>1. p.pos <= wpos[q] /\ p.pos < id
      BY <1>4, <2>1, <2>3
    <3>2. \A o \in flight'[r] : o.pos = p.pos => o = p
      <4>1. \A o \in N : o.pos # p.pos
        BY <1>4, <2>1, <2>3 DEF NewPackets
      <4> QED BY <1>1, <2>1, <2>3, <4>1, Zenon
    <3>3. \A d \in pd'[r] : d.id = p.pos => d.ev = p.ev
      BY <1>1, <2>1, <2>3, <3>1
    <3>4. p.pos <= wpos'[r] /\ (p.ev # NoEvent => val'[p.ev] = 1)
      BY <1>1, <1>4, <1>5, <2>1, <2>3, <3>1, SMTT(30)
    <3>5. flight[r] \subseteq flight'[r]
      BY <1>1, <2>3, Zenon
    <3> QED BY <2>1, <2>3, <3>2, <3>3, <3>4, <3>5, Zenon
  <2>4. CASE r = q /\ p \in N
    <3>1. \A o \in flight'[r] : o.pos = p.pos => o = p
      BY <1>s, <1>1, <1>4, <2>4, SMTT(30) DEF PacketInv, NewPackets
    <3>2. \A d \in pd'[r] : d.id = p.pos => d.ev = p.ev
      BY <1>s, <1>1, <1>4, <2>4, SMTT(30) DEF ListInv, NewPackets
    <3> QED BY <1>1, <1>5, <2>4, <3>1, <3>2, SMTT(30) DEF NewPackets
  <2> QED BY <1>1, <2>2, <2>3, <2>4, Zenon
<1>7. ListInv'
  <2> SUFFICES ASSUME NEW r \in Queues
               PROVE  /\ IsFiniteSet(flight'[r])
                      /\ \A d \in pd'[r] : d.id <= wpos'[r]
                      /\ \A x \in pe'[r] :
                           /\ x.id <= wpos'[r] /\ x.ev \in Events
                           /\ ev'[x.ev].pending /\ ev'[x.ev].rq = r
                           /\ \A y \in pe'[r] : y.ev = x.ev => y = x
    BY Zenon DEF ListInv
  <2>0. /\ IsFiniteSet(flight[r])
        /\ \A d \in pd[r] : d.id <= wpos[r]
        /\ \A x \in pe[r] :
             /\ x.id <= wpos[r] /\ x.ev \in Events
             /\ ev[x.ev].pending /\ ev[x.ev].rq = r
             /\ \A y \in pe[r] : y.ev = x.ev => y = x
    BY <1>s, Zenon DEF ListInv
  <2>1. IsFiniteSet(flight'[r])
    <3>1. CASE r # q
      BY <1>1, <2>0, <3>1, Zenon
    <3>2. CASE r = q
      <4>1. IsFiniteSet(flight[q])
        BY <2>0, <3>2, Zenon
      <4>2. IsFiniteSet(flight[q] \cup N)
        BY <4>1, FS_Union, Zenon
      <4> QED BY <1>1, <3>2, <4>2, Zenon
    <3> QED BY <3>1, <3>2, Zenon
  <2>2. \A d \in pd'[r] : d.id <= wpos'[r]
    BY <1>1, <1>4, <2>0
  <2>3. \A x \in pe[r] : x.id <= wpos'[r] /\ x.ev \in Events /\ x.ev # e
                         /\ ev'[x.ev].pending /\ ev'[x.ev].rq = r
    BY <1>1, <1>3, <1>4, <2>0, QueueAssumption DEF EventWrite
  <2>4. CASE r # q \/ e = NoEvent
    BY <1>2, <2>0, <2>1, <2>2, <2>3, <2>4, Zenon
  <2>5. CASE r = q /\ e \in Events
    <3>1. ev'[e].pending /\ ev'[e].rq = r
      BY <2>5, Zenon DEF EventWrite
    <3>2. \A x \in pe'[r] : x \in pe[r] \/ (x.id = id /\ x.ev = e /\ x = [id |-> id, ev |-> e])
      BY <1>2, <2>5
    <3>3. wpos'[r] = id /\ id <= id
      BY <1>1, <2>5
    <3> QED BY <2>0, <2>1, <2>2, <2>3, <2>5, <3>1, <3>2, <3>3, Zenon
  <2> QED BY <2>4, <2>5, Zenon
<1>8. PacketsTracked'
  <2> SUFFICES ASSUME NEW r \in Queues, NEW p \in flight'[r]
               PROVE  /\ p.kind = "dispatch" => \E d \in pd'[r] : d.id = p.pos
                      /\ p.deps # {} => \E b \in pb'[r] : b.ret = p.ret /\ b.deps = p.deps
                      /\ p.ev # NoEvent => \E x \in pe'[r] : x.id = p.pos /\ x.ev = p.ev
    BY Zenon DEF PacketsTracked
  <2>1. pe[r] \subseteq pe'[r]
    BY <1>2, Zenon
  <2>2. CASE p \in flight[r]
    <3>1. /\ p.kind = "dispatch" => \E d \in pd[r] : d.id = p.pos
          /\ p.deps # {} => \E b \in pb[r] : b.ret = p.ret /\ b.deps = p.deps
          /\ p.ev # NoEvent => \E x \in pe[r] : x.id = p.pos /\ x.ev = p.ev
      BY <1>s, <2>2, Zenon DEF PacketsTracked
    <3> QED BY <1>1, <2>1, <3>1, Zenon
  <2>3. CASE r = q /\ p \in N
    <3>1. p.ev # NoEvent => [id |-> id, ev |-> e] \in pe'[q] /\ p.pos = id /\ p.ev = e
      BY <1>2, <2>3, QueueAssumption, Zenon DEF NewPackets
    <3> QED BY <1>1, <2>3, <3>1 DEF NewPackets
  <2> QED BY <1>1, <2>2, <2>3, Zenon
<1>9. WithinCapacity'
  <2>1. IsFiniteSet(flight[q]) /\ Cardinality(flight[q]) <= PacketCount - n
    BY <1>s, Zenon DEF ListInv, HasRoom
  <2>2. /\ Cardinality(flight[q] \cup N) =
             Cardinality(flight[q]) + Cardinality(N) - Cardinality(flight[q] \cap N)
        /\ IsFiniteSet(flight[q] \cap N)
    BY <2>1, FS_Union, FS_Intersection, Zenon
  <2>3. Cardinality(flight[q]) \in Nat /\ Cardinality(N) \in Nat /\ Cardinality(flight[q] \cap N) \in Nat
    BY <2>1, <2>2, FS_CardinalityType, Zenon
  <2>4. Cardinality(flight[q] \cup N) <= PacketCount
    BY <2>1, <2>2, <2>3, QueueAssumption
  <2> QED BY <1>s, <1>1, <2>4, Zenon DEF WithinCapacity
<1> QED BY <1>6, <1>7, <1>8, <1>9, Zenon DEF SharedInv

(* The event state and the signal after a submission *)
LEMMA ArmedWrite ==
  ASSUME RingInv, NEW q \in Queues, NEW e \in Events, NEW id,
         val' = [val EXCEPT ![e] = 1],
         ev' = [ev EXCEPT ![e] = [@ EXCEPT !.pending = TRUE, !.completed = FALSE, !.rq = q]],
         pe' = [pe EXCEPT ![q] = @ \cup {[id |-> id, ev |-> e]}]
  PROVE  EventWrite(q, e, id)
<1>0. ev \in [Events -> EventStates] /\ val \in [Events -> {0, 1}]
  BY Zenon DEF RingInv, TypeOK
<1>1. val'[e] = 1 /\ \A f \in Events : f # e => val'[f] = val[f]
  BY <1>0, Zenon
<1>2. ev'[e].pending /\ ev'[e].rq = q /\ \A f \in Events : f # e => ev'[f] = ev[f]
  BY <1>0, Zenon DEF EventStates
<1>3. e # NoEvent
  BY QueueAssumption, Zenon
<1> QED BY <1>1, <1>2, <1>3, Zenon DEF EventWrite

(* event_record_impl submits one barrier packet. *)
LEMMA RecordShared ==
  ASSUME RingInv, NEW t \in Threads, RecordSubmit(t)
  PROVE  SharedInv'
<1> DEFINE q == th[t].cq
           e == th[t].call.e
           id == wpos[q] + 1
           p == [pos |-> id, kind |-> "barrier", ret |-> id, deps |-> {}, ev |-> e, bit |-> TRUE]
<1>0. wpos \in [Queues -> Nat]
      /\ pd \in [Queues -> SUBSET [id : Nat, ev : Events \cup {NoEvent}]]
      /\ pb \in [Queues -> SUBSET [ret : Nat, deps : SUBSET Events]]
  BY Zenon DEF RingInv, TypeOK
<1>1. /\ At(t, "record_submit")
      /\ wpos' = [wpos EXCEPT ![q] = id]
      /\ flight' = [flight EXCEPT ![q] = @ \cup {p}]
      /\ val' = [val EXCEPT ![e] = 1]
      /\ ev' = [ev EXCEPT ![e] = [@ EXCEPT !.pending = TRUE, !.completed = FALSE, !.rq = q]]
      /\ pe' = [pe EXCEPT ![q] = @ \cup {[id |-> id, ev |-> e]}]
      /\ pd' = pd /\ pb' = pb
  BY Zenon DEF RecordSubmit
<1>2. /\ e = NoEvent \/ (e \in Events /\ Settled(e))
      /\ e \in Events /\ HasRoom(q, 1) /\ q \in Queues
  BY <1>1, SubmitKnows, Zenon
<1>3. id \in Nat /\ wpos[q] < id /\ wpos[q] \in Nat
  BY <1>0, <1>2
<1>4. p.pos = id /\ p.kind = "barrier" /\ p.deps = {} /\ p.ev = e
  OBVIOUS
<1> HIDE DEF q, e, id, p
<1>5. NewPackets(q, e, {p}, {}, {}, id)
  <2>1. e # NoEvent
    BY <1>2, QueueAssumption, Zenon
  <2> QED BY <1>3, <1>4, <2>1 DEF NewPackets
<1>6. EventWrite(q, e, id)
  BY <1>1, <1>2, ArmedWrite, Zenon
<1>7. QueueWrite(q, {p}, {}, {}, id)
  <2>1. pd' = [pd EXCEPT ![q] = @ \cup {}] /\ pb' = [pb EXCEPT ![q] = @ \cup {}]
    BY <1>0, <1>1, <1>2, Zenon
  <2> QED BY <1>1, <2>1, Zenon DEF QueueWrite
<1>8. IsFiniteSet({p}) /\ Cardinality({p}) <= 1
  <2>1. IsFiniteSet({p}) /\ Cardinality({p}) = 1
    BY FS_Singleton, Zenon
  <2> QED BY <2>1
<1>9. \A d \in {} : d.id = id /\ d.ev = e
  OBVIOUS
<1>10. 1 \in Nat
  OBVIOUS
<1> QED BY <1>2, <1>3, <1>5, <1>6, <1>7, <1>8, <1>9, <1>10, Submitted, SMTT(30)

(* The packets of a kernel fit the room it has asked for. *)
LEMMA KernelPackets ==
  ASSUME NEW n \in Nat, NEW f, NEW disp
  PROVE  LET N == {f[i] : i \in 1 .. n} \cup {disp}
         IN  IsFiniteSet(N) /\ Cardinality(N) <= n + 1
<1> DEFINE g == [i \in 1 .. n |-> f[i]]
           S == {f[i] : i \in 1 .. n}
<1>1. IsFiniteSet(1 .. n) /\ Cardinality(1 .. n) = n
  <2>1. IsFiniteSet(1 .. n) /\ Cardinality(1 .. n) = IF 1 > n THEN 0 ELSE n - 1 + 1
    BY FS_Interval
  <2> QED BY <2>1
<1>2. g \in [1 .. n -> S] /\ \A s \in S : \E i \in 1 .. n : g[i] = s
  OBVIOUS
<1>3. g \in Surjection(1 .. n, S)
  BY <1>2, Zenon DEF Surjection
<1>4. IsFiniteSet(S) /\ Cardinality(S) <= n
  BY <1>1, <1>3, FS_Surjection
<1>5. /\ IsFiniteSet(S \cup {disp})
      /\ Cardinality(S \cup {disp}) = IF disp \in S THEN Cardinality(S) ELSE Cardinality(S) + 1
  BY <1>4, FS_AddElement, Zenon
<1>6. Cardinality(S) \in Nat
  BY <1>4, FS_CardinalityType, Zenon
<1> HIDE DEF S
<1>7. IsFiniteSet(S \cup {disp}) /\ Cardinality(S \cup {disp}) <= n + 1
  BY <1>4, <1>5, <1>6
<1> QED BY <1>7, Zenon DEF S

(* submit_light_rocr_kernel_locked submits the barriers and the dispatch. *)
LEMMA KernelShared ==
  ASSUME RingInv, NEW t \in Threads, SubmitKernel(t)
  PROVE  SharedInv'
<1> DEFINE q == th[t].cq
           e == th[t].call.e
           X == th[t].deps
           n == barrier_count(X)
           id == wpos[q] + n + 1
           bit == pd[q] # {} \/ n # 0
           disp == [pos |-> id, kind |-> "dispatch", ret |-> id, deps |-> {}, ev |-> e, bit |-> bit]
           D == {[id |-> id, ev |-> e]}
<1>0. /\ wpos \in [Queues -> Nat] /\ X \in SUBSET Events /\ th[t] \in ThreadStates
  BY Zenon DEF RingInv, TypeOK, ThreadStates
<1>1. PICK b \in Batchings(X) :
        LET batch(i) == {x \in X : b[x] = i}
        IN  /\ pb' = [pb EXCEPT ![q] = @ \cup
                         {[ret |-> id, deps |-> batch(i)] : i \in 1 .. n}]
            /\ flight' = [flight EXCEPT ![q] = @ \cup
                 {[pos |-> wpos[q] + i, kind |-> "barrier", ret |-> id,
                   deps |-> batch(i), ev |-> NoEvent, bit |-> TRUE] : i \in 1 .. n}
                 \cup {disp}]
  BY Zenon DEF SubmitKernel
<1> DEFINE batch(i) == {x \in X : b[x] = i}
           bar(i) == [pos |-> wpos[q] + i, kind |-> "barrier", ret |-> id,
                      deps |-> batch(i), ev |-> NoEvent, bit |-> TRUE]
           N == {bar(i) : i \in 1 .. n} \cup {disp}
           B == {[ret |-> id, deps |-> batch(i)] : i \in 1 .. n}
<1>2. /\ pb' = [pb EXCEPT ![q] = @ \cup B]
      /\ flight' = [flight EXCEPT ![q] = @ \cup N]
  <2>1. /\ pb' = [pb EXCEPT ![q] = @ \cup B]
        /\ flight' = [flight EXCEPT ![q] = @ \cup {bar(i) : i \in 1 .. n} \cup {disp}]
    BY <1>1, Zenon
  <2>2. \A S : S \cup {bar(i) : i \in 1 .. n} \cup {disp} = S \cup N
    <3> HIDE DEF disp, bar
    <3> QED OBVIOUS
  <2> HIDE DEF B, N, bar, disp
  <2>3. [flight EXCEPT ![q] = @ \cup {bar(i) : i \in 1 .. n} \cup {disp}] =
        [flight EXCEPT ![q] = @ \cup N]
    BY <2>2, Zenon
  <2> QED BY <2>1, <2>3, Zenon
<1>3. /\ At(t, "submit")
      /\ wpos' = [wpos EXCEPT ![q] = id]
      /\ pd' = [pd EXCEPT ![q] = @ \cup D]
      /\ \/ e = NoEvent /\ UNCHANGED <<val, ev, pe>>
         \/ /\ e # NoEvent /\ val' = [val EXCEPT ![e] = 1]
            /\ ev' = [ev EXCEPT ![e] = [@ EXCEPT !.pending = TRUE, !.completed = FALSE, !.rq = q]]
            /\ pe' = [pe EXCEPT ![q] = @ \cup {[id |-> id, ev |-> e]}]
  BY Zenon DEF SubmitKernel
<1>4. /\ e = NoEvent \/ (e \in Events /\ Settled(e))
      /\ HasRoom(q, n + 1) /\ q \in Queues
  BY <1>3, SubmitKnows, Zenon
<1>5. n \in Nat /\ n + 1 \in Nat
  <2>1. Cardinality(th[t].deps) \in Nat
    BY <1>0, QueueAssumption, FS_Subset, FS_CardinalityType, Zenon DEF ThreadStates
  <2> QED BY <2>1, QueueAssumption DEF barrier_count
<1>6. wpos[q] \in Nat /\ id \in Nat /\ wpos[q] < id
  <2> HIDE DEF n
  <2> QED BY <1>0, <1>4, <1>5
<1>7. IsFiniteSet(N) /\ Cardinality(N) <= n + 1
  <2> DEFINE f == [i \in 1 .. n |-> bar(i)]
  <2>1. {f[i] : i \in 1 .. n} = {bar(i) : i \in 1 .. n}
    <3> HIDE DEF bar, n
    <3> QED OBVIOUS
  <2> HIDE DEF bar, disp, n, f
  <2>2. LET M == {f[i] : i \in 1 .. n} \cup {disp}
        IN  IsFiniteSet(M) /\ Cardinality(M) <= n + 1
    BY <1>5, KernelPackets, Zenon
  <2> QED BY <2>1, <2>2, Zenon
<1>8. \A i \in 1 .. n : batch(i) # {}
  <2>1. \A i \in 1 .. n : Cardinality(batch(i)) \in 1 .. BarrierWidth
    BY <1>1, Zenon DEF Batchings, Batching
  <2>2. \A i \in 1 .. n : Cardinality(batch(i)) # 0
    <3> HIDE DEF batch, n
    <3> QED BY <2>1, QueueAssumption
  <2> HIDE DEF batch, n
  <2> QED BY <2>2, FS_EmptySet, Zenon
<1>9. /\ disp.pos = id /\ disp.kind = "dispatch" /\ disp.deps = {} /\ disp.ev = e
      /\ \A i \in 1 .. n : /\ bar(i).pos = wpos[q] + i /\ bar(i).kind = "barrier"
                           /\ bar(i).ret = id /\ bar(i).deps = batch(i)
                           /\ bar(i).ev = NoEvent
  <2> HIDE DEF batch, n, id, bit
  <2> QED OBVIOUS
<1>10. /\ \A d \in D : d.id = id /\ d.ev = e
       /\ [id |-> id, ev |-> e] \in D /\ [id |-> id, ev |-> e].id = id
       /\ \A i \in 1 .. n : \E c \in B : c.ret = id /\ c.deps = batch(i)
  <2> HIDE DEF batch, n, id
  <2>1. ASSUME NEW i \in 1 .. n PROVE \E c \in B : c.ret = id /\ c.deps = batch(i)
    <3>1. [ret |-> id, deps |-> batch(i)] \in B
      BY <2>1, Zenon
    <3>2. LET c == [ret |-> id, deps |-> batch(i)] IN c.ret = id /\ c.deps = batch(i)
      OBVIOUS
    <3> HIDE DEF B
    <3> QED BY <3>1, <3>2, Zenon
  <2>2. /\ \A d \in D : d.id = id /\ d.ev = e
        /\ [id |-> id, ev |-> e] \in D /\ [id |-> id, ev |-> e].id = id
    OBVIOUS
  <2> QED BY <2>1, <2>2, Zenon
<1>11. \A p \in N : p = disp \/ \E i \in 1 .. n : p = bar(i)
  <2> HIDE DEF bar, disp
  <2> QED OBVIOUS
<1>12. disp \in N
  <2> HIDE DEF bar, disp
  <2> QED OBVIOUS
<1>13. \A i \in 1 .. n : i \in Nat /\ wpos[q] < wpos[q] + i /\ wpos[q] + i < id /\ wpos[q] + i \in Nat
  <2> HIDE DEF n
  <2> QED BY <1>5, <1>6
<1> HIDE DEF N, B, D, bar, batch, disp, bit, id, n, X, e, q
<1>14. NewPackets(q, e, N, D, B, id)
  <2> SUFFICES ASSUME NEW p \in N
      PROVE  /\ wpos[q] < p.pos /\ p.pos <= id /\ p.pos \in Nat
             /\ \A o \in N : o.pos = p.pos => o = p
             /\ p.kind = "dispatch" \/ p.deps # {} \/ p.ev # NoEvent
             /\ p.ev # NoEvent => p.ev = e /\ p.pos = id
             /\ p.kind = "dispatch" => \E d \in D : d.id = p.pos
             /\ D # {} /\ p.pos = id => p.ev = e
             /\ p.deps # {} =>
                  /\ p.kind = "barrier" /\ p.ret = id /\ p.pos < id
                  /\ \E o \in N : o.pos = id /\ o.kind = "dispatch"
                  /\ \E c \in B : c.ret = p.ret /\ c.deps = p.deps
    BY Zenon DEF NewPackets
  <2>1. CASE p = disp
    <3>1. \A o \in N : o.pos = p.pos => o = p
      BY <1>6, <1>9, <1>11, <1>13, <2>1
    <3>2. \E d \in D : d.id = p.pos
      BY <1>9, <1>10, <2>1, Zenon
    <3> QED BY <1>6, <1>9, <2>1, <3>1, <3>2
  <2>2. ASSUME NEW i \in 1 .. n, p = bar(i)
        PROVE  /\ wpos[q] < p.pos /\ p.pos <= id /\ p.pos \in Nat
               /\ \A o \in N : o.pos = p.pos => o = p
               /\ p.kind = "dispatch" \/ p.deps # {} \/ p.ev # NoEvent
               /\ p.ev # NoEvent => p.ev = e /\ p.pos = id
               /\ p.kind = "dispatch" => \E d \in D : d.id = p.pos
               /\ D # {} /\ p.pos = id => p.ev = e
               /\ p.deps # {} =>
                    /\ p.kind = "barrier" /\ p.ret = id /\ p.pos < id
                    /\ \E o \in N : o.pos = id /\ o.kind = "dispatch"
                    /\ \E c \in B : c.ret = p.ret /\ c.deps = p.deps
    <3>1. wpos[q] < p.pos /\ p.pos < id /\ p.pos \in Nat
      BY <1>9, <1>13, <2>2, Zenon
    <3>2. \A o \in N : o.pos = p.pos => o = p
      <4>1. \A j \in 1 .. n : wpos[q] + j = wpos[q] + i => j = i
        BY <1>6, <1>13
      <4> QED BY <1>9, <1>11, <1>13, <2>2, <4>1
    <3>3. \E c \in B : c.ret = p.ret /\ c.deps = p.deps
      BY <1>9, <1>10, <2>2
    <3> QED BY <1>6, <1>8, <1>9, <1>12, <2>2, <3>1, <3>2, <3>3
  <2> QED BY <1>11, <2>1, <2>2, Zenon
<1>15. EventWrite(q, e, id)
  <2>1. CASE e = NoEvent
    BY <1>3, <2>1, QueueAssumption, Zenon DEF EventWrite
  <2>2. CASE e # NoEvent
    BY <1>3, <1>4, <2>2, ArmedWrite, Zenon
  <2> QED BY <2>1, <2>2, Zenon
<1>16. QueueWrite(q, N, D, B, id)
  BY <1>2, <1>3, Zenon DEF QueueWrite
<1>17. \A d \in D : d.id = id /\ d.ev = e
  BY <1>10, Zenon
<1> QED BY <1>4, <1>5, <1>6, <1>7, <1>14, <1>15, <1>16, <1>17, Submitted, Zenon

(* Every step of a thread keeps the packets and the lists in step. *)
LEMMA SharedSteps ==
  ASSUME RingInv, NEW t \in Threads, Step(t) \/ Invoke(t)
  PROVE  SharedInv'
<1>0. SharedInv /\ ev \in [Events -> EventStates]
  BY Zenon DEF RingInv, TypeOK
<1>1. CASE \/ ReapBarriers(t) \/ ReapDispatch(t) \/ EventFinished(t)
           \/ SubmitKernel(t) \/ RecordSubmit(t) \/ SubmitFails(t)
  BY <1>1, RetireShared, FinishShared, RefusedShared, RecordShared, KernelShared, Zenon
<1>2. ASSUME UNCHANGED <<flight, wpos, pd, pb, pe, val>>,
             \/ ev' = ev
             \/ \E e, x : \/ ev' = [ev EXCEPT ![e].destroying = x]
                          \/ ev' = [ev EXCEPT ![e].live = x]
                          \/ ev' = [ev EXCEPT ![e].syncs = x]
      PROVE  SharedInv'
  <2>1. \A e \in Events : ev'[e].pending = ev[e].pending /\ ev'[e].rq = ev[e].rq
    <3>1. CASE ev' = ev
      BY <3>1, Zenon
    <3>2. ASSUME NEW e, NEW x, ev' = [ev EXCEPT ![e].destroying = x]
          PROVE  \A f \in Events : ev'[f].pending = ev[f].pending /\ ev'[f].rq = ev[f].rq
      BY <1>0, <3>2, Zenon DEF EventStates
    <3>3. ASSUME NEW e, NEW x, ev' = [ev EXCEPT ![e].live = x]
          PROVE  \A f \in Events : ev'[f].pending = ev[f].pending /\ ev'[f].rq = ev[f].rq
      BY <1>0, <3>3, Zenon DEF EventStates
    <3>4. ASSUME NEW e, NEW x, ev' = [ev EXCEPT ![e].syncs = x]
          PROVE  \A f \in Events : ev'[f].pending = ev[f].pending /\ ev'[f].rq = ev[f].rq
      BY <1>0, <3>4, Zenon DEF EventStates
    <3> QED BY <1>2, <3>1, <3>2, <3>3, <3>4, Zenon
  <2> QED BY <1>0, <1>2, <2>1, SharedFrame, Zenon
<1>3. CASE \/ ReapEvents(t) \/ FinishEvent(t) \/ WaitFront(t) \/ SynchronizeDevice(t)
           \/ CollectDependencies(t) \/ QueueDelete(t)
           \/ Leave(t) \/ WaitForSynchronizers(t) \/ Revalidate(t) \/ WaitForEvent(t)
           \/ Record(t) \/ HostWait(t) \/ Launch(t) \/ QueueCall(t) \/ DeviceCall(t)
  <2>1. UNCHANGED <<flight, wpos, pd, pb, pe, val>> /\ ev' = ev
    BY <1>3, ZenonT(30) DEF ReapEvents, FinishEvent,
       WaitFront, SynchronizeDevice, CollectDependencies, QueueDelete, Leave,
       WaitForSynchronizers, Revalidate, WaitForEvent, Record, HostWait, Launch, QueueCall,
       DeviceCall, queueVars
  <2> QED BY <1>2, <2>1, Zenon
<1>4. CASE \/ EnsureCapacity(t) \/ CheckCapacity(t) \/ SynchronizeQueue(t) \/ EnsureScratch(t)
           \/ ReplaceQueue(t) \/ WaitForConsumers(t)
  <2>1. (Fail(t) \/ ev' = ev) /\ UNCHANGED <<flight, wpos, pd, pb, pe, val>>
    BY <1>4, ZenonT(30) DEF EnsureCapacity, CheckCapacity, SynchronizeQueue, EnsureScratch,
       ReplaceQueue, WaitForConsumers, queueVars
  <2>2. \/ ev' = ev
        \/ \E e, x : ev' = [ev EXCEPT ![e].destroying = x]
    BY <2>1, Zenon DEF Fail
  <2> QED BY <1>2, <2>1, <2>2, Zenon
<1>5. CASE EventDelete(t) \/ Unpin(t)
  <2>1. /\ UNCHANGED <<flight, wpos, pd, pb, pe, val>>
        /\ \E e, x : \/ ev' = [ev EXCEPT ![e].live = x]
                     \/ ev' = [ev EXCEPT ![e].syncs = x]
    BY <1>5, Zenon DEF EventDelete, Unpin, queueVars
  <2> QED BY <1>2, <2>1, Zenon
<1>6. CASE EventCall(t) \/ EventSynchronize(t)
  <2>1. /\ UNCHANGED <<flight, wpos, pd, pb, pe, val>>
        /\ \E e, x : \/ ev' = [ev EXCEPT ![e].destroying = x]
                     \/ ev' = [ev EXCEPT ![e].syncs = x]
    <3>1. CASE EventCall(t)
      <4>1. PICK c \in left[t].calls :
              /\ ev' = [ev EXCEPT ![c.e].destroying = c.name = "event_destroy"]
              /\ UNCHANGED <<queueVars, val>>
        BY <3>1, Zenon DEF EventCall
      <4> QED BY <4>1, Zenon DEF queueVars
    <3>2. CASE EventSynchronize(t)
      <4>1. PICK c \in left[t].calls :
              /\ ev' = [ev EXCEPT ![c.e].syncs = @ \cup {t}]
              /\ UNCHANGED <<queueVars, val>>
        BY <3>2, Zenon DEF EventSynchronize
      <4> QED BY <4>1, Zenon DEF queueVars
    <3> QED BY <1>6, <3>1, <3>2, Zenon
  <2> QED BY <1>2, <2>1, Zenon
<1> QED BY <1>1, <1>3, <1>4, <1>5, <1>6, Zenon DEF Step, Invoke

(* The packet processor completes a packet. *)
LEMMA DeviceShared ==
  ASSUME RingInv, NEW q \in Queues, GpuComplete(q)
  PROVE  /\ SharedInv'
         /\ \A r \in Queues : flight'[r] \subseteq flight[r]
         /\ \A r \in Queues : Cardinality(flight'[r]) <= Cardinality(flight[r])
         /\ \A r \in Queues : Cardinality(flight[r]) \in Nat /\ Cardinality(flight'[r]) \in Nat
         /\ \A e \in Events : val[e] = 0 => val'[e] = 0
<1>0. /\ SharedInv /\ flight \in [Queues -> SUBSET Packets] /\ val \in [Events -> {0, 1}]
  BY Zenon DEF RingInv, TypeOK
<1>1. PICK p \in flight[q] :
        /\ Executable(q, p)
        /\ flight' = [flight EXCEPT ![q] = @ \ {p}]
        /\ val' = [e \in Events |-> IF e = p.ev THEN 0 ELSE val[e]]
        /\ UNCHANGED <<lock, wpos, pd, pb, pe, ring, live, ev, th, left>>
  BY Zenon DEF GpuComplete
<1>2. /\ \A r \in Queues : r # q => flight'[r] = flight[r]
      /\ flight'[q] = flight[q] \ {p}
      /\ \A r \in Queues : flight'[r] \subseteq flight[r]
  BY <1>0, <1>1, Zenon
<1>3. \A e \in Events : val'[e] = IF e = p.ev THEN 0 ELSE val[e]
  BY <1>1, Zenon
<1>4. \A r \in Queues : /\ IsFiniteSet(flight'[r])
                        /\ Cardinality(flight'[r]) <= Cardinality(flight[r])
                        /\ Cardinality(flight[r]) \in Nat /\ Cardinality(flight'[r]) \in Nat
  <2>1. \A r \in Queues : IsFiniteSet(flight[r])
    BY <1>0, Zenon DEF SharedInv, ListInv
  <2> QED BY <1>2, <2>1, FS_Subset, FS_CardinalityType, Zenon
<1>5. WithinCapacity'
  <2> SUFFICES ASSUME NEW r \in Queues PROVE Cardinality(flight'[r]) <= PacketCount
    BY Zenon DEF WithinCapacity
  <2>1. Cardinality(flight[r]) <= PacketCount
    BY <1>0, Zenon DEF SharedInv, WithinCapacity
  <2> QED BY <1>4, <2>1, QueueAssumption
<1>6. PacketsTracked'
  BY <1>0, <1>1, <1>2 DEF SharedInv, PacketsTracked
<1>7. ListInv'
  BY <1>0, <1>1, <1>4, Zenon DEF SharedInv, ListInv
<1>8. ASSUME NEW r \in Queues, NEW o \in flight'[r]
      PROVE  /\ o.ev # NoEvent => val'[o.ev] = 1
             /\ o.deps # {} =>
                  \E d \in flight'[r] : d.pos = o.ret /\ d.kind = "dispatch" /\ o.pos < d.pos
  <2>0. o \in flight[r] /\ (r = q => o # p)
    BY <1>2, <1>8, Zenon
  <2>1. ASSUME o.ev # NoEvent, p.ev = o.ev PROVE FALSE
    <3>1. PICK x \in pe[r] : x.id = o.pos /\ x.ev = o.ev
      BY <1>0, <2>0, <2>1, Zenon DEF SharedInv, PacketsTracked
    <3>2. PICK y \in pe[q] : y.id = p.pos /\ y.ev = p.ev
      BY <1>0, <1>1, <2>1, Zenon DEF SharedInv, PacketsTracked
    <3>3. ev[x.ev].rq = r /\ ev[y.ev].rq = q /\ \A z \in pe[r] : z.ev = x.ev => z = x
      BY <1>0, <1>8, <3>1, <3>2, Zenon DEF SharedInv, ListInv
    <3>4. r = q /\ x = y /\ o.pos = p.pos
      BY <2>1, <3>1, <3>2, <3>3, Zenon
    <3>5. o = p
      BY <1>0, <1>1, <2>0, <3>4 DEF SharedInv, PacketInv
    <3> QED BY <2>0, <3>4, <3>5, Zenon
  <2>2. o.ev # NoEvent => val'[o.ev] = 1
    <3>1. o.ev \in Events \cup {NoEvent}
      BY <1>0, <1>8, <2>0 DEF Packets
    <3>2. o.ev # NoEvent => val[o.ev] = 1
      BY <1>0, <1>8, <2>0, Zenon DEF SharedInv, PacketInv
    <3> QED BY <1>3, <2>1, <3>1, <3>2, Zenon
  <2>3. ASSUME o.deps # {}
        PROVE  \E d \in flight'[r] : d.pos = o.ret /\ d.kind = "dispatch" /\ o.pos < d.pos
    <3>1. PICK d \in flight[r] : d.pos = o.ret /\ d.kind = "dispatch" /\ o.pos < d.pos
      BY <1>0, <1>8, <2>0, <2>3, Zenon DEF SharedInv, PacketInv
    <3>2. o.kind = "barrier"
      BY <1>0, <1>8, <2>0, <2>3 DEF SharedInv, PacketInv
    <3>3. r = q => d # p
      BY <1>1, <2>0, <3>1, <3>2, Zenon DEF Executable
    <3>4. d \in flight'[r]
      BY <1>2, <1>8, <3>1, <3>3, Zenon
    <3> QED BY <3>1, <3>4, Zenon
  <2> QED BY <2>2, <2>3, Zenon
<1>9. PacketInv'
  BY <1>0, <1>1, <1>2, <1>8 DEF SharedInv, PacketInv
<1>10. \A e \in Events : val[e] = 0 => val'[e] = 0
  BY <1>3, Zenon
<1> QED BY <1>2, <1>4, <1>5, <1>6, <1>7, <1>9, <1>10, Zenon DEF SharedInv

(* What a thread relies on, it keeps while the device goes on. *)
LEMMA DeviceThreads ==
  ASSUME RingInv, NEW q \in Queues, GpuComplete(q), NEW u \in Threads
  PROVE  OwnInv(u)'
<1> DEFINE x == th[u]
<1>0. /\ UNCHANGED <<lock, pb, live, ev, th, wpos, pd, pe, left>>
  BY Zenon DEF GpuComplete
<1>1. /\ \A r \in Queues : flight'[r] \subseteq flight[r]
      /\ \A r \in Queues : Cardinality(flight'[r]) <= Cardinality(flight[r])
      /\ \A r \in Queues : Cardinality(flight[r]) \in Nat /\ Cardinality(flight'[r]) \in Nat
      /\ \A e \in Events : val[e] = 0 => val'[e] = 0
  BY DeviceShared, Zenon
<1>2. CallInv(u) /\ HeldInv(u) /\ x \in ThreadStates
  BY Zenon DEF RingInv, TypeOK
<1>3. CASE x.k = <<>>
  BY <1>0, <1>2, <1>3, Zenon DEF OwnInv, CallInv, HeldInv
<1>4. CASE x.k # <<>>
  <2>0. x.k \in Seq(Labels) /\ x.need \in Nat
    BY <1>2, Zenon DEF ThreadStates
  <2>1. /\ WellFormed(x.call) /\ Stacked(x.call.name, x.k)
        /\ \A l \in QueueLabels : Has(x.k, l) => x.cq \in Queues
        /\ Head(x.k) = "relock" => val[x.call.e] = 0
    BY <1>2, <1>4, Zenon DEF CallInv
  <2>2. Serves(x.call.name, Head(x.k)) /\ Has(x.k, Head(x.k))
    BY <1>4, <2>0, <2>1 DEF Stacked, Has
  <2>3. Head(x.k) = "relock" => val'[x.call.e] = 0
    <3>1. Head(x.k) = "relock" => x.call.e \in Events
      BY <2>1, <2>2, Zenon DEF Serves, WellFormed
    <3> QED BY <1>1, <2>1, <3>1, Zenon
  <2>4. CallInv(u)'
    BY <1>0, <1>2, <1>4, <2>3, Zenon DEF CallInv, WellFormed
  <2>5. Head(x.k) \in QueueLabels => x.cq \in Queues
    BY <2>1, <2>2, Zenon
  <2>6. FinishInv(u) => FinishInv(u)'
    BY <1>0, <1>1, Zenon DEF FinishInv
  <2>7. QuiesceInv(u) => QuiesceInv(u)'
    BY <1>0, Zenon DEF QuiesceInv, Settled, dependency_queues
  <2>8. SubmitInv(u) => SubmitInv(u)'
    <3>1. Head(x.k) \in {"submit", "record_submit"} /\ HasRoom(x.cq, x.need) => HasRoom(x.cq, x.need)'
      <4>1. Head(x.k) \in {"submit", "record_submit"} => x.cq \in Queues
        BY <2>5, Zenon DEF QueueLabels
      <4>2. \A a, b, n \in Nat : a <= b /\ b <= PacketCount - n => a <= PacketCount - n
        BY QueueAssumption
      <4> QED BY <1>0, <1>1, <2>0, <4>1, <4>2, Zenon DEF HasRoom
    <3> QED BY <1>0, <3>1, Zenon DEF SubmitInv, barrier_count
  <2>9. DrainInv(u) => DrainInv(u)'
    <3>1. Head(x.k) \in {"replace", "queue_delete"} => x.cq \in Queues
      BY <2>5, Zenon DEF QueueLabels
    <3>2. \A r \in Queues : flight[r] = {} => flight'[r] = {}
      BY <1>1, Zenon
    <3> QED BY <1>0, <3>1, <3>2 DEF DrainInv
  <2> QED BY <1>0, <1>2, <2>4, <2>6, <2>7, <2>8, <2>9, Zenon DEF OwnInv, HeldInv
<1> QED BY <1>3, <1>4, Zenon

(* All of this holds initially. *)
LEMMA InitFrame ==
  ASSUME Init
  PROVE  SharedInv /\ ProgramInv /\ OneDestroyer /\ \A t \in Threads : CallInv(t) /\ HeldInv(t)
<1>2. PacketInv /\ PacketsTracked
  BY Zenon DEF Init, PacketInv, PacketsTracked
<1>3. ListInv /\ WithinCapacity
  <2>1. \A q \in Queues : flight[q] = {} /\ pd[q] = {} /\ pe[q] = {}
    BY Zenon DEF Init
  <2>2. IsFiniteSet({}) /\ Cardinality({}) = 0
    BY FS_EmptySet, Zenon
  <2>3. \A q \in Queues : Cardinality(flight[q]) <= PacketCount
    BY <2>1, <2>2, QueueAssumption
  <2> QED BY <2>1, <2>2, <2>3, Zenon DEF ListInv, WithinCapacity
<1>4. \A t \in Threads : th[t].k = <<>> /\ lock # t
  BY QueueAssumption, Zenon DEF Init, Idle
<1>5. ProgramInv
  BY ProgramsAssumption, Zenon DEF Init, ProgramInv
<1>6. OneDestroyer
  BY <1>4, Zenon DEF OneDestroyer
<1>7. \A t \in Threads : CallInv(t) /\ HeldInv(t)
  BY <1>4, Zenon DEF CallInv, HeldInv
<1> QED BY <1>2, <1>3, <1>5, <1>6, <1>7, Zenon DEF SharedInv

(* The invariant holds initially *)
LEMMA InitRing == Init => RingInv
<1>1. Init => TypeOK /\ NoDanglingRetirement
  BY InitType, Zenon DEF RetirementInv
<1> QED BY <1>1, InitFrame, Zenon DEF RingInv

(* and is preserved by every step. *)
LEMMA RingStep == RingInv /\ [Next]_vars => RingInv'
<1> SUFFICES ASSUME RingInv, [Next]_vars PROVE RingInv'
  OBVIOUS
<1>0. TypeOK' /\ NoDanglingRetirement'
  BY RetirementStep, Zenon DEF RetirementInv, RingInv
<1>1. ASSUME NEW t \in Threads, Step(t) \/ Invoke(t) PROVE RingInv'
  <2>1. SharedInv' /\ OneDestroyer' /\ ProgramInv'
    BY <1>1, SharedSteps, DestroyerKept
  <2>2. \A u \in Threads : OwnInv(u)'
    BY <1>1, ThreadsKept
  <2> QED BY <1>0, <2>1, <2>2, Zenon DEF RingInv, OwnInv
<1>2. ASSUME NEW q \in Queues, GpuComplete(q) PROVE RingInv'
  <2>1. SharedInv'
    BY <1>2, DeviceShared
  <2>2. \A u \in Threads : OwnInv(u)'
    BY <1>2, DeviceThreads
  <2>3. UNCHANGED <<th, left>>
    BY <1>2 DEF GpuComplete
  <2>4. OneDestroyer' /\ ProgramInv'
    BY <2>3 DEF RingInv, OneDestroyer, ProgramInv, WellFormed
  <2> QED BY <1>0, <2>1, <2>2, <2>4, Zenon DEF RingInv, OwnInv
<1>3. CASE UNCHANGED vars
  <2>1. UNCHANGED <<lock, queueVars, live, val, ev, th, left>>
    BY <1>3 DEF vars, queueVars
  <2>2. SharedInv'
    BY <2>1, SharedFrame DEF RingInv, queueVars
  <2>3. \A u \in Threads : OwnInv(u)'
    BY <2>1, Undisturbed
  <2>4. OneDestroyer' /\ ProgramInv'
    BY <2>1, Zenon DEF RingInv, OneDestroyer, ProgramInv, WellFormed
  <2> QED BY <1>0, <2>2, <2>3, <2>4, Zenon DEF RingInv, OwnInv
<1>4. CASE Finished
  BY <1>3, <1>4 DEF Finished
<1> QED BY <1>1, <1>2, <1>3, <1>4, Zenon DEF Next

(* It implies what the runs check. *)
LEMMA RingAccounts ==
  ASSUME RingInv
  PROVE  RingAccounted
<1>1. ASSUME NEW t \in Threads, NEW l \in {"replace", "queue_delete", "return"}, At(t, l)
      PROVE  /\ DrainInv(t) /\ Head(th[t].k) = l
  BY <1>1, Runs, Zenon DEF Unlocked
<1>2. RingFreedIdle
  BY <1>1, Zenon DEF RingFreedIdle, DrainInv
<1>3. SynchronizedIdle
  <2> SUFFICES ASSUME NEW t \in Threads, At(t, "return"), NEW q \in Queues, live[q],
                      th[t].call.name = "synchronize" \/ q = th[t].cq
               PROVE  flight[q] = {}
    BY Zenon DEF SynchronizedIdle
  <2>1. DrainInv(t) /\ Head(th[t].k) = "return"
    BY <1>1, Zenon
  <2> QED BY <2>1, Zenon DEF DrainInv
<1> QED BY <1>2, <1>3, Zenon DEF RingAccounted, RingInv, SharedInv

(* For any number of threads, queues and events, ring size and barrier width: *)
(* everything in flight is on a list of its queue, the ring never holds more *)
(* packets than it has slots, it is freed idle, and lr_queue_synchronize and *)
(* lr_synchronize return with what they drained idle.                       *)
THEOREM RingIsAccounted == Spec => []RingAccounted
<1>1. RingInv => RingAccounted
  BY RingAccounts
<1> QED BY <1>1, InitRing, RingStep, PTL DEF Spec

(* A step that re-arms or frees a signal finds it settled. *)
LEMMA ReuseStep ==
  ASSUME RingInv, [Next]_vars, NEW e \in Events
  PROVE  SignalReuse(e)
<1>0. val \in [Events -> {0, 1}] /\ ev \in [Events -> EventStates]
  BY Zenon DEF RingInv, TypeOK
<1> DEFINE Reuse == (val[e] = 0 /\ val'[e] = 1) \/ (ev[e].live /\ ~ev'[e].live)
<1>1. Settled(e) =>
        /\ \A q \in Queues : \A p \in flight[q] : p.ev # e /\ e \notin p.deps
        /\ HostWaiters(e) = {}
  <2>1. ASSUME Settled(e), NEW t \in Threads, th[t].ce = e,
               NEW l \in {"host_wait", "relock"}, At(t, l)
        PROVE  FALSE
    <3>1. CallInv(t) /\ th[t].k # <<>> /\ Head(th[t].k) = l /\ Serves(th[t].call.name, l)
      BY <2>1, Runs, Zenon DEF At
    <3>2. th[t].call.name = "event_synchronize"
      BY <3>1, Zenon DEF Serves
    <3>3. th[t].call.e = e /\ t \in ev[th[t].call.e].syncs
      BY <2>1, <3>1, <3>2, Zenon DEF CallInv
    <3> QED BY <2>1, <3>3, Zenon DEF Settled
  <2>2. Settled(e) => HostWaiters(e) = {}
    BY <2>1, Zenon DEF HostWaiters
  <2> QED BY <2>2, SettledFree, Zenon
<1>2. ASSUME NEW t \in Threads, Step(t) \/ Invoke(t), Reuse PROVE Settled(e)
  <2>1. EventFrame(t)
    BY <1>2, EventFrames, Zenon
  <2>2. val'[e] = 1 => val'[e] # 0
    OBVIOUS
  <2> QED BY <1>2, <2>1, <2>2, Zenon DEF EventFrame
<1>3. ASSUME NEW q \in Queues, GpuComplete(q) PROVE ~Reuse
  <2>1. ev' = ev /\ (val[e] = 0 => val'[e] = 0)
    BY <1>3, DeviceShared, Zenon DEF GpuComplete
  <2>2. val'[e] = 1 => val'[e] # 0
    OBVIOUS
  <2> QED BY <2>1, <2>2, Zenon
<1>4. ASSUME UNCHANGED vars \/ Finished PROVE ~Reuse
  <2>1. UNCHANGED <<val, ev>>
    BY <1>4, Zenon DEF Finished, vars
  <2> QED BY <2>1
<1> QED BY <1>1, <1>2, <1>3, <1>4, Zenon DEF SignalReuse, Next

(* lr_event_record, lr_memcpy_async and lr_event_destroy re-arm or free the *)
(* signal of an event only when no packet completes it or waits for it and no *)
(* thread is in lr_event_synchronize on it.                                 *)
THEOREM SignalsReusedSafely == Spec => SignalReuseSafe
<1>1. RingInv /\ [Next]_vars => [\A e \in Events : SignalReuse(e)]_vars
  BY ReuseStep
<1> QED BY <1>1, InitRing, RingStep, PTL DEF Spec, SignalReuseSafe
=============================================================================
