--------------------------- MODULE AqlRingProofs ---------------------------
(***************************************************************************)
(* For every ring size, number of producers and batch size: the ring keeps *)
(* its inductive invariant RingInv, delivers packets intact, writes only   *)
(* free slots and implements PacketFifo.                                   *)
(***************************************************************************)
EXTENDS AqlRing, TLAPS

USE RingAssumption

(* Two packet ids less than PacketCount apart never share a slot. *)
LEMMA SlotsDistinct ==
  ASSUME NEW i \in Nat, NEW j \in Nat, i < j, j < i + PacketCount
  PROVE  slot_index(i) # slot_index(j)
<1>. DEFINE n == PacketCount
<1>1. /\ n \in Nat \ {0}
      /\ i % n \in 0 .. n - 1 /\ i \div n \in Int /\ i = n * (i \div n) + (i % n)
      /\ j % n \in 0 .. n - 1 /\ j \div n \in Int /\ j = n * (j \div n) + (j % n)
  BY RingAssumption
<1>2. SUFFICES ASSUME i % n = j % n PROVE FALSE
  BY DEF slot_index
<1>. DEFINE d == (j \div n) - (i \div n)
<1>3. d \in Int /\ j - i = n * d
  BY <1>1, <1>2
<1>4. n * d < n /\ n * d > 0
  BY <1>1, <1>3
<1>. HIDE DEF d
<1>5. CASE d <= 0
  BY <1>1, <1>3, <1>4, <1>5
<1>6. CASE d >= 1
  BY <1>1, <1>3, <1>4, <1>6
<1>. QED  BY <1>3, <1>5, <1>6

LEMMA SlotInRange ==
  ASSUME NEW i \in Nat
  PROVE  slot_index(i) \in Slots
BY DEF slot_index, Slots

(* The slot of a packet is reused by the packet one ring later. *)
LEMMA SlotPeriodic ==
  ASSUME NEW i \in Nat
  PROVE  slot_index(i + PacketCount) = slot_index(i)
<1>. DEFINE n == PacketCount
            j == i + n
<1>1. /\ n \in Nat \ {0} /\ j \in Nat
      /\ i % n \in 0 .. n - 1 /\ i \div n \in Int /\ i = n * (i \div n) + (i % n)
      /\ j % n \in 0 .. n - 1 /\ j \div n \in Int /\ j = n * (j \div n) + (j % n)
  BY RingAssumption
<1>. DEFINE d == (j \div n) - (i \div n) - 1
<1>2. d \in Int /\ n * d = (i % n) - (j % n)
  BY <1>1
<1>3. n * d < n /\ n * d > -n
  BY <1>1, <1>2
<1>. HIDE DEF d, j
<1>4. d = 0
  <2>1. CASE d >= 1
    BY <1>1, <1>2, <1>3, <2>1
  <2>2. CASE d <= -1
    BY <1>1, <1>2, <1>3, <2>2
  <2>. QED  BY <1>2, <2>1, <2>2
<1>5. j % n = i % n
  BY <1>1, <1>2, <1>4
<1>. QED  BY <1>5 DEF slot_index, j

(* What a producer keeps about its batch are naturals. *)
LEMMA OpTyped ==
  ASSUME TypeOK, NEW p \in Producers
  PROVE  /\ op[p].count \in Nat /\ op[p].index \in Nat
         /\ op[p].first \in Nat /\ op[p].read \in Nat
<1>1. op[p] \in Ops
  BY Zenon DEF TypeOK
<1>2. /\ op[p].count \in 1 .. MaxBatch /\ op[p].index \in 0 .. MaxBatch
      /\ op[p].first \in Nat /\ op[p].read \in Nat
  BY <1>1, SMTT(60) DEF Ops
<1>. QED  BY <1>2, RingAssumption, SMTT(60)

(* The ring starts with its invariant. *)
LEMMA RingInit == Init => RingInv
<1>. SUFFICES ASSUME Init PROVE RingInv
  OBVIOUS
<1>. USE DEF Init, Writing
<1>1. TypeOK
  <2>1. op \in [Producers -> Ops]
    BY DEF Ops, NewOp, NoOp
  <2>2. header \in [Slots -> Headers] /\ pc \in [Producers -> Steps]
    BY DEF Headers, Steps
  <2>3. body \in [Slots -> Int] /\ doorbell \in Int
    BY DEF NoBody
  <2>4. fetched \in Seq(Int)
    OBVIOUS
  <2>. QED  BY Zenon, <2>1, <2>2, <2>3, <2>4 DEF TypeOK
<1>2. MutexInv /\ IndexInv /\ DeliveredIntact
  BY DEF MutexInv, IndexInv, DeliveredIntact
<1>3. OpInv
  BY DEF OpInv, OpOf
<1>4. SlotInv
  BY SlotInRange DEF SlotInv
<1>. QED  BY <1>1, <1>2, <1>3, <1>4 DEF RingInv

(* Every step of a producer and of the packet processor keeps RingInv. *)
LEMMA RingStep == RingInv /\ [Next]_vars => RingInv'
<1>. SUFFICES ASSUME RingInv, [Next]_vars PROVE RingInv'
  OBVIOUS
<1>. USE DEF RingInv, Goto, Headers, Steps, Writing
<1>0. \A p \in Producers : /\ op[p] \in Ops /\ op[p].count \in 1 .. MaxBatch
                            /\ op[p].index \in Nat /\ op[p].read \in Nat
                            /\ op[p].first \in Nat /\ packet_id(p) \in Nat
  <2>. SUFFICES ASSUME NEW p \in Producers
                PROVE  /\ op[p] \in Ops /\ op[p].count \in 1 .. MaxBatch
                       /\ op[p].index \in Nat /\ op[p].read \in Nat
                       /\ op[p].first \in Nat /\ packet_id(p) \in Nat
    OBVIOUS
  <2>1. op[p] \in Ops
    BY DEF TypeOK
  <2>2. op[p].count \in 1 .. MaxBatch
    BY <2>1, SMTT(60) DEF Ops
  <2>3. /\ op[p].index \in Nat /\ op[p].read \in Nat /\ op[p].first \in Nat
    BY OpTyped
  <2>. QED  BY <2>1, <2>2, <2>3 DEF packet_id
<1>a. ASSUME NEW p \in Producers, pc[p] \in Writing \ {"doorbell"}
      PROVE  /\ packet_id(p) = published
             /\ read_index <= published /\ published < write_index
             /\ published < read_index + PacketCount
  <2>1. /\ published = packet_id(p) /\ op[p].index < op[p].count
        /\ op[p].first + op[p].count = write_index
    BY <1>a DEF OpInv, OpOf
  <2>2. op[p].count \in Nat /\ op[p].index \in Nat /\ op[p].first \in Nat
    BY <1>0, RingAssumption
  <2>3. packet_id(p) < write_index
    BY <2>1, <2>2 DEF packet_id
  <2>4. /\ read_index \in Nat /\ published \in Nat /\ write_index \in Nat
        /\ read_index <= published /\ write_index <= read_index + PacketCount
    BY DEF TypeOK, IndexInv
  <2>. QED  BY <2>1, <2>3, <2>4, RingAssumption
<1>1. ASSUME NEW p \in Producers, NEW count \in 1 .. MaxBatch, Submit(p, count)
      PROVE  RingInv'
  <2>. USE <1>1 DEF Submit
  <2>1. \A q \in Producers \ {p} : pc[q] = "idle" /\ pc'[q] = "idle"
    BY DEF TypeOK, MutexInv
  <2>2. op' \in [Producers -> Ops]
    BY <1>0 DEF TypeOK, OpInv, OpOf, Ops, NewOp, NoOp
  <2>3. TypeOK'
    BY <1>0, <2>2, SlotInRange DEF TypeOK
  <2>4. MutexInv'
    BY DEF TypeOK, MutexInv
  <2>5. IndexInv'
    BY <1>0 DEF TypeOK, IndexInv, OpInv, OpOf, packet_id
  <2>6. OpInv'
    <3>1. OpOf(p)'
      BY <1>0, SlotInRange, SMTT(60) DEF TypeOK, IndexInv, OpInv, OpOf, packet_id, slot_index, NewOp, NoOp
    <3>2. (\A q \in Producers : pc[q] \notin Writing)' => published' = write_index'
      BY <1>0, <2>1 DEF TypeOK, OpInv, OpOf, packet_id
    <3>3. \A q \in Producers \ {p} : OpOf(q)'
      BY <2>1, SMTT(60) DEF OpOf
    <3>. QED  BY <3>1, <3>2, <3>3, SMTT(60) DEF OpInv
  <2>7. SlotInv'
    BY <1>0, SlotInRange, SlotsDistinct DEF TypeOK, IndexInv, OpInv, OpOf, SlotInv
  <2>8. DeliveredIntact'
    BY DEF DeliveredIntact
  <2>. QED  BY <2>3, <2>4, <2>5, <2>6, <2>7, <2>8
<1>2. ASSUME NEW p \in Producers, SubmitPrevalidated(p) PROVE RingInv'
  <2>. USE <1>2 DEF SubmitPrevalidated
  <2>1. \A q \in Producers \ {p} : pc[q] = "idle" /\ pc'[q] = "idle"
    BY DEF TypeOK, MutexInv
  <2>2. op' \in [Producers -> Ops]
    BY <1>0 DEF TypeOK, OpInv, OpOf, Ops, NewOp, NoOp
  <2>3. TypeOK'
    BY <1>0, <2>2, SlotInRange DEF TypeOK
  <2>4. MutexInv'
    BY DEF TypeOK, MutexInv
  <2>5. IndexInv'
    BY <1>0 DEF TypeOK, IndexInv, OpInv, OpOf, packet_id
  <2>6. OpInv'
    <3>1. OpOf(p)'
      BY <1>0, SlotInRange, SMTT(60) DEF TypeOK, IndexInv, OpInv, OpOf, packet_id, slot_index, NewOp, NoOp
    <3>2. (\A q \in Producers : pc[q] \notin Writing)' => published' = write_index'
      BY <1>0, <2>1 DEF TypeOK, OpInv, OpOf, packet_id
    <3>3. \A q \in Producers \ {p} : OpOf(q)'
      BY <2>1, SMTT(60) DEF OpOf
    <3>. QED  BY <3>1, <3>2, <3>3, SMTT(60) DEF OpInv
  <2>7. SlotInv'
    BY <1>0, SlotInRange, SlotsDistinct DEF TypeOK, IndexInv, OpInv, OpOf, SlotInv
  <2>8. DeliveredIntact'
    BY DEF DeliveredIntact
  <2>. QED  BY <2>3, <2>4, <2>5, <2>6, <2>7, <2>8
<1>3. ASSUME NEW p \in Producers, LoadReadIndex(p) PROVE RingInv'
  <2>. USE <1>3 DEF LoadReadIndex
  <2>1. \A q \in Producers \ {p} : pc[q] = "idle" /\ pc'[q] = "idle"
    BY DEF TypeOK, MutexInv
  <2>2. op' \in [Producers -> Ops]
    BY <1>0, ZenonT(60) DEF TypeOK, OpInv, OpOf, Ops
  <2>3. TypeOK'
    BY Zenon, <1>0, <2>2, SlotInRange DEF TypeOK
  <2>4. MutexInv'
    BY DEF TypeOK, MutexInv
  <2>5. IndexInv'
    BY <1>0 DEF TypeOK, IndexInv, OpInv, OpOf, packet_id
  <2>6. OpInv'
    <3>1. OpOf(p)'
      <4>1. /\ pc'[p] = "check" /\ op'[p].read = read_index
            /\ op'[p].index = op[p].index
        BY DEF TypeOK, Ops
      <4>. QED  BY <1>0, <4>1 DEF TypeOK, OpInv, OpOf
    <3>2. (\A q \in Producers : pc[q] \notin Writing)' => published' = write_index'
      BY <1>0, <2>1 DEF TypeOK, OpInv, OpOf, packet_id
    <3>3. \A q \in Producers \ {p} : OpOf(q)'
      BY <2>1, SMTT(60) DEF OpOf
    <3>. QED  BY <3>1, <3>2, <3>3, SMTT(60) DEF OpInv
  <2>7. SlotInv'
    BY <1>0, SlotInRange, SlotsDistinct DEF TypeOK, IndexInv, OpInv, OpOf, SlotInv
  <2>8. DeliveredIntact'
    BY DEF DeliveredIntact
  <2>. QED  BY <2>3, <2>4, <2>5, <2>6, <2>7, <2>8
<1>4. ASSUME NEW p \in Producers, CheckCapacity(p) PROVE RingInv'
  <2>. USE <1>4 DEF CheckCapacity, Fits, Return
  <2>1. \A q \in Producers \ {p} : pc[q] = "idle" /\ pc'[q] = "idle"
    BY DEF TypeOK, MutexInv
  <2>2. op' \in [Producers -> Ops]
    <3>1. NoOp \in Ops
      BY DEF NoOp, NewOp, Ops
    <3>. QED  BY <3>1 DEF TypeOK
  <2>3. TypeOK'
    BY Zenon, <1>0, <2>2, SlotInRange DEF TypeOK
  <2>4. MutexInv'
    BY DEF TypeOK, MutexInv
  <2>5. IndexInv'
    BY <1>0 DEF TypeOK, IndexInv, OpInv, OpOf, packet_id
  <2>6. OpInv'
    <3>1. OpOf(p)'
      <4>1. CASE Fits(p)
        <5>1. pc'[p] = "reserve" /\ UNCHANGED <<op, write_index, read_index>>
          BY <4>1 DEF TypeOK
        <5>2. write_index + op[p].count <= read_index + PacketCount
          BY <1>0, <4>1, SMTT(60) DEF TypeOK, OpInv, OpOf
        <5>3. op[p].index = 0
          BY DEF OpInv, OpOf
        <5>. QED  BY <5>1, <5>2, <5>3 DEF OpOf
      <4>2. CASE ~Fits(p)
        BY <4>2 DEF TypeOK, OpOf
      <4>. QED  BY <4>1, <4>2
    <3>2. (\A q \in Producers : pc[q] \notin Writing)' => published' = write_index'
      BY <1>0, <2>1 DEF TypeOK, OpInv, OpOf, packet_id
    <3>3. \A q \in Producers \ {p} : OpOf(q)'
      BY <2>1, SMTT(60) DEF OpOf
    <3>. QED  BY <3>1, <3>2, <3>3, SMTT(60) DEF OpInv
  <2>7. SlotInv'
    BY <1>0, SlotInRange, SlotsDistinct DEF TypeOK, IndexInv, OpInv, OpOf, SlotInv
  <2>8. DeliveredIntact'
    BY DEF DeliveredIntact
  <2>. QED  BY <2>3, <2>4, <2>5, <2>6, <2>7, <2>8
<1>5. ASSUME NEW p \in Producers, reserve_packet(p) PROVE RingInv'
  <2>. USE <1>5 DEF reserve_packet
  <2>1. \A q \in Producers \ {p} : pc[q] = "idle" /\ pc'[q] = "idle"
    BY DEF TypeOK, MutexInv
  <2>2. op' \in [Producers -> Ops]
    BY <1>0, ZenonT(60) DEF TypeOK, OpInv, OpOf, Ops
  <2>3. TypeOK'
    <3>1. write_index' \in Nat
      BY <1>0, SMTT(60) DEF TypeOK
    <3>. QED  BY <2>2, <3>1 DEF TypeOK
  <2>4. MutexInv'
    BY DEF TypeOK, MutexInv
  <2>5. IndexInv'
    BY <1>0, SMTT(60) DEF TypeOK, IndexInv, OpInv, OpOf, packet_id
  <2>6. OpInv'
    <3>1. OpOf(p)'
      <4>1. /\ pc'[p] = "invalidate" /\ op'[p].first = write_index
            /\ op'[p].index = op[p].index /\ op'[p].count = op[p].count
        BY DEF TypeOK, Ops
      <4>2. op[p].index = 0 /\ published = write_index
        BY <2>1 DEF OpInv, OpOf
      <4>. QED  BY <1>0, <4>1, <4>2, SMTT(60) DEF TypeOK, OpInv, OpOf, packet_id
    <3>2. (\A q \in Producers : pc[q] \notin Writing)' => published' = write_index'
      BY <1>0, <2>1 DEF TypeOK, OpInv, OpOf, packet_id
    <3>3. \A q \in Producers \ {p} : OpOf(q)'
      BY <2>1, SMTT(60) DEF OpOf
    <3>. QED  BY <3>1, <3>2, <3>3, SMTT(60) DEF OpInv
  <2>7. SlotInv'
    BY <1>0, SlotInRange, SlotsDistinct DEF TypeOK, IndexInv, OpInv, OpOf, SlotInv
  <2>8. DeliveredIntact'
    BY DEF DeliveredIntact
  <2>. QED  BY <2>3, <2>4, <2>5, <2>6, <2>7, <2>8
<1>6. ASSUME NEW p \in Producers, InvalidateHeader(p) PROVE RingInv'
  <2>. USE <1>6 DEF InvalidateHeader
  <2>1. \A q \in Producers \ {p} : pc[q] = "idle" /\ pc'[q] = "idle"
    BY DEF TypeOK, MutexInv
  <2>2. op' \in [Producers -> Ops]
    BY <1>0 DEF TypeOK, OpInv, OpOf, Ops
  <2>3. TypeOK'
    BY <1>0, <2>2, SlotInRange DEF TypeOK
  <2>4. MutexInv'
    BY DEF TypeOK, MutexInv
  <2>5. IndexInv'
    BY <1>0 DEF TypeOK, IndexInv, OpInv, OpOf, packet_id
  <2>6. OpInv'
    <3>1. OpOf(p)'
      BY <1>0, SlotInRange DEF TypeOK, IndexInv, OpInv, OpOf, packet_id, slot_index
    <3>2. (\A q \in Producers : pc[q] \notin Writing)' => published' = write_index'
      BY <1>0, <2>1 DEF TypeOK, OpInv, OpOf, packet_id
    <3>3. \A q \in Producers \ {p} : OpOf(q)'
      BY <2>1, SMTT(60) DEF OpOf
    <3>. QED  BY <3>1, <3>2, <3>3, SMTT(60) DEF OpInv
  <2>7. SlotInv'
    <3>1. /\ packet_id(p) = published /\ published \in Nat /\ read_index \in Nat
          /\ read_index <= published /\ published < read_index + PacketCount
      BY <1>a DEF TypeOK
    <3>2. \A id \in read_index .. published - 1 : slot_index(id) # slot_index(published)
      BY <3>1, SlotsDistinct
    <3>3. \A id \in published + 1 .. read_index + PacketCount - 1 :
            slot_index(id) # slot_index(published)
      BY <3>1, SlotsDistinct
    <3>. QED  BY <3>1, <3>2, <3>3, SlotInRange DEF TypeOK, SlotInv
  <2>8. DeliveredIntact'
    BY DEF DeliveredIntact
  <2>. QED  BY <2>3, <2>4, <2>5, <2>6, <2>7, <2>8
<1>7. ASSUME NEW p \in Producers, CopyBody(p) PROVE RingInv'
  <2>. USE <1>7 DEF CopyBody
  <2>1. \A q \in Producers \ {p} : pc[q] = "idle" /\ pc'[q] = "idle"
    BY DEF TypeOK, MutexInv
  <2>2. op' \in [Producers -> Ops]
    BY <1>0 DEF TypeOK, OpInv, OpOf, Ops
  <2>3. TypeOK'
    BY <1>0, <2>2, SlotInRange DEF TypeOK
  <2>4. MutexInv'
    BY DEF TypeOK, MutexInv
  <2>5. IndexInv'
    BY <1>0 DEF TypeOK, IndexInv, OpInv, OpOf, packet_id
  <2>6. OpInv'
    <3>1. OpOf(p)'
      BY Zenon, <1>0, SlotInRange DEF TypeOK, IndexInv, OpInv, OpOf, packet_id, slot_index
    <3>2. (\A q \in Producers : pc[q] \notin Writing)' => published' = write_index'
      BY <1>0, <2>1 DEF TypeOK, OpInv, OpOf, packet_id
    <3>3. \A q \in Producers \ {p} : OpOf(q)'
      BY <2>1, SMTT(60) DEF OpOf
    <3>. QED  BY <3>1, <3>2, <3>3, SMTT(60) DEF OpInv
  <2>7. SlotInv'
    <3>1. /\ packet_id(p) = published /\ published \in Nat /\ read_index \in Nat
          /\ read_index <= published /\ published < read_index + PacketCount
      BY <1>a DEF TypeOK
    <3>2. \A id \in read_index .. published - 1 : slot_index(id) # slot_index(published)
      BY <3>1, SlotsDistinct
    <3>. QED  BY <3>1, <3>2, SlotInRange DEF TypeOK, SlotInv
  <2>8. DeliveredIntact'
    BY DEF DeliveredIntact
  <2>. QED  BY <2>3, <2>4, <2>5, <2>6, <2>7, <2>8
<1>8. ASSUME NEW p \in Producers, PublishHeader(p) PROVE RingInv'
  <2>. USE <1>8 DEF PublishHeader
  <2>1. \A q \in Producers \ {p} : pc[q] = "idle" /\ pc'[q] = "idle"
    BY DEF TypeOK, MutexInv
  <2>2. op' \in [Producers -> Ops]
    <3>1. op[p].index + 1 \in 0 .. MaxBatch
      BY <1>0 DEF OpInv, OpOf
    <3>. QED  BY <1>0, <3>1, ZenonT(60) DEF TypeOK, Ops
  <2>3. TypeOK'
    <3>1. header' \in [Slots -> Headers] /\ pc' \in [Producers -> Steps]
      BY Zenon DEF TypeOK
    <3>2. published' \in Nat
      BY DEF TypeOK
    <3>. QED  BY <2>2, <3>1, <3>2 DEF TypeOK
  <2>4. MutexInv'
    BY DEF TypeOK, MutexInv
  <2>5. IndexInv'
    <3>1. published < write_index
      BY <1>a
    <3>. QED  BY <3>1, SMTT(60) DEF TypeOK, IndexInv
  <2>6. OpInv'
    <3>1. OpOf(p)'
      <4>1. /\ op'[p].first = op[p].first /\ op'[p].index = op[p].index + 1
            /\ op'[p].count = op[p].count
        BY DEF TypeOK, Ops
      <4>2. pc'[p] = IF op[p].index + 1 = op[p].count THEN "doorbell" ELSE "invalidate"
        BY DEF TypeOK
      <4>3. /\ op[p].first + op[p].count = write_index /\ published = packet_id(p)
            /\ op[p].index < op[p].count
        BY DEF OpInv, OpOf
      <4>4. packet_id(p)' = published'
        BY <1>0, <4>1, <4>3 DEF packet_id
      <4>. QED  BY <1>0, <4>1, <4>2, <4>3, <4>4 DEF OpOf
    <3>2. (\A q \in Producers : pc[q] \notin Writing)' => published' = write_index'
      BY <1>0, <2>1 DEF TypeOK, OpInv, OpOf, packet_id
    <3>3. \A q \in Producers \ {p} : OpOf(q)'
      BY <2>1, SMTT(60) DEF OpOf
    <3>. QED  BY <3>1, <3>2, <3>3, SMTT(60) DEF OpInv
  <2>7. SlotInv'
    <3>1. /\ packet_id(p) = published /\ published \in Nat /\ read_index \in Nat
          /\ read_index <= published /\ published < read_index + PacketCount
      BY <1>a DEF TypeOK
    <3>2. \A id \in read_index .. published - 1 : slot_index(id) # slot_index(published)
      BY <3>1, SlotsDistinct
    <3>3. \A id \in published + 1 .. read_index + PacketCount - 1 :
            slot_index(id) # slot_index(published)
      BY <3>1, SlotsDistinct
    <3>4. body[slot_index(published)] = published
      BY <3>1 DEF OpInv, OpOf
    <3>5. header' = [header EXCEPT ![slot_index(published)] = "VALID"]
      BY <3>1
    <3>6. ASSUME NEW id \in read_index .. published
          PROVE  header'[slot_index(id)] = "VALID" /\ body[slot_index(id)] = id
      <4>1. id \in Nat /\ slot_index(id) \in Slots /\ slot_index(published) \in Slots
        BY <3>1, SlotInRange
      <4>2. CASE id = published
        BY <3>4, <3>5, <4>1, <4>2 DEF TypeOK
      <4>3. CASE id # published
        <5>1. id \in read_index .. published - 1
          BY <3>1, <4>3
        <5>2. /\ header[slot_index(id)] = "VALID" /\ body[slot_index(id)] = id
              /\ slot_index(id) # slot_index(published)
          BY <3>2, <5>1 DEF SlotInv
        <5>. QED  BY <3>5, <4>1, <5>2 DEF TypeOK
      <4>. QED  BY <4>2, <4>3
    <3>7. ASSUME NEW id \in published + 1 .. read_index + PacketCount - 1
          PROVE  header'[slot_index(id)] = "INVALID"
      <4>1. id \in Nat /\ slot_index(id) \in Slots /\ slot_index(published) \in Slots
        BY <3>1, SlotInRange
      <4>2. /\ header[slot_index(id)] = "INVALID"
            /\ slot_index(id) # slot_index(published)
        BY <3>1, <3>3 DEF SlotInv
      <4>. QED  BY <3>5, <4>1, <4>2 DEF TypeOK
    <3>. QED  BY <3>1, <3>6, <3>7 DEF SlotInv, slot_index
  <2>8. DeliveredIntact'
    BY DEF DeliveredIntact
  <2>. QED  BY <2>3, <2>4, <2>5, <2>6, <2>7, <2>8
<1>9. ASSUME NEW p \in Producers, ring_doorbell(p) PROVE RingInv'
  <2>. USE <1>9 DEF ring_doorbell, Return
  <2>1. \A q \in Producers \ {p} : pc[q] = "idle" /\ pc'[q] = "idle"
    BY DEF TypeOK, MutexInv
  <2>2. op' \in [Producers -> Ops]
    BY <1>0 DEF TypeOK, OpInv, OpOf, Ops, NewOp, NoOp
  <2>3. TypeOK'
    <3>1. doorbell' \in Int
      BY <1>0 DEF TypeOK
    <3>. QED  BY <2>2, <3>1 DEF TypeOK
  <2>4. MutexInv'
    BY DEF TypeOK, MutexInv
  <2>5. IndexInv'
    BY <1>0 DEF TypeOK, IndexInv, OpInv, OpOf, packet_id
  <2>6. OpInv'
    <3>1. OpOf(p)'
      BY <1>0, SlotInRange, SMTT(60) DEF TypeOK, IndexInv, OpInv, OpOf, packet_id, slot_index, NewOp, NoOp
    <3>2. (\A q \in Producers : pc[q] \notin Writing)' => published' = write_index'
      BY <1>0, <2>1 DEF TypeOK, OpInv, OpOf, packet_id
    <3>3. \A q \in Producers \ {p} : OpOf(q)'
      BY <2>1, SMTT(60) DEF OpOf
    <3>. QED  BY <3>1, <3>2, <3>3, SMTT(60) DEF OpInv
  <2>7. SlotInv'
    BY <1>0, SlotInRange, SlotsDistinct DEF TypeOK, IndexInv, OpInv, OpOf, SlotInv
  <2>8. DeliveredIntact'
    BY DEF DeliveredIntact
  <2>. QED  BY <2>3, <2>4, <2>5, <2>6, <2>7, <2>8
<1>10. ASSUME NEW p \in Producers, ReserveFailed(p) PROVE RingInv'
  <2>. USE <1>10 DEF ReserveFailed, Return
  <2>1. \A q \in Producers \ {p} : pc[q] = "idle" /\ pc'[q] = "idle"
    BY DEF TypeOK, MutexInv
  <2>2. op' \in [Producers -> Ops]
    BY <1>0 DEF TypeOK, OpInv, OpOf, Ops, NewOp, NoOp
  <2>3. TypeOK'
    BY <1>0, <2>2, SlotInRange DEF TypeOK
  <2>4. MutexInv'
    BY DEF TypeOK, MutexInv
  <2>5. IndexInv'
    BY <1>0 DEF TypeOK, IndexInv, OpInv, OpOf, packet_id
  <2>6. OpInv'
    <3>1. OpOf(p)'
      BY <1>0, SlotInRange, SMTT(60) DEF TypeOK, IndexInv, OpInv, OpOf, packet_id, slot_index, NewOp, NoOp
    <3>2. (\A q \in Producers : pc[q] \notin Writing)' => published' = write_index'
      BY <1>0, <2>1 DEF TypeOK, OpInv, OpOf, packet_id
    <3>3. \A q \in Producers \ {p} : OpOf(q)'
      BY <2>1, SMTT(60) DEF OpOf
    <3>. QED  BY <3>1, <3>2, <3>3, SMTT(60) DEF OpInv
  <2>7. SlotInv'
    BY <1>0, SlotInRange, SlotsDistinct DEF TypeOK, IndexInv, OpInv, OpOf, SlotInv
  <2>8. DeliveredIntact'
    BY DEF DeliveredIntact
  <2>. QED  BY <2>3, <2>4, <2>5, <2>6, <2>7, <2>8
<1>11. ASSUME Fetch PROVE RingInv'
  <2>. USE <1>11 DEF Fetch, producerVars
  <2>1. TypeOK'
    BY SlotInRange DEF TypeOK
  <2>2. MutexInv'
    BY DEF MutexInv
  <2>3. IndexInv'
    BY SlotInRange DEF TypeOK, IndexInv, SlotInv
  <2>4. OpInv'
    BY <1>0 DEF TypeOK, IndexInv, OpInv, OpOf, packet_id, slot_index
  <2>5. SlotInv'
    BY SlotInRange, SlotsDistinct DEF TypeOK, IndexInv, SlotInv
  <2>6. DeliveredIntact'
    BY DEF TypeOK, IndexInv, SlotInv, DeliveredIntact
  <2>. QED  BY <2>1, <2>2, <2>3, <2>4, <2>5, <2>6
<1>12. ASSUME Retire PROVE RingInv'
  <2>. USE <1>12 DEF Retire, producerVars
  <2>1. TypeOK'
    <3>1. header' \in [Slots -> Headers]
      BY Zenon DEF TypeOK
    <3>2. read_index' \in Nat
      BY DEF TypeOK
    <3>. QED  BY Zenon, <3>1, <3>2 DEF TypeOK
  <2>2. MutexInv'
    BY DEF MutexInv
  <2>3. IndexInv'
    BY SlotInRange DEF TypeOK, IndexInv, SlotInv
  <2>4. OpInv'
    <3>1. read_index \in Nat /\ write_index \in Nat /\ PacketCount \in Nat
      BY RingAssumption DEF TypeOK
    <3>2. ASSUME NEW p \in Producers
          PROVE  OpOf(p)'
      <4>1. op[p].read \in Nat /\ op[p].count \in Nat
        BY <1>0, RingAssumption, SMTT(60)
      <4>2. (pc[p] = "check" => op[p].read <= read_index)'
        BY <3>1, <4>1, SMTT(60) DEF OpInv, OpOf
      <4>3. (pc[p] = "reserve" => write_index + op[p].count <= read_index + PacketCount)'
        BY <3>1, <4>1, SMTT(60) DEF OpInv, OpOf
      <4>. QED  BY <4>2, <4>3 DEF OpInv, OpOf, packet_id, slot_index
    <3>. QED  BY <3>2 DEF OpInv
  <2>5. SlotInv'
    <3>1. read_index \in Nat /\ published \in Nat /\ read_index < published
      BY DEF TypeOK, IndexInv
    <3>2. \A id \in read_index + 1 .. read_index + PacketCount - 1 :
            id \in Nat /\ slot_index(id) # slot_index(read_index)
      BY <3>1, SlotsDistinct
    <3>3. slot_index(read_index + PacketCount) = slot_index(read_index)
      BY <3>1, SlotPeriodic
    <3>4. ASSUME NEW id \in read_index' .. published' - 1
          PROVE  header'[slot_index(id)] = "VALID" /\ body'[slot_index(id)] = id
      BY <3>1, <3>2, SlotInRange DEF TypeOK, IndexInv, SlotInv
    <3>5. ASSUME NEW id \in published' .. read_index' + PacketCount - 1
          PROVE  header'[slot_index(id)] = "INVALID"
      <4>1. CASE id = read_index + PacketCount
        BY <3>1, <3>3, <4>1, SlotInRange DEF TypeOK
      <4>2. CASE id # read_index + PacketCount
        <5>1. id \in published .. read_index + PacketCount - 1
          BY <3>1, <4>2
        <5>. QED  BY <3>1, <3>2, <5>1, SlotInRange DEF TypeOK, SlotInv
      <4>. QED  BY <4>1, <4>2
    <3>. QED  BY <3>4, <3>5 DEF SlotInv, slot_index
  <2>6. DeliveredIntact'
    BY DEF TypeOK, IndexInv, SlotInv, DeliveredIntact
  <2>. QED  BY <2>1, <2>2, <2>3, <2>4, <2>5, <2>6
<1>13. CASE UNCHANGED vars
  BY <1>13 DEF vars, TypeOK, MutexInv, IndexInv, OpInv, OpOf, SlotInv,
       DeliveredIntact, slot_index, packet_id
<1>. QED
  BY <1>1, <1>2, <1>3, <1>4, <1>5, <1>6, <1>7, <1>8, <1>9, <1>10, <1>11, <1>12, <1>13 DEF Next, Produce

(* RingInv holds in every reachable state. *)
THEOREM RingInvariance == Spec => []RingInv
<1>1. Init => RingInv
  BY RingInit
<1>2. RingInv /\ [Next]_vars => RingInv'
  BY RingStep
<1>. QED  BY <1>1, <1>2, PTL DEF Spec

(* Packets are executed exactly once, in order and intact. *)
THEOREM PacketsDeliveredIntact == Spec => []DeliveredIntact
<1>1. RingInv => DeliveredIntact
  BY DEF RingInv
<1>. QED  BY <1>1, RingInvariance, PTL

(* publish_packet never stores into a slot that is still in use. *)
THEOREM OnlyFreeSlotsWritten == Spec => []WritesOnlyFreeSlots
<1>1. RingInv => WritesOnlyFreeSlots
  <2>. SUFFICES ASSUME RingInv, NEW p \in Producers,
                       pc[p] \in {"invalidate", "copy", "publish"}
                PROVE  packet_id(p) - read_index < PacketCount
    BY DEF WritesOnlyFreeSlots
  <2>1. /\ published = packet_id(p) /\ op[p].index < op[p].count
        /\ op[p].first + op[p].count = write_index
    BY DEF RingInv, OpInv, OpOf, Writing
  <2>2. /\ op[p].count \in Nat /\ op[p].index \in Nat /\ op[p].first \in Nat
        /\ read_index \in Nat /\ write_index \in Nat
        /\ write_index <= read_index + PacketCount
    <3>1. TypeOK /\ IndexInv
      BY DEF RingInv
    <3>2. read_index \in Nat /\ write_index \in Nat
      BY <3>1 DEF TypeOK
    <3>. QED  BY <3>1, <3>2, OpTyped, SMTT(60) DEF IndexInv
  <2>. QED  BY <2>1, <2>2, SMTT(60) DEF packet_id
<1>. QED  BY <1>1, RingInvariance, PTL

(* The ring implements the FIFO: the header store publishes, the processor's *)
(* fetch delivers, and every other step is invisible.                        *)
THEOREM RingImplementsFifo == Spec => ImplementsFifo
<1>1. Init => Fifo!Init
  BY DEF Init, Fifo!Init
<1>2. RingInv /\ [Next]_vars => [Fifo!Next]_(Fifo!vars)
  <2>. SUFFICES ASSUME RingInv, [Next]_vars PROVE [Fifo!Next]_(Fifo!vars)
    OBVIOUS
  <2>. USE DEF Fifo!vars
  <2>1. ASSUME NEW p \in Producers, PublishHeader(p) PROVE Fifo!Publish
    <3>1. /\ published = packet_id(p) /\ op[p].index < op[p].count
          /\ op[p].first + op[p].count = write_index
      BY <2>1 DEF PublishHeader, RingInv, OpInv, OpOf, Writing
    <3>2. /\ op[p].count \in Nat /\ op[p].index \in Nat /\ op[p].first \in Nat
          /\ read_index \in Nat /\ write_index \in Nat /\ published \in Nat
      <4>1. TypeOK
        BY DEF RingInv
      <4>2. read_index \in Nat /\ write_index \in Nat /\ published \in Nat
        BY <4>1 DEF TypeOK
      <4>. QED  BY <4>1, <4>2, OpTyped
    <3>3. published < read_index + PacketCount
      BY <3>1, <3>2, SMTT(60) DEF RingInv, IndexInv, packet_id
    <3>4. Len(fetched) \in Nat /\ Len(fetched) >= read_index
      BY <3>2, SMTT(60) DEF RingInv, TypeOK, IndexInv
    <3>. QED  BY <2>1, <3>2, <3>3, <3>4 DEF PublishHeader, Fifo!Publish
  <2>2. CASE Fetch
    <3>1. /\ ~fetching /\ read_index < write_index
          /\ header[slot_index(read_index)] = "VALID"
          /\ fetched' = Append(fetched, body[slot_index(read_index)])
          /\ published' = published
      BY <2>2 DEF Fetch
    <3>2. Len(fetched) = read_index /\ read_index \in Nat /\ published \in Nat
      BY <3>1 DEF RingInv, TypeOK, IndexInv
    <3>3. read_index < published
      BY <3>1, <3>2 DEF RingInv, IndexInv, SlotInv
    <3>4. body[slot_index(read_index)] = read_index
      BY <3>2, <3>3 DEF RingInv, SlotInv
    <3>. QED  BY <3>1, <3>2, <3>3, <3>4 DEF Fifo!Deliver, Fifo!Next
  <2>3. CASE Retire
    BY <2>3 DEF Retire
  <2>4. ASSUME NEW p \in Producers,
               \/ \E count \in 1 .. MaxBatch : Submit(p, count)
               \/ SubmitPrevalidated(p) \/ LoadReadIndex(p) \/ CheckCapacity(p)
               \/ reserve_packet(p) \/ ReserveFailed(p) \/ InvalidateHeader(p)
               \/ CopyBody(p) \/ ring_doorbell(p)
        PROVE  UNCHANGED Fifo!vars
    BY <2>4 DEF Submit, SubmitPrevalidated, LoadReadIndex, CheckCapacity,
         reserve_packet, ReserveFailed, InvalidateHeader, CopyBody, ring_doorbell
  <2>5. CASE UNCHANGED vars
    BY <2>5 DEF vars
  <2>. QED  BY <2>1, <2>2, <2>3, <2>4, <2>5 DEF Next, Produce, Fifo!Next
<1>. QED  BY <1>1, <1>2, RingInvariance, PTL DEF Spec, ImplementsFifo, Fifo!Spec
=============================================================================
