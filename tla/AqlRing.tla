------------------------------ MODULE AqlRing ------------------------------
(***************************************************************************)
(* The AQL packet ring of one queue: the producer side of                  *)
(* src/src/aql_producer.cpp, shared by all three backends, and the packet  *)
(* processor of the GPU that consumes the ring (external).                 *)
(*                                                                         *)
(* A packet is identified by its packet id.  A slot is a header, which is  *)
(* what makes a packet executable, and a body; a body is abstracted to the *)
(* id of the packet it was built for.  Every load, store and doorbell of   *)
(* the producer is a step of its own, so the packet processor runs between *)
(* any two of them: the HSA queue model lets it execute a packet as soon   *)
(* as its header is valid, before the doorbell is rung.                    *)
(***************************************************************************)
EXTENDS Integers, Sequences

CONSTANTS Producers,    \* host threads that submit to this queue
          NoProducer,   \* the queue mutex is free
          PacketCount,  \* slots in the ring
          MaxBatch,     \* largest batch a caller asks for
          MaxPackets    \* bound: packet ids that a behaviour may reserve

ASSUME RingAssumption ==
  /\ NoProducer \notin Producers
  /\ PacketCount \in Nat \ {0}
  /\ MaxBatch \in Nat \ {0}
  /\ MaxPackets \in Nat

VARIABLES header, body,            \* the slots of the ring
          write_index, read_index, \* hsa_queue_t indices
          doorbell,                \* last packet id stored to the doorbell
          queue_mutex,             \* QueueState::mutex, held by the caller
          pc, op,                  \* each producer's step and locals
          fetching,                \* the processor executes packet read_index
          fetched,                 \* history: bodies executed, in order
          published                \* history: headers made valid so far

vars == <<header, body, write_index, read_index, doorbell, queue_mutex, pc, op,
          fetching, fetched, published>>
producerVars == <<write_index, doorbell, queue_mutex, pc, op>>

Slots == 0 .. PacketCount - 1
slot_index(packet_id) == packet_id % PacketCount

Headers == {"INVALID", "VALID"}
NoBody == -1

Steps == {"idle", "load_read", "check", "reserve", "invalidate", "copy",
          "publish", "doorbell"}
Writing == {"invalidate", "copy", "publish", "doorbell"}
Ops == [count: 1 .. MaxBatch, index: 0 .. MaxBatch, read: Nat, first: Nat]
NewOp(n) == [count |-> n, index |-> 0, read |-> 0, first |-> 0]
NoOp == NewOp(1)

Goto(p, step) == pc' = [pc EXCEPT ![p] = step]
Return(p) ==
  /\ Goto(p, "idle")
  /\ queue_mutex' = NoProducer
  /\ op' = [op EXCEPT ![p] = NoOp]
packet_id(p) == op[p].first + op[p].index

----------------------------------------------------------------------------
(* Producer: src/src/aql_producer.cpp                                      *)

Init ==
  /\ header = [s \in Slots |-> "INVALID"]
  /\ body = [s \in Slots |-> NoBody]
  /\ write_index = 0
  /\ read_index = 0
  /\ doorbell = -1
  /\ queue_mutex = NoProducer
  /\ pc = [p \in Producers |-> "idle"]
  /\ op = [p \in Producers |-> NoOp]
  /\ fetching = FALSE
  /\ fetched = <<>>
  /\ published = 0

(* A submit under the queue mutex: one packet (submit_packet), barriers     *)
(* (submit_aql_barriers_and) or barriers and a dispatch in one reservation. *)
(* A batch that cannot fit at all is QueueFull before any index is loaded.  *)
Submit(p, count) ==
  /\ pc[p] = "idle"
  /\ queue_mutex = NoProducer
  /\ write_index + count <= MaxPackets
  /\ count <= PacketCount
  /\ queue_mutex' = p
  /\ op' = [op EXCEPT ![p] = NewOp(count)]
  /\ Goto(p, "load_read")
  /\ UNCHANGED <<header, body, write_index, read_index, doorbell, fetching,
                 fetched, published>>

(* capacity_prevalidated: the serialized producer of the direct KFD backend *)
(* already knows that one packet fits and skips both index loads.           *)
SubmitPrevalidated(p) ==
  /\ pc[p] = "idle"
  /\ queue_mutex = NoProducer
  /\ write_index + 1 <= MaxPackets
  /\ write_index - read_index < PacketCount
  /\ queue_mutex' = p
  /\ op' = [op EXCEPT ![p] = NoOp]
  /\ Goto(p, "reserve")
  /\ UNCHANGED <<header, body, write_index, read_index, doorbell, fetching,
                 fetched, published>>

LoadReadIndex(p) ==
  /\ pc[p] = "load_read"
  /\ op' = [op EXCEPT ![p].read = read_index]
  /\ Goto(p, "check")
  /\ UNCHANGED <<header, body, write_index, read_index, doorbell, queue_mutex,
                 fetching, fetched, published>>

(* Mutation: the comparison admits one packet too many. *)
FitsOffByOne(p) ==
  /\ write_index >= op[p].read
  /\ write_index - op[p].read <= PacketCount - op[p].count + 1

Fits(p) ==
  /\ write_index >= op[p].read
  /\ write_index - op[p].read <= PacketCount - op[p].count

(* The write index is loaded and compared; QueueFull returns to the caller. *)
CheckCapacity(p) ==
  /\ pc[p] = "check"
  /\ IF Fits(p) THEN Goto(p, "reserve") /\ UNCHANGED <<queue_mutex, op>>
                ELSE Return(p)
  /\ UNCHANGED <<header, body, write_index, read_index, doorbell, fetching,
                 fetched, published>>

reserve_packet(p) ==
  /\ pc[p] = "reserve"
  /\ op' = [op EXCEPT ![p].first = write_index]
  /\ write_index' = write_index + op[p].count
  /\ Goto(p, "invalidate")
  /\ UNCHANGED <<header, body, read_index, doorbell, queue_mutex, fetching,
                 fetched, published>>

(* light-rocr's transport may refuse the reservation: ReserveFailed. *)
ReserveFailed(p) ==
  /\ pc[p] = "reserve"
  /\ Return(p)
  /\ UNCHANGED <<header, body, write_index, read_index, doorbell, fetching,
                 fetched, published>>

(* Mutation: the packet is copied header first. *)
StoreHeaderFirst(p) ==
  /\ pc[p] = "invalidate"
  /\ header' = [header EXCEPT ![slot_index(packet_id(p))] = "VALID"]
  /\ Goto(p, "copy")
  /\ UNCHANGED <<body, write_index, read_index, doorbell, queue_mutex, op,
                 fetching, fetched, published>>

(* publish_packet, first store: the header of the slot is INVALID while the *)
(* body is copied.                                                          *)
InvalidateHeader(p) ==
  /\ pc[p] = "invalidate"
  /\ header' = [header EXCEPT ![slot_index(packet_id(p))] = "INVALID"]
  /\ Goto(p, "copy")
  /\ UNCHANGED <<body, write_index, read_index, doorbell, queue_mutex, op,
                 fetching, fetched, published>>

CopyBody(p) ==
  /\ pc[p] = "copy"
  /\ body' = [body EXCEPT ![slot_index(packet_id(p))] = packet_id(p)]
  /\ Goto(p, "publish")
  /\ UNCHANGED <<header, write_index, read_index, doorbell, queue_mutex, op,
                 fetching, fetched, published>>

(* publish_packet, last store: the release store of the header. *)
PublishHeader(p) ==
  /\ pc[p] = "publish"
  /\ header' = [header EXCEPT ![slot_index(packet_id(p))] = "VALID"]
  /\ published' = published + 1
  /\ op' = [op EXCEPT ![p].index = @ + 1]
  /\ Goto(p, IF op[p].index + 1 = op[p].count THEN "doorbell" ELSE "invalidate")
  /\ UNCHANGED <<body, write_index, read_index, doorbell, queue_mutex,
                 fetching, fetched>>

(* Mutation: the doorbell announces the first packet of the batch. *)
RingFirstPacket(p) ==
  /\ pc[p] = "doorbell"
  /\ doorbell' = op[p].first
  /\ Return(p)
  /\ UNCHANGED <<header, body, write_index, read_index, fetching, fetched,
                 published>>

ring_doorbell(p) ==
  /\ pc[p] = "doorbell"
  /\ doorbell' = op[p].first + op[p].count - 1
  /\ Return(p)
  /\ UNCHANGED <<header, body, write_index, read_index, fetching, fetched,
                 published>>

----------------------------------------------------------------------------
(* Packet processor of the GPU (external)                                  *)

Fetch ==
  /\ ~fetching
  /\ read_index < write_index
  /\ header[slot_index(read_index)] = "VALID"
  /\ fetching' = TRUE
  /\ fetched' = Append(fetched, body[slot_index(read_index)])
  /\ UNCHANGED <<header, body, read_index, published>>
  /\ UNCHANGED producerVars

Retire ==
  /\ fetching
  /\ fetching' = FALSE
  /\ header' = [header EXCEPT ![slot_index(read_index)] = "INVALID"]
  /\ read_index' = read_index + 1
  /\ UNCHANGED <<body, fetched, published>>
  /\ UNCHANGED producerVars

----------------------------------------------------------------------------
Produce(p) ==
  \/ LoadReadIndex(p)
  \/ CheckCapacity(p)
  \/ reserve_packet(p)
  \/ InvalidateHeader(p)
  \/ CopyBody(p)
  \/ PublishHeader(p)
  \/ ring_doorbell(p)

Next ==
  \/ \E p \in Producers, count \in 1 .. MaxBatch : Submit(p, count)
  \/ \E p \in Producers : SubmitPrevalidated(p)
  \/ \E p \in Producers : Produce(p)
  \/ \E p \in Producers : ReserveFailed(p)
  \/ Fetch
  \/ Retire

Spec == Init /\ [][Next]_vars

(* A submit runs to its end once it has started (it waits for nothing), and *)
(* the packet processor executes what the doorbell has announced.  Nothing  *)
(* obliges it to look at a header the doorbell has not announced.           *)
Fairness ==
  /\ \A p \in Producers : WF_vars(Produce(p))
  /\ WF_vars(doorbell >= read_index /\ Fetch)
  /\ WF_vars(Retire)

FairSpec == Spec /\ Fairness

----------------------------------------------------------------------------
TypeOK ==
  /\ header \in [Slots -> Headers]
  /\ body \in [Slots -> Int]
  /\ write_index \in Nat
  /\ read_index \in Nat
  /\ doorbell \in Int
  /\ queue_mutex \in Producers \cup {NoProducer}
  /\ pc \in [Producers -> Steps]
  /\ op \in [Producers -> Ops]
  /\ fetching \in BOOLEAN
  /\ fetched \in Seq(Int)
  /\ published \in Nat

(* The packet processor executes every packet exactly once, in id order,    *)
(* with the body its producer wrote: publish_packet's store order and the   *)
(* capacity check keep a stale or half-written slot from being executed.    *)
DeliveredIntact == \A i \in DOMAIN fetched : fetched[i] = i - 1

(* No store of publish_packet touches a slot whose packet the processor has *)
(* not finished with: the capacity check of aql_producer.cpp holds at the   *)
(* time of the stores, not only when the read index was loaded.             *)
WritesOnlyFreeSlots ==
  \A p \in Producers :
    pc[p] \in {"invalidate", "copy", "publish"} =>
      packet_id(p) - read_index < PacketCount

(* A producer that is inside a submit holds the queue mutex. *)
MutexInv == \A p \in Producers : pc[p] # "idle" => queue_mutex = p

(* The indices: at most PacketCount packets lie between the read and the    *)
(* write index, and the executed ones are exactly those below the read      *)
(* index and the one being executed.                                        *)
IndexInv ==
  /\ read_index <= published
  /\ published <= write_index
  /\ write_index <= read_index + PacketCount
  /\ Len(fetched) = IF fetching THEN read_index + 1 ELSE read_index
  /\ fetching => read_index < published

(* Where a producer stands in its reservation. *)
OpOf(p) ==
  /\ pc[p] = "check" => op[p].read <= read_index
  /\ pc[p] = "reserve" => write_index + op[p].count <= read_index + PacketCount
  /\ pc[p] \in Writing => /\ op[p].first + op[p].count = write_index
                           /\ published = packet_id(p)
  /\ pc[p] \in Writing \ {"doorbell"} => op[p].index < op[p].count
  /\ pc[p] = "doorbell" => op[p].index = op[p].count
  /\ pc[p] = "publish" => body[slot_index(packet_id(p))] = packet_id(p)
  /\ pc[p] \in {"load_read", "check", "reserve"} => op[p].index = 0

(* Without a reservation in progress, everything reserved is published. *)
OpInv ==
  /\ (\A p \in Producers : pc[p] \notin Writing) => published = write_index
  /\ \A p \in Producers : OpOf(p)

(* The window of published packets is valid and intact; every other slot    *)
(* is INVALID.                                                              *)
SlotInv ==
  /\ \A id \in read_index .. published - 1 :
       /\ header[slot_index(id)] = "VALID"
       /\ body[slot_index(id)] = id
  /\ \A id \in published .. read_index + PacketCount - 1 :
       header[slot_index(id)] = "INVALID"

(* The inductive invariant behind DeliveredIntact and WritesOnlyFreeSlots:  *)
(* publish_packet keeps the slots, the indices and the producer's place in  *)
(* its batch consistent at every store.                                     *)
RingInv == TypeOK /\ MutexInv /\ IndexInv /\ OpInv /\ SlotInv /\ DeliveredIntact

(* The ring implements a FIFO of PacketCount packets. *)
Fifo == INSTANCE PacketFifo WITH Capacity <- PacketCount, delivered <- fetched
ImplementsFifo == Fifo!Spec

(* Every reserved packet is executed in the end: each reservation is        *)
(* published and a doorbell covers the last packet of its batch.            *)
EveryReservationExecuted ==
  \A n \in 1 .. MaxPackets : (write_index >= n) ~> (read_index >= n)
=============================================================================
