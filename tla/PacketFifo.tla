----------------------------- MODULE PacketFifo -----------------------------
(***************************************************************************)
(* What an AQL queue promises to the code above it (src/src/queue.cpp,     *)
(* src/src/launch.cpp): a bounded FIFO.  Packets are numbered in the order *)
(* in which they are published; the packet processor executes each of      *)
(* them exactly once, in that order, and never one that is not published.  *)
(* AqlRing is the ring of slots that implements it.                        *)
(***************************************************************************)
EXTENDS Integers, Sequences

CONSTANT Capacity           \* packets that may be published and not executed

VARIABLES published,        \* number of packets published so far
          delivered         \* numbers of the packets executed, in order

vars == <<published, delivered>>

Init ==
  /\ published = 0
  /\ delivered = <<>>

Publish ==
  /\ published - Len(delivered) < Capacity
  /\ published' = published + 1
  /\ UNCHANGED delivered

Deliver ==
  /\ Len(delivered) < published
  /\ delivered' = Append(delivered, Len(delivered))
  /\ UNCHANGED published

Next == Publish \/ Deliver

Spec == Init /\ [][Next]_vars
=============================================================================
