------------------------------ MODULE MCHsakmt ------------------------------
(* Instances of the transport over libhsakmt for TLC. *)
EXTENDS HsakmtTransport

CONSTANTS t1, t2, k1, k2, q1, q2, s1, b1, x1, h1

Cleanup == {"unmap", "free", "destroy", "deregister"}

Setup == {"open", "properties", "alloc", "map", "state", "configure", "create"}

Program(may, faults, open, calls) ==
  [may |-> may, faults |-> faults, open |-> open, calls |-> calls]

Threaded(a, b) == [t \in Threads |-> IF t = t1 THEN a ELSE b]

\* Two threads lease from one pool: the second lease of the first thread may
\* find the pool full, retired, or kept by a release that failed.
SharedPool ==
  {Program(Setup \cup Cleanup, 2, {k1}, Threaded(
     <<<<"create_queue", k1, q1, 1>>, <<last, k1, q1>>>>,
     <<<<"create_queue", k1, q2, size>>, <<"release_queue", k1, q2>>,
       <<"create_queue", k1, q2, 2>>, <<"release_queue", k1, q2>>>>)) :
     last \in {"release_queue", "drop_queue"}, size \in {1, 3}}

\* Two sessions and a reservation made without a pool, for one GPU.
TwoSessions ==
  {Program({"open", "properties"} \cup {"alloc", "map"} \cup Cleanup, 2, {}, Threaded(
     <<<<"open", k1>>, <<"create_queue", k1, q1, 2>>, <<"close", k1>>,
       <<last, k1, q1>>>>,
     <<<<"open", k2>>, <<"scratch", k2, x1>>, <<block, k2, x1>>,
       <<"create_queue", k2, q2, 1>>, <<"close", k2>>,
       <<"release_queue", k2, q2>>>>)) :
     last \in {"release_queue", "drop_queue"},
     block \in {"release_block", "drop_block"}}

\* An image is frozen through a queue.
Freezing ==
  {Program(may, 2, {k1}, Threaded(
     <<<<"create_queue", k1, q1, 0>>, <<"image", k1, b1>>,
       <<"freeze", k1, q1, b1>>, <<"release_buffer", k1, b1>>,
       <<"release_queue", k1, q1>>>>, <<>>)) :
     may \in {{"alloc", "map", "free", "unmap", "build", "command", "full"},
              {"arguments", "create", "configure", "destroy", "full", "unmap"}}}

\* Arguments, signals, device and host memory, some outliving the session.
Memory ==
  {Program({"alloc", "map", "build", "requirements", "malloc", "register"}
             \cup Cleanup, 2, {k1}, Threaded(
     <<<<"kernarg", k1, b1>>, <<"signal", k1, s1>>, <<"close", k1>>,
       <<"release_buffer", k1, b1>>, <<"release_signal", k1, s1>>>>,
     <<<<"host", k1, h1>>, <<"vram", k1, x1>>, <<"release_host", k1, h1>>,
       <<"release_block", k1, x1>>>>))}

AllPrograms == SharedPool \cup TwoSessions \cup Freezing \cup Memory
=============================================================================
