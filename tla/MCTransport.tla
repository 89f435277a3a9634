---------------------------- MODULE MCTransport ----------------------------
(* Instances of the direct KFD transport for TLC. *)
EXTENDS Transport

CONSTANTS t1, t2, q1, q2, g1, g2, g3, i1, o1, h1, s1, s2, s3

Alone(calls) == [t \in Threads |-> IF t = t1 THEN calls ELSE <<>>]

Open == <<"open">>

\* Calls that release what a KFD object still holds.
Cleanup == {"unmap", "unmap_late", "munmap", "free", "destroy"}

\* Calls that set one up.
Setup == {"open", "acquire", "policy", "aperture", "reserve", "alloc", "host",
          "madvise", "map", "map_late", "create", "doorbell", "backing", "event"}

Program(may, faults, integrated, supports, calls) ==
  [may |-> may, faults |-> faults, integrated |-> integrated,
   supports |-> supports, calls |-> calls]

\* One queue with scratch; any two calls fail.
QueueFaults ==
  {Program(Setup \cup Cleanup, 2, b, FALSE,
           Alone(<<Open, <<"create_queue", q1, 2>>, <<"release_queue", q1>>>>)) :
     b \in BOOLEAN}

\* The same with the destructor's two attempts.
QueueDropped ==
  {Program(Cleanup, 3, FALSE, FALSE,
           Alone(<<Open, <<"create_queue", q1, 1>>, <<"drop_queue", q1>>>>))}

\* Two threads open the session and create the first queues of it.
TwoCreators ==
  {Program(Setup \cup {"kfd", "inspect", "enable", "thread", "state", "trap"},
           1, FALSE, TRUE,
           [t \in Threads |->
              LET q == IF t = t1 THEN q1 ELSE q2
              IN  <<Open, <<"create_queue", q, 0>>, <<"release_queue", q>>>>])}

\* Two queues share a pool too small for both requests of the second.
ScratchShared ==
  {Program({"state", "alloc", "unmap", "munmap", "free", "backing", "host",
            "madvise"}, 2, b, FALSE,
           [t \in Threads |->
              IF t = t1
              THEN <<Open, <<"create_queue", q1, 1>>, <<"release_queue", q1>>,
                     <<"create_queue", q1, 2>>, <<"release_queue", q1>>>>
              ELSE <<Open, <<"create_queue", q2, 2>>, <<"release_queue", q2>>>>]) :
     b \in BOOLEAN}

\* Signals of two threads on shared pages.
SharedSignals ==
  {Program(may, 2, FALSE, FALSE,
           [t \in Threads |->
              IF t = t1
              THEN <<Open, <<"signal", s1>>, <<"signal", s2>>,
                     <<"release_signal", s1>>, <<"release_signal", s2>>>>
              ELSE <<Open, <<"signal", s3>>, <<"release_signal", s3>>>>]) :
     may \in {{"map", "alloc", "unmap", "unmap_late", "free"}, {"state", "host"}}}

\* A cache operation whose packet may outlive its deadline.
Freezing ==
  {Program(may, 2, FALSE, FALSE,
           Alone(<<Open, <<"create_queue", q1, 0>>, <<"image", i1>>,
                   <<"freeze", o1, q1, i1>>, <<last, o1>>,
                   <<"release_image", i1>>, <<"release_queue", q1>>>>)) :
     last \in {"release_operation", "drop_operation"},
     may \in {{"map", "full", "image", "unmap", "munmap", "free", "destroy"},
              {"state", "full"}}}

PinnedHost ==
  {Program(Setup \cup Cleanup, 3, FALSE, FALSE,
           Alone(<<Open, <<"host", h1>>, <<"release_host", h1>>>>))}

AllPrograms == QueueFaults \cup QueueDropped \cup TwoCreators \cup ScratchShared
                 \cup SharedSignals \cup Freezing \cup PinnedHost
=============================================================================
