------------------------------- MODULE MCHsa -------------------------------
(* Instances of the HSA backend for TLC: which calls the threads may make. *)
EXTENDS HsaRuntime

CONSTANTS t1, t2, q0, q1, e1, e2

Everyone(calls, n) == [t \in Threads |-> [calls |-> calls, count |-> n]]
Each(calls1, n1, calls2, n2) ==
  [t \in Threads |-> IF t = t1 THEN [calls |-> calls1, count |-> n1]
                     ELSE [calls |-> calls2, count |-> n2]]

(* One explicit queue, two producers, a ring that fills up. *)
QueueCalls ==
  {Call("launch_on_queue", q1, NoEvent, {}), Call("queue_synchronize", q1, NoEvent, {})}
QueueProgram == Each(QueueCalls, 3, QueueCalls, 2)

(* Destruction against use. *)
DestroyProgram ==
  Each({Call("queue_destroy", q1, NoEvent, {}), Call("event_destroy", NoQueue, e1, {}),
        Call("queue_create", q1, NoEvent, {}), Call("event_create", NoQueue, e1, {})}, 3,
       {Call("launch_on_queue", q1, NoEvent, {}), Call("event_record", q1, e1, {}),
        Call("event_synchronize", NoQueue, e1, {}), Call("queue_synchronize", q1, NoEvent, {})}, 2)

QueuePrograms == {QueueProgram, DestroyProgram}

(* Events recorded on one queue order kernels on another. *)
EventCalls ==
  {Call("event_record", q0, e1, {}), Call("event_synchronize", NoQueue, e1, {}),
   Call("launch_on_queue", q1, NoEvent, {e1}), Call("queue_synchronize", q1, NoEvent, {})}
EventProgram == Each(EventCalls, 3, EventCalls, 2)

(* Copies with explicit dependencies and kernels that follow them. *)
CopyProgram ==
  Everyone({Call("memcpy_async_with_dependencies", NoQueue, e1, {}),
            Call("memcpy_async_with_dependencies", NoQueue, e2, {e1}),
            Call("launch_with_dependencies", q0, NoEvent, {e1, e2}),
            Call("event_record", q0, e1, {})}, 2)

EventPrograms == {EventProgram, CopyProgram}

(* One copy between kernels of the default queue. *)
CopyBetweenPrograms ==
  {Each({Call("launch", q0, NoEvent, {}), Call("event_record", q0, e2, {})}, 3,
        {Call("memcpy_async", NoQueue, e1, {}), Call("event_synchronize", NoQueue, e1, {})}, 2)}

AllPrograms == QueuePrograms \cup EventPrograms \cup CopyBetweenPrograms

(* Every call of a program that orders nothing by an event recorded again  *)
(* returns: launches that wait for room in the ring, synchronisers of      *)
(* queues and events, and destroyers that wait for both to leave.          *)
QueueCallsReturn == left \in QueuePrograms => CallsReturn

(* Implicit ordering on the default queue: kernels and copies. *)
ImplicitPrograms ==
  {Everyone({Call("launch", q0, NoEvent, {}), Call("memcpy_async", NoQueue, e1, {})}, 4)}

(* An event recorded again after a kernel on another queue consumed it. *)
ReusePrograms ==
  {Everyone({Call("event_record", q0, e1, {}), Call("launch_on_queue", q1, NoEvent, {e1}),
             Call("queue_synchronize", q1, NoEvent, {})}, 4)}
=============================================================================
