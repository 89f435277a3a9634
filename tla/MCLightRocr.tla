---------------------------- MODULE MCLightRocr ----------------------------
(* Instances of the hsakmt backend for TLC: which calls the threads make.  *)
EXTENDS LightRocrQueue

CONSTANTS t1, t2, q0, q1, e1, e2

Each(calls1, n1, calls2, n2) ==
  [t \in Threads |-> IF t = t1 THEN [calls |-> calls1, count |-> n1]
                     ELSE [calls |-> calls2, count |-> n2]]

(* Kernels, copies and markers ordered by events across two queues. *)
EventCalls ==
  {Call("event_record", q1, e1, {}, 0),
   Call("memcpy_async", q0, e2, {e1}, 0),
   Call("launch", q1, NoEvent, {e1, e2}, 0),
   Call("launch", q0, NoEvent, {}, 0),
   Call("event_synchronize", NoQueue, e1, {}, 0)}
EventProgram == Each(EventCalls, 3, EventCalls, 2)

(* Events and queues destroyed, synchronised and replaced while in use. *)
LifetimeProgram ==
  Each({Call("event_destroy", NoQueue, e1, {}, 0),
        Call("queue_destroy", q1, NoEvent, {}, 0),
        Call("launch", q1, NoEvent, {}, 1),
        Call("synchronize", NoQueue, NoEvent, {}, 0)}, 3,
       {Call("event_record", q1, e1, {}, 0),
        Call("launch", q0, NoEvent, {e1}, 0),
        Call("event_synchronize", NoQueue, e1, {}, 0),
        Call("queue_synchronize", q1, NoEvent, {}, 0)}, 3)

SmallPrograms == {EventProgram, LifetimeProgram}
=============================================================================
