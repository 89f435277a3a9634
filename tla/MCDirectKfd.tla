---------------------------- MODULE MCDirectKfd ----------------------------
(* Instances of the direct KFD backend for TLC: what the threads call. *)
EXTENDS DirectKfd

CONSTANTS t1, t2, e1, e2, x1, x2, x3, x4, x5

Pair(first, second) == [t \in Threads |-> IF t = t1 THEN first ELSE second]

Launch(q, deps) == Call("launch", q, Nil, deps, 0)
Grow(q) == Call("launch", q, Nil, {}, 1)
On(name, q) == Call(name, q, Nil, {}, 0)
With(name, e) == Call(name, Nil, e, {}, 0)
RecordOn(q, e) == Call("event_record", q, e, {}, 0)
Plain(name) == Call(name, Nil, Nil, {}, 0)

(* A full ring: the second thread's calls meet a capacity waiter. *)
FullRing ==
  Pair(<<{Launch(1, {})}, {Launch(1, {})}, {Launch(1, {})}, {Launch(1, {})}>>,
       <<{Launch(1, {}), RecordOn(1, e1)}, {Launch(1, {})}>>)

(* A queue destroyed while it is synchronised and launched on. *)
DestroyedQueue ==
  Pair(<<{Plain("queue_create")}, {Launch(2, {})}, {On("queue_destroy", 2)}>>,
       <<{On("queue_synchronize", 2), Plain("synchronize"), Launch(2, {})},
         {Launch(1, {})}>>)

(* Events reused and destroyed while a queue waits for them. *)
EventConsumers ==
  Pair(<<{Plain("queue_create")}, {RecordOn(2, e1)}, {Launch(1, {e1})},
         {With("event_destroy", e1), RecordOn(1, e1)}>>,
       <<{With("event_synchronize", e1), On("queue_synchronize", 2)}>>)

(* Copies whose completion signal is an event: staged, re-armed, waited for *)
(* by another thread, destroyed.                                            *)
CopyEvents ==
  Pair(<<{With("memcpy_pageable", e2)}, {With("event_synchronize", e2)},
         {With("memcpy_async", e2)}>>,
       <<{Plain("memcpy"), Launch(1, {})}>>)
CopyTwice ==
  Pair(<<{RecordOn(1, e1)}, {Launch(1, {e1})}, {With("memcpy_async", e1)}>>,
       <<{With("memcpy_async", e1)}>>)
CopyDestroyed ==
  Pair(<<{With("memcpy_pageable", e2)}, {Launch(1, {e2})}, {With("event_destroy", e2)}>>,
       <<{With("event_synchronize", e2)}>>)

(* More scratch takes a new AqlQueue, and a lost one is restored. *)
ScratchGrowth ==
  Pair(<<{Launch(1, {})}, {Grow(1)}, {Plain("module_load")}>>,
       <<{Launch(1, {}), RecordOn(1, e1)}>>)

(* Shutdown while another thread works. *)
ShutdownRace ==
  Pair(<<{RecordOn(1, e1), Launch(1, {})}, {Plain("shutdown")}>>,
       <<{Launch(1, {}), On("queue_synchronize", 1)},
         {With("event_synchronize", e1), Plain("synchronize")}>>)

BoundedPrograms == {FullRing, DestroyedQueue, EventConsumers, CopyEvents,
                    CopyTwice, CopyDestroyed, ScratchGrowth, ShutdownRace}

(* A capacity waiter reads the front pending event after it gave up the     *)
(* lock; another thread finishes and destroys that event.                   *)
CapacityRace ==
  {Pair(<<{RecordOn(1, e1)}, {Launch(1, {e1})}, {RecordOn(1, e2)}, {Launch(1, {e2})}>>,
        <<{With("event_synchronize", e1)}, {With("event_destroy", e1)}>>)}

(* A copy event is destroyed after another thread's synchronisation has     *)
(* finished it.                                                             *)
CopyRace ==
  {Pair(<<{With("memcpy_async", e2)}, {With("event_destroy", e2)}>>,
        <<{On("queue_synchronize", 1)}>>)}
=============================================================================
