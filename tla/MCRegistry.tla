---------------------------- MODULE MCRegistry ----------------------------
(* Instances of the registries for TLC: the build and what the threads call. *)
EXTENDS Registry

CONSTANTS t1, t2, d1, d2, h1, m1

Pair(first, second) == [t \in Threads |-> IF t = t1 THEN first ELSE second]
Builds(builds, first, second) ==
  {[backend |-> b, calls |-> Pair(first, second)] : b \in builds}

All == {"hsa", "hsakmt", "kfd"}
Plain(name) == {Call(name, Nil, Nil, 0, 0, 0)}
On(name, o) == {Call(name, o, Nil, 0, 0, 0)}
Malloc(o, n) == {Call("malloc", o, Nil, 0, 0, n)}
Copy(name, d, off, s, soff, n) == {Call(name, d, s, off, soff, n)}
Launch(m, d) == {Call("launch", m, d, 0, 0, 0)}
Start == <<Plain("init"), Plain("device_open")>>
Loaded == <<On("module_load", m1), On("kernel_get", m1)>>

(* Copies of a pinned buffer against the release of both ends. *)
FreeRace ==
  Builds(All, Start \o <<Malloc(d1, 2), Malloc(h1, 2),
                         Copy("memcpy_async", d1, 0, h1, 0, 2) \cup Copy("memcpy", h1, 0, d1, 1, 1),
                         On("free", d1)>>,
         <<Copy("memcpy", d1, 1, h1, 0, 1) \cup Copy("memcpy_async", h1, 1, d1, 0, 1),
           On("free", h1) \cup Copy("memcpy", d1, 1, h1, 1, 2)>>)

(* A module destroyed while it is launched and the ring is full. *)
ModuleRace ==
  Builds(All, Start \o Loaded \o <<Malloc(d1, 1), Launch(m1, d1), Launch(m1, Nil),
                                   On("free", d1) \cup On("module_destroy", m1)>>,
         <<Launch(m1, Nil), On("module_destroy", m1) \cup Plain("synchronize")>>)

(* Shutdown with work in flight and other threads inside calls it waits for, *)
(* and again if it fails.                                                    *)
ShutdownRace ==
  Builds(All, Start \o Loaded \o <<Malloc(d1, 1), Launch(m1, d1), Plain("shutdown"),
                                   Plain("shutdown")>>,
         <<Copy("memcpy", d1, 0, Nil, 0, 1) \cup Launch(m1, d1) \cup Malloc(h1, 1)
             \cup Copy("memcpy_async", d1, 0, Nil, 0, 1)>>)
  \cup
  Builds({"hsakmt", "kfd"}, Start \o Loaded \o <<Malloc(d1, 1), Launch(m1, d1), Plain("shutdown")>>,
         <<On("free", d1) \cup On("module_destroy", m1) \cup Plain("synchronize")>>)

(* The runtime is used again after a shutdown that may have failed. *)
Restart ==
  Builds(All, Start \o <<Malloc(d1, 1), Malloc(h1, 1), Plain("shutdown")>> \o Start
                \o <<Malloc(d2, 2), Plain("reset_stats"), On("free", d2), Plain("shutdown")>>,
         <<>>)

(* Overlapping copies inside one allocation. *)
Overlap ==
  Builds(All, Start \o <<Malloc(d1, Space),
              UNION {Copy("memcpy", d1, a, d1, b, n) : a, b \in 0 .. Space - 1, n \in 1 .. Space},
              UNION {Copy("memcpy_async", d1, a, d1, b, n) : a, b \in 0 .. 1, n \in 1 .. 2}>>,
         <<>>)

BoundedPrograms == FreeRace \cup ModuleRace \cup ShutdownRace \cup Restart \cup Overlap
=============================================================================
