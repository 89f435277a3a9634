------------------------------- MODULE MCIree -------------------------------
(* Instances of the IREE HAL adapter for TLC: what the threads call. *)
EXTENDS IreeHal

CONSTANTS t1, t2, d1, d2, b1, b2, h1, e1, c1, s1, s2, f1, a1, a2

All == {"source", "target", "dispatch"}
Ref(b, off, len) == [buf |-> b, slot |-> 0, off |-> off, len |-> len]
Slot(i, off, len) == [buf |-> Nil, slot |-> i, off |-> off, len |-> len]

Device(d) == [op |-> "device", dev |-> d]
Allocate(b, d) == [op |-> "allocate", buf |-> b, dev |-> d, type |-> "device_visible",
                   size |-> Size, usage |-> All]
Prepare(e, format) == [op |-> "prepare", exe |-> e, format |-> format, modules |-> 1,
                       exports |-> <<[name |-> "k", module |-> 0, wg |-> TRUE]>>]
Lookup(e, name) == [op |-> "lookup", exe |-> e, name |-> name]
Release(o) == [op |-> "release", obj |-> o]
Create(c) == [op |-> "cb_create", cb |-> c]
Begin(c) == [op |-> "cb_begin", cb |-> c]
Record(c, cmd) == [op |-> "record", cb |-> c, cmd |-> cmd]
Fill(r, v, plen) == [k |-> "fill", dst |-> r, val |-> v, plen |-> plen]
Update(r, v) == [k |-> "update", dst |-> r, val |-> v]
Copy(s, r) == [k |-> "copy", src |-> s, dst |-> r]
Dispatch(e, args, n, groups) ==
  [k |-> "dispatch", exe |-> e, fn |-> 1, wg |-> FALSE, groups |-> groups, direct |-> TRUE,
   args |-> args, const |-> n]
Queue(d, cmd, w, s) == [op |-> "queue", dev |-> d, cmd |-> cmd, wait |-> w, signal |-> s]
Execute(d, c, table, w, s) ==
  [op |-> "execute", dev |-> d, cb |-> c, table |-> table, wait |-> w, signal |-> s]
Map(b, off, len, access, v) ==
  [op |-> "map", buf |-> b, off |-> off, len |-> len, access |-> access, val |-> v]
File(access, length, storage, sync) ==
  [access |-> access, length |-> length, storage |-> storage, sync |-> sync, val |-> 2]
FileOp(k, file, foff, r) == [k |-> k, file |-> file, foff |-> foff, ref |-> r]

Each(p, q) == [t \in Threads |-> IF t = t1 THEN p ELSE q]
Setup == <<{Device(d1)}, {Allocate(b1, d1)}, {Prepare(e1, "rocm-hsaco-fb")}>>
k1 == Dispatch(e1, <<Ref(b1, 0, Whole), Ref(b2, 1, 1)>>, 1, 1)
k2 == Dispatch(e1, <<Slot(0, 1, 1), Slot(1, 0, 1)>>, 2, 1)

(* A command buffer replayed while another thread waits for it. *)
Replay ==
  Each(Setup \o <<{Allocate(b2, d1)}, {Create(c1)},
                  {Record(c1, Fill(Ref(b1, 0, 2), 1, 1)), Record(c1, Update(Slot(0, 0, 2), 1))},
                  {Record(c1, k1), Record(c1, Copy(Ref(b1, 1, 1), Ref(b2, 1, 1)))},
                  {Record(c1, k2)},
                  {Execute(d1, c1, <<b2, b1>>, {}, {<<s1, 1>>}),
                   Execute(d1, c1, <<b1>>, {}, {<<s1, 1>>, <<s2, 2>>})}>>,
       <<{Queue(d1, k1, {<<s1, 1>>}, {<<s2, 1>>}),
          Queue(d1, Copy(Ref(b2, 0, 2), Ref(h1, 0, 2)), {<<s1, 1>>}, {<<s2, 1>>}),
          Queue(d1, Copy(Ref(h1, 0, 1), Ref(b1, 1, 1)), {}, {<<s2, 1>>, <<f1, 1>>})},
         {Map(b2, 1, 1, {"read", "write"}, 2)}>>)

(* Two threads submit to one device; operations fail and are refused. *)
Contend ==
  Each(Setup \o <<{Queue(d1, [k |-> "alloca", buf |-> b2, size |-> Size, usage |-> All], {}, {<<s1, 1>>}),
                   Queue(d1, [k |-> "alloca", buf |-> b2, size |-> 0, usage |-> All], {}, {<<s1, 1>>})},
                  {Queue(d1, k1, {<<s1, 1>>}, {<<s1, 2>>}), Queue(d1, Update(Ref(b1, 0, 0), 1), {}, {})},
                  {Queue(d1, [k |-> "dealloca", buf |-> b2], {<<s2, 1>>}, {<<s2, 2>>})}>>,
       <<{Queue(d1, Fill(Ref(b1, 0, 2), 1, 2), {}, {<<s2, 1>>}),
          Queue(d1, FileOp("read", File({"read"}, 4, h1, FALSE), 0, Ref(b1, 0, 2)), {}, {<<s2, 1>>}),
          Queue(d1, FileOp("read", File({"read"}, 2, Nil, TRUE), 1, Ref(b1, 0, 2)), {}, {<<s2, 1>>}),
          Queue(d1, FileOp("write", File({"write"}, 0, Nil, TRUE), 3, Ref(b1, 0, 1)), {}, {<<s2, 1>>})},
         {Queue(d1, Dispatch(e1, <<Ref(b1, 1, 1), Ref(b1, 0, 1)>>, 1, 1), {<<f1, 1>>}, {<<s2, 1>>}),
          Queue(d1, Dispatch(e1, <<Ref(b1, 1, 1), Ref(b1, 0, 1)>>, 1, 1), {<<s1, 1>>}, {<<s2, 1>>}),
          Queue(d1, Dispatch(e1, <<>>, 1, 0), {}, {<<s2, 1>>}),
          Map(b1, 0, 1, {"write"}, 2)}>>)

(* Objects released in any order, the device and the runtime included. *)
Drops == {Release(d1), Release(b1), Release(c1), Release(e1), Release(d2)}
Lifetimes ==
  Each(<<{Device(d1)}, {Allocate(b1, d1)}, {Prepare(e1, "rocm-hsaco"), Prepare(e1, "spirv")},
         {Lookup(e1, "k"), Lookup(e1, "x"), Create(c1)},
         {Create(c1), Device(d2)},
         {Record(c1, Fill(Ref(b1, 0, 2), 1, 4)), Record(c1, Fill(Ref(b1, 0, 2), 1, 8)),
          Record(c1, Copy(Slot(1, 0, 1), Slot(5, 0, 1))), Record(c1, Dispatch(e1, <<Ref(b1, 0, 1)>>, 1, 1)),
          Record(c1, [Dispatch(e1, <<Ref(b1, 0, 1), Slot(5, 0, 1)>>, 1, 1) EXCEPT !.wg = TRUE]),
          Record(c1, [Dispatch(e1, <<Ref(b1, 0, 1)>>, 1, 1) EXCEPT !.wg = TRUE]),
          Map(b1, 0, 1, {"read"}, 2), [op |-> "replace", dev |-> d2, from |-> d1]},
         {Begin(c1), Release(c1)} \cup Drops, Drops, Drops, Drops, Drops>>, <<>>)

PassPrograms == {Replay, Contend, Lifetimes}

(* Two threads that each open a device *)
RacePrograms ==
  {Each(<<{Device(d1)}, {Allocate(b1, d1)}>>, <<{Device(d2)}, {Release(d2)}>>)}
=============================================================================
