--------------------------- MODULE LightRocrRing ----------------------------
(***************************************************************************)
(* What the hsakmt backend relies on while its threads interleave: the     *)
(* inductive invariant RingInv.  It relates the packets in flight to the   *)
(* lists of their queue (SharedInv), the stack of a thread to its call     *)
(* (CallInv) and what the holder of the lock has found out to the state of *)
(* events and queues (HeldInv).  The lemmas are about stacks of labels and *)
(* the moves from one label to the next.                                   *)
(***************************************************************************)
EXTENDS LightRocrQueue, TLAPS

(***************************************************************************)
(* The packets of a queue                                                  *)
(***************************************************************************)

(* What a packet in flight is, and the events that complete packets. *)
PacketInv ==
  \A q \in Queues : \A p \in flight[q] :
    /\ p.pos <= wpos[q]
    /\ \A o \in flight[q] : o.pos = p.pos => o = p
    /\ p.kind = "dispatch" \/ p.deps # {} \/ p.ev # NoEvent
    /\ p.ev # NoEvent => val[p.ev] = 1
    /\ \A d \in pd[q] : d.id = p.pos => d.ev = p.ev
    /\ p.deps # {} =>
         /\ p.kind = "barrier"
         /\ \E o \in flight[q] : o.pos = p.ret /\ o.kind = "dispatch" /\ p.pos < o.pos

(* The lists of a queue name only positions it has written, and an event is on *)
(* at most one of them, that of the queue it was recorded on.               *)
ListInv ==
  \A q \in Queues :
    /\ IsFiniteSet(flight[q])
    /\ \A d \in pd[q] : d.id <= wpos[q]
    /\ \A x \in pe[q] :
         /\ x.id <= wpos[q] /\ x.ev \in Events
         /\ ev[x.ev].pending /\ ev[x.ev].rq = q
         /\ \A y \in pe[q] : y.ev = x.ev => y = x

(* What the packets and the lists satisfy whatever the threads are doing *)
SharedInv == PacketInv /\ ListInv /\ PacketsTracked /\ WithinCapacity

(***************************************************************************)
(* The stack of a thread                                                   *)
(***************************************************************************)

(* The calls that use the signal of an event again, or free it, and those that *)
(* launch a kernel                                                          *)
RearmCalls == {"event_record", "event_destroy", "memcpy_async"}
KernelCalls == {"launch", "memcpy_async"}

(* The calls a label belongs to *)
Serves(name, l) ==
  /\ l \in {"synchronizers", "sleep", "revalidate", "event_wait", "consumers"} => name \in RearmCalls
  /\ l \in {"host_wait", "relock", "unpin"} => name = "event_synchronize"
  /\ l = "device" => name = "synchronize"
  /\ l \in {"record", "record_submit"} => name = "event_record"
  /\ l = "event_delete" => name = "event_destroy"
  /\ l \in {"launch", "scratch", "replace", "submit"} => name \in KernelCalls
  /\ l = "queue_delete" => name = "queue_destroy"
  /\ l = "return" => name \in {"queue_synchronize", "synchronize"}

(* Label a may stand directly above label b. *)
Above(name, a, b) ==
  /\ b \notin {"synchronizers", "sleep", "host_wait", "relock", "wait_front", "scratch"}
  /\ b = "reap_barriers" => a = "wait_front"
  /\ b = "reap_dispatches" => a = "reap_barriers"
  /\ b = "reap_events" => a \in {"reap_dispatches", "finish_event", "event_finished"}
  /\ b = "event_finished" => a = "reap_dispatches"
  /\ b = "finish_event" => a \in {"host_wait", "relock"}
  /\ b = "unpin" => a \in {"finish_event", "event_finished"}
  /\ b \in {"capacity_check", "sync"} => a = "reap_events"
  /\ b = "capacity" => a \in {"scratch", "replace", "wait_front"}
  /\ b \in {"replace", "queue_delete", "device"} => a = "sync"
  /\ b \in {"submit", "record_submit"} => a \in {"capacity", "capacity_check"}
  /\ b = "return" => a = IF name = "synchronize" THEN "device" ELSE "sync"
  /\ b = "revalidate" => a \in {"synchronizers", "sleep"}
  /\ b = "event_wait" => a = "revalidate"
  /\ b = "consumers" => a \in {"event_wait", "finish_event", "event_finished", "sync"}
  /\ b \in {"record", "event_delete", "launch"} => a = "consumers"

(* Labels of an inner routine stand above those of the routine that calls it. *)
Rank(l) ==
  IF l \in {"synchronizers", "sleep", "revalidate", "host_wait", "relock", "wait_front"} THEN 0
  ELSE IF l \in {"finish_event", "event_finished", "reap_barriers", "reap_dispatches"} THEN 1
  ELSE IF l \in {"event_wait", "reap_events"} THEN 2 ELSE 3

(* The last step of every call *)
LastLabels == {"record", "event_delete", "launch", "submit", "record_submit",
               "queue_delete", "return", "unpin"}

(* Label l is on the stack k. *)
Has(k, l) == \E i \in 1 .. Len(k) : k[i] = l

(* A stack holds labels of its call, each where it may stand, and ends with the *)
(* last step of the call.                                                   *)
Stacked(name, k) ==
  /\ \A i \in 1 .. Len(k) : Serves(name, k[i])
  /\ \A i \in 2 .. Len(k) : Above(name, k[i - 1], k[i])
  /\ \A i, j \in 1 .. Len(k) : i < j => Rank(k[i]) <= Rank(k[j])
  /\ k[Len(k)] \in LastLabels

(* The labels of routines that work on the queue cq *)
QueueLabels == {"sync", "replace", "queue_delete", "wait_front", "reap_barriers",
                "reap_dispatches", "reap_events", "capacity", "capacity_check", "scratch",
                "submit", "record_submit", "event_finished"}

(* The labels of a thread that waits without the lock *)
Unlocked == {"sleep", "host_wait", "relock"}

(* A call that waits for the synchronizers of its event, or as one of them, *)
(* has not started on anything else.                                        *)
Waiting == Unlocked \cup {"synchronizers"}

(* What holds of a thread in a call, with or without the lock. *)
CallInv(t) ==
  LET x == th[t]
      e == x.call.e
  IN  x.k # <<>> =>
        /\ WellFormed(x.call) /\ x.call.name # "none"
        /\ Stacked(x.call.name, x.k)
        /\ lock # t => Head(x.k) \in Unlocked
        /\ \A l \in QueueLabels : Has(x.k, l) => x.cq \in Queues
        /\ x.call.name = "event_synchronize" => t \in ev[e].syncs
        /\ Head(x.k) \in {"host_wait", "relock"} => x.ce = e
        /\ Head(x.k) = "relock" => val[e] = 0
        /\ Head(x.k) \in Waiting =>
             /\ ~x.quiet
             /\ \A a \in {"event_finished", "submit", "record_submit"} : ~Has(x.k, a)
        /\ x.call.name = "event_destroy" => ev[e].live /\ ev[e].destroying

(* What the holder of the lock has found out: about the event it finishes, *)
FinishInv(t) ==
  LET x == th[t]
  IN  /\ Has(x.k, "event_finished") =>
           x.ce \in Events /\ ev[x.ce].pending /\ ev[x.ce].rq = x.cq /\ val[x.ce] = 0
      /\ Head(x.k) = "finish_event" =>
           /\ x.ce \in Events
           /\ ev[x.ce].pending =>
                val[x.ce] = 0 /\ (x.call.name = "synchronize" => ev[x.ce].rq = x.cq)

(* about the event whose signal it is going to use again, *)
Settled(e) == ~ev[e].pending /\ ev[e].syncs = {} /\ dependency_queues(e) = {}

QuiesceInv(t) ==
  LET x == th[t]
      e == x.call.e
      top == Head(x.k)
  IN  /\ x.call.name \in RearmCalls =>
           /\ top = "revalidate" => ev[e].syncs = {} \/ ~ev[e].live
           /\ top \notin {"synchronizers", "revalidate"} => ev[e].syncs = {}
           /\ top \notin {"synchronizers", "revalidate", "event_wait"} /\ ev[e].pending =>
                x.ce = e /\ (Has(x.k, "finish_event") \/ Has(x.k, "event_finished"))
      /\ x.quiet => x.call.name \in RearmCalls /\ Settled(e)
      /\ top \in {"record", "event_delete"} => x.quiet
      /\ top = "launch" /\ x.call.name = "memcpy_async" => x.quiet

(* about the packets it is going to write, *)
SubmitInv(t) ==
  LET x == th[t]
  IN  /\ Has(x.k, "submit") =>
           /\ x.need = barrier_count(x.deps) + 1
           /\ x.call.name = "memcpy_async" => x.quiet
      /\ Has(x.k, "record_submit") => x.need = 1 /\ x.quiet
      /\ Head(x.k) \in {"submit", "record_submit"} => HasRoom(x.cq, x.need)

(* and about the queues it has drained. *)
DrainInv(t) ==
  LET x == th[t]
      top == Head(x.k)
  IN  /\ top \in {"replace", "queue_delete"} => flight[x.cq] = {}
      /\ top = "return" /\ x.call.name # "synchronize" /\ x.cq \in Queues => flight[x.cq] = {}
      /\ x.call.name = "synchronize" =>
           /\ \A q \in Queues : live[q] =>
                q \in x.todo \/ flight[q] = {} \/ (q = x.cq /\ top \notin {"device", "return"})
           /\ top = "return" => x.todo = {}

(* The holder of the lock is in a call, and has found out all of that. *)
HeldInv(t) ==
  lock = t =>
    /\ th[t].k # <<>> /\ Head(th[t].k) \notin Unlocked
    /\ FinishInv(t) /\ QuiesceInv(t) /\ SubmitInv(t) /\ DrainInv(t)

(* No two threads are in lr_event_destroy for the same event. *)
OneDestroyer ==
  \A t, u \in Threads :
    /\ th[t].k # <<>> /\ th[u].k # <<>>
    /\ th[t].call.name = "event_destroy" /\ th[u].call.name = "event_destroy"
    /\ th[t].call.e = th[u].call.e
    => t = u

(* The calls a thread may make have the arguments the API asks for. *)
ProgramInv == \A t \in Threads : \A c \in left[t].calls : WellFormed(c)

(* The inductive invariant *)
RingInv ==
  /\ TypeOK /\ NoDanglingRetirement /\ SharedInv /\ ProgramInv /\ OneDestroyer
  /\ \A t \in Threads : CallInv(t) /\ HeldInv(t)

----------------------------------------------------------------------------
(* Stacks *)

(* The labels s may take the place of label l. *)
Replaces(name, s, l) ==
  /\ \A i \in 1 .. Len(s) : Serves(name, s[i]) /\ Rank(s[i]) <= Rank(l)
  /\ \A i \in 2 .. Len(s) : Above(name, s[i - 1], s[i])
  /\ \A i, j \in 1 .. Len(s) : i < j => Rank(s[i]) <= Rank(s[j])
  /\ Len(s) >= 1 => \A b \in Labels : Above(name, l, b) => Above(name, s[Len(s)], b)

(* The stack r that labels s in the place of the top of k lead to *)
Shifted(name, k, s, r) ==
  /\ r # <<>> /\ r \in Seq(Labels) /\ Stacked(name, r)
  /\ s # <<>> => Head(r) = s[1]
  /\ s = <<>> => Above(name, Head(k), Head(r))
  /\ \A l : Has(r, l) => Has(s, l) \/ Has(k, l)
  /\ \A l : Has(s, l) \/ (Has(k, l) /\ l # Head(k)) => Has(r, l)

(* Replacing the top label keeps a stack in order. *)
LEMMA StackMove ==
  ASSUME NEW name, NEW k \in Seq(Labels), k # <<>>, Stacked(name, k),
         Head(k) \notin LastLabels, NEW s \in Seq(Labels), Replaces(name, s, Head(k))
  PROVE  Shifted(name, k, s, s \o Tail(k))
<1> DEFINE m == Len(s)
           r == s \o Tail(k)
<1>1. /\ m \in Nat /\ DOMAIN s = 1 .. m /\ Len(k) \in Nat /\ Len(k) > 1
      /\ DOMAIN k = 1 .. Len(k) /\ Head(k) = k[1]
  BY DEF Stacked
<1>2. /\ Len(r) = m + Len(k) - 1 /\ DOMAIN r = 1 .. Len(r)
      /\ \A i \in 1 .. m : r[i] = s[i]
      /\ \A i \in 1 .. Len(r) : i > m => i - m + 1 \in 2 .. Len(k) /\ r[i] = k[i - m + 1]
      /\ r \in Seq(Labels)
  BY <1>1
<1> HIDE DEF m, r
<1>3. \A i \in 1 .. Len(k) : k[i] \in Labels
  BY <1>1
<1>k. /\ \A i \in 1 .. Len(k) : Serves(name, k[i])
      /\ \A i \in 2 .. Len(k) : Above(name, k[i - 1], k[i])
      /\ \A i, j \in 1 .. Len(k) : i < j => Rank(k[i]) <= Rank(k[j])
      /\ k[Len(k)] \in LastLabels
  BY <1>1 DEF Stacked
<1>s. /\ \A i \in 1 .. m : Serves(name, s[i]) /\ Rank(s[i]) <= Rank(k[1])
      /\ \A i \in 2 .. m : Above(name, s[i - 1], s[i])
      /\ \A i, j \in 1 .. m : i < j => Rank(s[i]) <= Rank(s[j])
      /\ m >= 1 => \A b \in Labels : Above(name, k[1], b) => Above(name, s[m], b)
  BY <1>1 DEF Replaces, m
<1>4. ASSUME NEW i \in DOMAIN r PROVE Serves(name, r[i])
  <2>1. i \in 1 .. m \/ i > m
    BY <1>1, <1>2
  <2> QED BY <1>1, <1>2, <1>k, <1>s, <2>1
<1>5. ASSUME NEW i \in DOMAIN r, i > 1 PROVE Above(name, r[i - 1], r[i])
  <2>0. i \in Nat /\ i <= Len(r)
    BY <1>1, <1>2
  <2>1. CASE i <= m
    <3>1. i \in 2 .. m /\ i - 1 \in 1 .. m /\ i \in 1 .. m
      BY <1>1, <1>5, <2>0, <2>1
    <3>2. r[i] = s[i] /\ r[i - 1] = s[i - 1]
      BY <1>2, <3>1
    <3> QED BY <1>s, <3>1, <3>2
  <2>2. CASE i = m + 1
    <3>1. i - m + 1 = 2 /\ i > m /\ i \in 1 .. Len(r) /\ i - 1 = m /\ m \in 1 .. m /\ 2 \in 2 .. Len(k)
      BY <1>1, <1>2, <1>5, <2>0, <2>2
    <3>2. r[i] = k[2] /\ r[i - 1] = s[m]
      BY <1>2, <3>1, Zenon
    <3>3. Above(name, k[2 - 1], k[2]) /\ k[2] \in Labels
      BY <1>1, <1>3, <1>k, <3>1
    <3>4. Above(name, k[1], k[2])
      BY <3>3
    <3> QED BY <1>1, <1>s, <3>1, <3>2, <3>3, <3>4
  <2>3. CASE i > m + 1
    <3>1. /\ i - 1 \in 1 .. Len(r) /\ i - 1 > m /\ (i - 1) - m + 1 = i - m
          /\ i \in 1 .. Len(r) /\ i > m /\ (i - m + 1) - 1 = i - m
      BY <1>1, <1>2, <2>0, <2>3
    <3>2. r[i] = k[i - m + 1] /\ r[i - 1] = k[i - m] /\ i - m + 1 \in 2 .. Len(k)
      BY <1>2, <3>1, Zenon
    <3>3. Above(name, k[(i - m + 1) - 1], k[i - m + 1])
      BY <1>k, <3>2
    <3> QED BY <3>1, <3>2, <3>3
  <2> QED BY <1>1, <2>0, <2>1, <2>2, <2>3
<1>6. ASSUME NEW i \in DOMAIN r, NEW j \in DOMAIN r, i < j PROVE Rank(r[i]) <= Rank(r[j])
  <2>0. i \in Nat /\ j \in Nat /\ 1 <= i /\ i \in 1 .. Len(r) /\ j \in 1 .. Len(r)
    BY <1>1, <1>2
  <2>1. CASE j <= m
    <3>1. i \in 1 .. m /\ j \in 1 .. m
      BY <1>1, <1>6, <2>0, <2>1
    <3>2. r[i] = s[i] /\ r[j] = s[j]
      BY <1>2, <3>1
    <3> QED BY <1>6, <1>s, <3>1, <3>2
  <2>2. CASE i <= m /\ j > m
    <3>1. i \in 1 .. m /\ j > m
      BY <1>1, <2>0, <2>2
    <3>2. r[i] = s[i] /\ r[j] = k[j - m + 1] /\ j - m + 1 \in 2 .. Len(k)
      BY <1>2, <2>0, <3>1
    <3>3. j - m + 1 \in 1 .. Len(k) /\ 1 \in 1 .. Len(k) /\ 1 < j - m + 1
      BY <1>1, <3>2
    <3>4. Rank(s[i]) <= Rank(k[1]) /\ Rank(k[1]) <= Rank(k[j - m + 1])
      BY <1>k, <1>s, <3>1, <3>3
    <3> QED BY <3>2, <3>4 DEF Rank
  <2>3. CASE i > m
    <3>1. j > m /\ i - m + 1 < j - m + 1
      BY <1>1, <1>6, <2>0, <2>3
    <3>2. /\ r[i] = k[i - m + 1] /\ r[j] = k[j - m + 1]
          /\ i - m + 1 \in 2 .. Len(k) /\ j - m + 1 \in 2 .. Len(k)
      BY <1>2, <2>0, <2>3, <3>1
    <3>3. i - m + 1 \in 1 .. Len(k) /\ j - m + 1 \in 1 .. Len(k)
      BY <1>1, <3>2
    <3> QED BY <1>k, <3>1, <3>2, <3>3
  <2> QED BY <1>1, <2>0, <2>1, <2>2, <2>3
<1>7. r[Len(r)] \in LastLabels
  <2> DEFINE i == Len(r)
  <2>1. i \in 1 .. Len(r) /\ i > m /\ i - m + 1 = Len(k)
    BY <1>1, <1>2
  <2> QED BY <1>2, <1>k, <2>1
<1>8. Stacked(name, r)
  <2>1. \A i \in 2 .. Len(r) : i \in DOMAIN r /\ i > 1
    BY <1>1, <1>2
  <2> QED BY <1>2, <1>4, <1>5, <1>6, <1>7, <2>1, Zenon DEF Stacked
<1>9. r # <<>> /\ Head(r) = r[1] /\ 1 \in DOMAIN r /\ (s # <<>> => m >= 1)
  BY <1>1, <1>2 DEF m
<1>10. s = <<>> => Above(name, Head(k), Head(r))
  <2> SUFFICES ASSUME s = <<>> PROVE Above(name, Head(k), Head(r))
    OBVIOUS
  <2>1. m = 0 /\ 1 \in 1 .. Len(r) /\ 1 > m /\ 1 - m + 1 = 2 /\ 2 \in 2 .. Len(k)
    BY <1>1, <1>2 DEF m
  <2>2. r[1] = k[2] /\ Above(name, k[2 - 1], k[2])
    BY <1>2, <1>k, <2>1
  <2> QED BY <1>1, <1>9, <2>2
<1>11. ASSUME NEW l, Has(r, l) PROVE Has(s, l) \/ Has(k, l)
  <2>1. PICK i \in 1 .. Len(r) : r[i] = l
    BY <1>2, <1>11 DEF Has
  <2>2. CASE i <= m
    <3>1. i \in 1 .. m
      BY <1>1, <2>2
    <3> QED BY <1>2, <2>1, <3>1 DEF Has, m
  <2>3. CASE i > m
    <3>1. i - m + 1 \in 2 .. Len(k) /\ k[i - m + 1] = l
      BY <1>2, <2>1, <2>3
    <3>2. i - m + 1 \in 1 .. Len(k)
      BY <1>1, <3>1
    <3> QED BY <3>1, <3>2 DEF Has
  <2> QED BY <1>1, <1>2, <2>1, <2>2, <2>3
<1>12. ASSUME NEW l, Has(s, l) \/ (Has(k, l) /\ l # Head(k)) PROVE Has(r, l)
  <2>1. CASE Has(s, l)
    <3>1. PICK i \in 1 .. m : s[i] = l
      BY <1>1, <2>1 DEF Has
    <3>2. i \in DOMAIN r /\ r[i] = l
      BY <1>1, <1>2, <3>1
    <3> QED BY <3>2 DEF Has
  <2>2. CASE Has(k, l) /\ l # Head(k)
    <3>1. PICK i \in 2 .. Len(k) : k[i] = l
      BY <1>1, <2>2 DEF Has
    <3>2. i + m - 1 \in DOMAIN r /\ i + m - 1 > m /\ (i + m - 1) - m + 1 = i
      BY <1>1, <1>2, <3>1
    <3>3. r[i + m - 1] = l
      BY <1>2, <3>1, <3>2
    <3> QED BY <3>2, <3>3 DEF Has
  <2> QED BY <1>12, <2>1, <2>2
<1>13. s # <<>> => Head(r) = s[1]
  BY <1>1, <1>2, <1>9
<1> QED BY <1>2, <1>8, <1>9, <1>10, <1>11, <1>12, <1>13, Zenon DEF r, Shifted

(* Nothing stands below the last label of a call. *)
LEMMA StackEnd ==
  ASSUME NEW name, NEW k \in Seq(Labels), k # <<>>, Stacked(name, k),
         Head(k) \in LastLabels, NEW l, Has(k, l)
  PROVE  l = Head(k)
<1>1. Len(k) \in Nat /\ Len(k) >= 1 /\ Head(k) = k[1] /\ \A i \in 1 .. Len(k) : k[i] \in Labels
  OBVIOUS
<1>a. Len(k) \in Nat /\ Len(k) >= 1
  OBVIOUS
<1>2. Len(k) = 1
  <2> SUFFICES ASSUME Len(k) # 1 PROVE FALSE
    OBVIOUS
  <2>n. \A n \in Nat : n >= 1 /\ n # 1 => 2 \in 2 .. n /\ 2 \in 1 .. n
    OBVIOUS
  <2>1. 2 \in 2 .. Len(k) /\ 2 \in 1 .. Len(k)
    BY <1>a, <2>n, Zenon
  <2>2. Above(name, k[2 - 1], k[2]) /\ k[2] \in Labels
    BY <1>1, <2>1, Zenon DEF Stacked
  <2>3. Above(name, k[1], k[2]) /\ k[1] \in LastLabels
    BY <1>1, <2>2
  <2> HIDE <1>1
  <2> QED BY <2>2, <2>3 DEF Above, LastLabels, Labels
<1> QED BY <1>1, <1>2 DEF Has

(* No routine that finishes an event is running below. *)
LEMMA NoInner ==
  ASSUME NEW name, NEW k \in Seq(Labels), k # <<>>, Stacked(name, k),
         Rank(Head(k)) >= 2, NEW l, Has(k, l)
  PROVE  l # "finish_event" /\ l # "event_finished"
<1>1. PICK i \in 1 .. Len(k) : k[i] = l
  BY DEF Has
<1>2. Head(k) = k[1] /\ Len(k) \in Nat /\ 1 \in 1 .. Len(k)
  OBVIOUS
<1>3. Rank(k[i]) >= 2
  <2>1. CASE i = 1
    BY <1>2, <2>1
  <2>2. CASE i # 1
    <3>1. 1 < i
      BY <1>2, <2>2
    <3>2. Rank(k[1]) <= Rank(k[i])
      BY <1>2, <3>1 DEF Stacked
    <3> QED BY <1>2, <3>2 DEF Rank
  <2> QED BY <2>1, <2>2
<1> QED BY <1>1, <1>3 DEF Rank

(* Taking the top label off is always in order. *)
LEMMA EmptyReplaces ==
  ASSUME NEW name, NEW l
  PROVE  Replaces(name, <<>>, l) /\ <<>> \in Seq(Labels)
BY DEF Replaces

(* It leaves the rest of the stack. *)
LEMMA StackTail ==
  ASSUME NEW k \in Seq(Labels), k # <<>>
  PROVE  Tail(k) = <<>> \o Tail(k)
OBVIOUS

(* What the routines push *)
LEMMA PushedStacks ==
  ASSUME NEW name, NEW l, Serves(name, l)
  PROVE  /\ l = "finish_event" => Replaces(name, ReapDispatches \o <<"event_finished">>, l)
         /\ l = "reap_events" => Replaces(name, <<"finish_event", "reap_events">>, l)
         /\ l = "capacity" => Replaces(name, Reap \o <<"capacity_check">>, l)
         /\ l = "capacity_check" => Replaces(name, <<"wait_front", "capacity">>, l)
         /\ l = "sync" => Replaces(name, <<"wait_front">> \o Reap \o <<"sync">>, l)
         /\ l = "device" => Replaces(name, <<"sync", "device">>, l)
         /\ l = "scratch" => Replaces(name, <<"sync", "replace">>, l)
         /\ l = "synchronizers" => Replaces(name, <<"sleep">>, l)
         /\ l = "event_wait" => Replaces(name, <<"finish_event">>, l)
         /\ l = "consumers" => Replaces(name, <<"sync", "consumers">>, l)
         /\ l = "host_wait" => Replaces(name, <<"relock">>, l)
<1> USE DEF Replaces, Serves, Above, Rank
<1>1. l = "finish_event" => Replaces(name, ReapDispatches \o <<"event_finished">>, l)
  BY DEF ReapDispatches
<1>2. l = "reap_events" => Replaces(name, <<"finish_event", "reap_events">>, l)
  OBVIOUS
<1>3. l = "capacity" => Replaces(name, Reap \o <<"capacity_check">>, l)
  BY DEF ReapDispatches, Reap
<1>4. l = "capacity_check" => Replaces(name, <<"wait_front", "capacity">>, l)
  OBVIOUS
<1>5. l = "sync" => Replaces(name, <<"wait_front">> \o Reap \o <<"sync">>, l)
  BY DEF ReapDispatches, Reap
<1>6. l = "device" => Replaces(name, <<"sync", "device">>, l)
  OBVIOUS
<1>7. l = "scratch" => Replaces(name, <<"sync", "replace">>, l)
  OBVIOUS
<1>8. l = "synchronizers" => Replaces(name, <<"sleep">>, l)
  OBVIOUS
<1>9. l = "event_wait" => Replaces(name, <<"finish_event">>, l)
  OBVIOUS
<1>10. l = "consumers" => Replaces(name, <<"sync", "consumers">>, l)
  OBVIOUS
<1>11. l = "host_wait" => Replaces(name, <<"relock">>, l)
  OBVIOUS
<1> HIDE DEF Replaces, Serves, Above, Rank
<1> QED BY <1>1, <1>2, <1>3, <1>4, <1>5, <1>6, <1>7, <1>8, <1>9, <1>10, <1>11

----------------------------------------------------------------------------
(* What is known of a thread about to take a step *)
LEMMA Runs ==
  ASSUME RingInv, NEW t \in Threads, NEW l, At(t, l)
  PROVE  /\ TypeOK /\ th[t] \in ThreadStates
         /\ th[t].k \in Seq(Labels) /\ th[t].k # <<>> /\ Head(th[t].k) = l /\ l \in Labels
         /\ Has(th[t].k, l) /\ Serves(th[t].call.name, l)
         /\ th[t].call \in Calls /\ WellFormed(th[t].call) /\ th[t].call.name # "none"
         /\ Stacked(th[t].call.name, th[t].k)
         /\ CallInv(t)
         /\ l \in QueueLabels => th[t].cq \in Queues
         /\ l \notin Unlocked =>
              lock = t /\ FinishInv(t) /\ QuiesceInv(t) /\ SubmitInv(t) /\ DrainInv(t)
<1>1. TypeOK /\ th[t] \in ThreadStates /\ CallInv(t) /\ HeldInv(t)
  BY DEF RingInv, TypeOK
<1>2. th[t].k \in Seq(Labels) /\ th[t].call \in Calls
  BY <1>1 DEF ThreadStates
<1>3. th[t].k # <<>> /\ Head(th[t].k) = l
  BY DEF At
<1>4. Len(th[t].k) \in Nat /\ 1 \in 1 .. Len(th[t].k) /\ th[t].k[1] = l /\ l \in Labels
  BY <1>2, <1>3
<1>5. Has(th[t].k, l)
  BY <1>4 DEF Has
<1>6. /\ WellFormed(th[t].call) /\ th[t].call.name # "none"
      /\ Stacked(th[t].call.name, th[t].k)
      /\ lock # t => l \in Unlocked
      /\ \A q \in QueueLabels : Has(th[t].k, q) => th[t].cq \in Queues
  BY <1>1, <1>3, Zenon DEF CallInv
<1>7. Serves(th[t].call.name, l)
  BY <1>4, <1>6, Zenon DEF Stacked
<1>8. l \notin Unlocked =>
        lock = t /\ FinishInv(t) /\ QuiesceInv(t) /\ SubmitInv(t) /\ DrainInv(t)
  BY <1>1, <1>6, Zenon DEF HeldInv
<1> QED BY <1>1, <1>2, <1>3, <1>4, <1>5, <1>6, <1>7, <1>8, Zenon

(* The stack after labels s have taken the place of the top label l *)
Moved(t, l, s) ==
  LET k == th[t].k
      r == th'[t].k
      name == th[t].call.name
  IN  /\ r # <<>> /\ r \in Seq(Labels) /\ Stacked(name, r) /\ Head(r) \in Labels
      /\ s # <<>> => Head(r) = s[1]
      /\ s = <<>> => Above(name, l, Head(r))
      /\ \A a : Has(r, a) => Has(s, a) \/ Has(k, a)
      /\ \A a : Has(s, a) \/ (Has(k, a) /\ a # l) => Has(r, a)

(* What a move knows of the stack it leaves *)
LEMMA Moves ==
  ASSUME RingInv, NEW t \in Threads, NEW l, At(t, l), l \notin LastLabels,
         NEW s \in Seq(Labels), Replaces(th[t].call.name, s, l),
         th'[t].k = s \o Tail(th[t].k)
  PROVE  Moved(t, l, s)
<1> DEFINE k == th[t].k
           name == th[t].call.name
           r == s \o Tail(k)
<1>1. k \in Seq(Labels) /\ k # <<>> /\ Head(k) = l /\ Stacked(name, k)
  BY Runs, Zenon
<1>a. Head(k) \notin LastLabels /\ Replaces(name, s, Head(k))
  BY <1>1, Zenon
<1> HIDE DEF k, name
<1>2. Shifted(name, k, s, r)
  BY <1>1, <1>a, StackMove, Zenon
<1> HIDE DEF r
<1>3. Head(r) \in Labels
  BY <1>2 DEF Shifted
<1>4. th'[t].k = r
  BY Zenon DEF r, k
<1> QED BY <1>1, <1>2, <1>3, <1>4, Zenon DEF Moved, Shifted, k, name

(* A move within a call, the lock being held *)
LEMMA MoveCall ==
  ASSUME RingInv, NEW t \in Threads, NEW l, At(t, l), NEW s, Moved(t, l, s),
         lock' = t, th'[t].call = th[t].call,
         \A q \in QueueLabels : Has(s, q) => th'[t].cq \in Queues,
         th'[t].cq = th[t].cq \/ th'[t].cq \in Queues,
         Head(th'[t].k) \notin Waiting,
         \A e \in Events : /\ ev'[e].live = ev[e].live /\ ev'[e].syncs = ev[e].syncs
                           /\ ev'[e].destroying = ev[e].destroying
  PROVE  CallInv(t)'
<1>1. /\ WellFormed(th[t].call) /\ th[t].call.name # "none" /\ CallInv(t)
      /\ th[t].k # <<>>
  BY Runs, Zenon
<1>2. Stacked(th[t].call.name, th'[t].k) /\ \A a : Has(th'[t].k, a) => Has(s, a) \/ Has(th[t].k, a)
  BY Zenon DEF Moved
<1>3. /\ \A q \in QueueLabels : Has(th[t].k, q) => th[t].cq \in Queues
      /\ th[t].call.name = "event_synchronize" => t \in ev[th[t].call.e].syncs
      /\ th[t].call.name = "event_destroy" =>
           ev[th[t].call.e].live /\ ev[th[t].call.e].destroying
  BY <1>1, Zenon DEF CallInv
<1>4. \A q \in QueueLabels : Has(th'[t].k, q) => th'[t].cq \in Queues
  BY <1>2, <1>3, Zenon
<1>5. th[t].call.name \in {"event_synchronize", "event_destroy"} => th[t].call.e \in Events
  BY <1>1, Zenon DEF WellFormed
<1>6. /\ th[t].call.name = "event_synchronize" => t \in ev'[th[t].call.e].syncs
      /\ th[t].call.name = "event_destroy" =>
           ev'[th[t].call.e].live /\ ev'[th[t].call.e].destroying
  BY <1>3, <1>5, Zenon
<1>7. (WellFormed(th[t].call))'
  BY <1>1, Zenon DEF WellFormed
<1>8. Head(th'[t].k) \notin {"host_wait", "relock"}
  BY DEF Waiting, Unlocked
<1> QED BY <1>1, <1>2, <1>4, <1>6, <1>7, <1>8, Zenon DEF CallInv

(* Reaping a barrier leaves a settled event settled. *)
LEMMA SettledKept ==
  ASSUME NEW e, ev' = ev, \A q \in Queues : pb'[q] \subseteq pb[q], Settled(e)
  PROVE  Settled(e)'
<1>1. dependency_queues(e)' \subseteq dependency_queues(e)
  BY DEF dependency_queues
<1> QED BY <1>1 DEF Settled

(* Fields a move of control leaves alone *)
SameCall(t) ==
  /\ th'[t].call = th[t].call /\ th'[t].cq = th[t].cq /\ th'[t].ce = th[t].ce
  /\ th'[t].deps = th[t].deps /\ th'[t].need = th[t].need /\ th'[t].todo = th[t].todo
  /\ th'[t].quiet = th[t].quiet

(* Labels that come with a fact of their own wherever they stand *)
Charged == {"finish_event", "event_finished", "submit", "record_submit"}

(* The labels a routine replaces with the lock held, all it knows being on  *)
(* the stack.                                                               *)
Plain == {"wait_front", "reap_barriers", "reap_dispatches", "reap_events", "finish_event",
          "capacity", "capacity_check", "sync", "scratch", "replace"}

(* A move among labels nothing has to be known for keeps what the thread knows. *)
LEMMA PlainMove ==
  ASSUME RingInv, NEW t \in Threads, NEW l \in Plain, At(t, l), NEW s, Moved(t, l, s),
         lock' = lock, UNCHANGED <<flight, live, val, ev>>, SameCall(t),
         \A q \in Queues : pb'[q] \subseteq pb[q],
         \A q \in Charged : ~Has(s, q),
         s # <<>> => s[1] \in {"reap_barriers", "wait_front", "sync"},
         l = "capacity" => s # <<>>,
         l = "capacity_check" /\ s = <<>> => HasRoom(th[t].cq, th[t].need),
         l = "sync" /\ s = <<>> => flight[th[t].cq] = {},
         l = "finish_event" => s = <<>> /\ ~ev[th[t].ce].pending
  PROVE  CallInv(t)' /\ HeldInv(t)'
<1> DEFINE x == th[t]
           y == th'[t]
           n == Head(y.k)
<1>0. /\ x.k # <<>> /\ Head(x.k) = l /\ lock = t
      /\ FinishInv(t) /\ QuiesceInv(t) /\ SubmitInv(t) /\ DrainInv(t)
      /\ l \in QueueLabels => x.cq \in Queues
  BY Runs, Zenon DEF Plain, Unlocked
<1>1. /\ n \in Labels
      /\ s # <<>> => n \in {"reap_barriers", "wait_front", "sync"}
      /\ s = <<>> => Above(x.call.name, l, n)
      /\ \A a \in Charged : Has(y.k, a) => Has(x.k, a)
      /\ \A a : Has(x.k, a) /\ a # l => Has(y.k, a)
      /\ y.k # <<>>
  BY Zenon DEF Moved
<1>2. /\ n \in {"reap_barriers", "wait_front", "sync", "capacity", "reap_dispatches",
                "reap_events", "event_finished", "capacity_check", "unpin", "consumers",
                "submit", "record_submit", "replace", "queue_delete", "device", "return"}
      /\ n \in {"submit", "record_submit"} => l = "capacity_check" /\ s = <<>>
      /\ n \in {"replace", "queue_delete", "device", "return"} => l = "sync" /\ s = <<>>
      /\ n = "return" => x.call.name # "synchronize"
  BY <1>1, Zenon DEF Above, Labels, Plain
<1>3. y.call = x.call /\ y.cq = x.cq /\ y.ce = x.ce /\ y.deps = x.deps /\ y.need = x.need
      /\ y.todo = x.todo /\ y.quiet = x.quiet
  BY DEF SameCall
<1> HIDE DEF x, y, n
<1>4. FinishInv(t)'
  BY <1>0, <1>1, <1>2, <1>3, Zenon DEF FinishInv, Charged, x, y, n
<1>5. QuiesceInv(t)'
  <2> DEFINE e == x.call.e
  <2>1. x.quiet => (Settled(th[t].call.e))'
    BY <1>0, <1>3, SettledKept, Zenon DEF QuiesceInv, x, y
  <2>2. /\ n \notin {"synchronizers", "revalidate", "event_wait", "record", "event_delete", "launch"}
        /\ l \notin {"synchronizers", "revalidate", "event_wait"}
    BY <1>2, Zenon DEF Plain
  <2>3. x.call.name \in RearmCalls =>
          ev[e].syncs = {} /\ (ev[e].pending => x.ce = e /\ (Has(x.k, "finish_event") \/ Has(x.k, "event_finished")))
    BY <1>0, <2>2, Zenon DEF QuiesceInv, x
  <2>4. x.call.name \in RearmCalls /\ ev[e].pending => Has(y.k, "finish_event") \/ Has(y.k, "event_finished")
    <3>1. l # "event_finished"
      BY Zenon DEF Plain
    <3>2. ev[x.ce].pending => l # "finish_event"
      BY Zenon DEF x
    <3> QED BY <1>1, <2>3, <3>1, <3>2, Zenon
  <2>5. x.quiet => x.call.name \in RearmCalls
    BY <1>0, Zenon DEF QuiesceInv, x
  <2> QED BY <1>3, <2>1, <2>2, <2>3, <2>4, <2>5, Zenon DEF QuiesceInv, x, y, n
<1>6. SubmitInv(t)'
  BY <1>0, <1>1, <1>2, <1>3, Zenon DEF SubmitInv, Charged, x, y, n, HasRoom, barrier_count
<1>7. DrainInv(t)'
  BY <1>0, <1>1, <1>2, <1>3, Zenon DEF DrainInv, x, y, n
<1>8. CallInv(t)'
  <2>1. n \notin Waiting
    BY <1>2, Zenon DEF Waiting, Unlocked
  <2>2. \A q \in QueueLabels : Has(s, q) => y.cq \in Queues
    <3>1. CASE l = "finish_event"
      BY <3>1 DEF Has
    <3>2. CASE l # "finish_event"
      BY <1>0, <1>3, <3>2 DEF Plain, QueueLabels
    <3> QED BY <3>1, <3>2, Zenon
  <2>3. /\ lock' = t /\ y.call = x.call /\ (y.cq = x.cq \/ y.cq \in Queues)
        /\ \A e \in Events : /\ ev'[e].live = ev[e].live /\ ev'[e].syncs = ev[e].syncs
                             /\ ev'[e].destroying = ev[e].destroying
    BY <1>0, <1>3, Zenon
  <2> QED BY <2>1, <2>2, <2>3, MoveCall, Zenon DEF x, y, n
<1> QED BY <1>0, <1>1, <1>2, <1>4, <1>5, <1>6, <1>7, <1>8, Zenon DEF HeldInv, Unlocked, x, y, n

(* What the invariant says of one thread *)
OwnInv(t) == CallInv(t) /\ HeldInv(t)

(* A queue whose three lists are empty has nothing in flight. *)
LEMMA DrainedIdle ==
  ASSUME RingInv, NEW q \in Queues, pd[q] = {}, pe[q] = {}, pb[q] = {}
  PROVE  flight[q] = {}
<1>1. \A p \in flight[q] : p.kind = "dispatch" \/ p.deps # {} \/ p.ev # NoEvent
  BY DEF RingInv, SharedInv, PacketInv
<1>2. \A p \in flight[q] :
        /\ p.kind = "dispatch" => \E d \in pd[q] : d.id = p.pos
        /\ p.deps # {} => \E b \in pb[q] : b.ret = p.ret /\ b.deps = p.deps
        /\ p.ev # NoEvent => \E x \in pe[q] : x.id = p.pos /\ x.ev = p.ev
  BY Zenon DEF RingInv, SharedInv, PacketsTracked
<1> QED BY <1>1, <1>2

(* Goto is a move that leaves the call as it is. *)
LEMMA GotoMoves ==
  ASSUME RingInv, NEW t \in Threads, NEW l, At(t, l), l \notin LastLabels,
         NEW s \in Seq(Labels), Replaces(th[t].call.name, s, l), Goto(t, s)
  PROVE  Moved(t, l, s) /\ SameCall(t)
<1>1. th \in [Threads -> ThreadStates] /\ th[t] \in ThreadStates
  BY Runs, Zenon DEF TypeOK
<1>2. th' = [th EXCEPT ![t].k = s \o Tail(th[t].k)]
  BY DEF Goto, Then
<1>3. th'[t] = [th[t] EXCEPT !.k = s \o Tail(th[t].k)]
  BY <1>1, <1>2, Zenon
<1>4. th'[t].k = s \o Tail(th[t].k) /\ SameCall(t)
  BY <1>1, <1>3, Zenon DEF ThreadStates, SameCall
<1> QED BY <1>4, Moves, Zenon

(* A thread that has returned has nothing to keep. *)
LEMMA Ended ==
  ASSUME NEW t \in Threads, Return(t), th \in [Threads -> ThreadStates]
  PROVE  OwnInv(t)'
<1>1. lock' = NoThread /\ th'[t].k = <<>> /\ lock' # t
  BY QueueAssumption DEF Return, Idle
<1> QED BY <1>1, Zenon DEF OwnInv, CallInv, HeldInv

(* A step of a routine that leaves the stack as it is *)
LEMMA Stays ==
  ASSUME RingInv, NEW t \in Threads, NEW l, At(t, l), l \notin Unlocked, th'[t].k = th[t].k, SameCall(t),
         UNCHANGED <<lock, flight, live, val, ev>>, \A q \in Queues : pb'[q] \subseteq pb[q]
  PROVE  OwnInv(t)'
<1>0. /\ CallInv(t) /\ lock = t /\ th[t].k # <<>> /\ Head(th[t].k) = l
      /\ FinishInv(t) /\ QuiesceInv(t) /\ SubmitInv(t) /\ DrainInv(t)
  BY Runs, Zenon
<1>1. CallInv(t)'
  <2>1. (WellFormed(th[t].call))'
    BY <1>0, Zenon DEF CallInv, SameCall, WellFormed
  <2> QED BY <1>0, <2>1, Zenon DEF CallInv, SameCall
<1>2. FinishInv(t)'
  BY <1>0, Zenon DEF FinishInv, SameCall
<1>3. QuiesceInv(t)'
  <2>1. th[t].quiet => (Settled(th[t].call.e))'
    BY <1>0, SettledKept, Zenon DEF QuiesceInv, SameCall
  <2> QED BY <1>0, <2>1, Zenon DEF QuiesceInv, SameCall
<1>4. SubmitInv(t)'
  BY <1>0, Zenon DEF SubmitInv, SameCall, HasRoom, barrier_count
<1>5. DrainInv(t)'
  BY <1>0, Zenon DEF DrainInv, SameCall
<1> QED BY <1>0, <1>1, <1>2, <1>3, <1>4, <1>5, Zenon DEF HeldInv, OwnInv

(* So has one that returns with an error. *)
LEMMA FailEnds ==
  ASSUME RingInv, NEW t \in Threads, Fail(t) \/ Return(t)
  PROVE  OwnInv(t)'
BY Ended DEF Fail, RingInv, TypeOK

(* The stacks the routines push are stacks of labels. *)
LEMMA PushTypes ==
  /\ ReapDispatches \o <<"event_finished">> \in Seq(Labels)
  /\ Reap \o <<"capacity_check">> \in Seq(Labels)
  /\ <<"wait_front">> \o Reap \o <<"sync">> \in Seq(Labels)
  /\ \A a \in Labels : <<a>> \in Seq(Labels)
  /\ \A a, b \in Labels : <<a, b>> \in Seq(Labels)
BY DEF ReapDispatches, Reap, Labels

(* The labels that the plain moves push *)
LEMMA PlainPushes ==
  ASSUME NEW s \in {<<>>, Reap \o <<"capacity_check">>, <<"wait_front", "capacity">>,
                    <<"wait_front">> \o Reap \o <<"sync">>, <<"sync", "replace">>}
  PROVE  /\ \A q \in Charged : ~Has(s, q)
         /\ s # <<>> => s[1] \in {"reap_barriers", "wait_front", "sync"}
<1> USE DEF ReapDispatches, Reap, Charged, Has
<1>1. CASE s = <<>>
  BY <1>1
<1>2. CASE s = Reap \o <<"capacity_check">>
  <2>1. /\ Len(s) = 4 /\ s[1] = "reap_barriers" /\ s[2] = "reap_dispatches"
        /\ s[3] = "reap_events" /\ s[4] = "capacity_check"
    BY <1>2
  <2> QED BY <2>1
<1>3. CASE s = <<"wait_front", "capacity">>
  BY <1>3
<1>4. CASE s = <<"wait_front">> \o Reap \o <<"sync">>
  <2>1. /\ Len(s) = 5 /\ s[1] = "wait_front" /\ s[2] = "reap_barriers"
        /\ s[3] = "reap_dispatches" /\ s[4] = "reap_events" /\ s[5] = "sync"
    BY <1>4
  <2> QED BY <2>1
<1>5. CASE s = <<"sync", "replace">>
  BY <1>5
<1> QED BY <1>1, <1>2, <1>3, <1>4, <1>5, Zenon

(* The state a call starts in *)
LEMMA BeginFields ==
  ASSUME RingInv, NEW t \in Threads, NEW c, NEW Q, NEW labels, Begin(t, c, Q, labels)
  PROVE  /\ th'[t].k = labels /\ th'[t].call = c /\ th'[t].cq = c.q /\ th'[t].todo = Q
         /\ ~th'[t].quiet /\ lock' = t
<1>0. th \in [Threads -> ThreadStates]
  BY DEF RingInv, TypeOK
<1>1. th'[t] = [Idle EXCEPT !.k = labels, !.call = c, !.cq = c.q, !.todo = Q]
  BY <1>0, Zenon DEF Begin
<1>2. lock' = t
  BY DEF Begin
<1> QED BY <1>1, <1>2 DEF Idle
=============================================================================
