---------------------------- MODULE HalTimeline ----------------------------
(***************************************************************************)
(* What a queue of the HAL promises: an operation starts when its wait     *)
(* semaphores have reached their values, executes its commands one after   *)
(* the other, each as a single step, and advances its signal semaphores    *)
(* only when all of them have taken effect.  An operation that fails fails *)
(* its signal semaphores, and a command it had started may still happen.   *)
(***************************************************************************)
EXTENDS HalCommands, FiniteSets

CONSTANTS Threads, Foreign

VARIABLES mem, sem, ops, stray

hvars == <<mem, sem, ops, stray>>

NoOp == [st |-> "idle", todo |-> <<>>, wait |-> {}, signal |-> {}, stage |-> NoMem]

Reached(s) == \A w \in s : ~sem[w[1]].failed /\ sem[w[1]].value >= w[2]
Lrrt(s) == \A w \in s : w[1] \notin Foreign

Init ==
  /\ mem \in [Buffers -> {NoMem} \cup [Cells -> Undefined .. Modulus - 1]]
  /\ \A s \in DOMAIN sem : sem[s] = [value |-> 0, failed |-> FALSE]
  /\ ops = [t \in Threads |-> NoOp] /\ stray = {}

Submit(t) ==
  /\ ops[t] = NoOp /\ ops'[t].st = "waiting" /\ ops'[t].stage = NoMem
  /\ \A u \in Threads \ {t} : ops'[u] = ops[u]
  /\ UNCHANGED <<mem, sem, stray>>

Admit(t) ==
  /\ ops[t].st = "waiting" /\ Lrrt(ops[t].wait) /\ Reached(ops[t].wait)
  /\ ops' = [ops EXCEPT ![t].st = "running"]
  /\ UNCHANGED <<mem, sem, stray>>

Refuse(t) ==
  /\ ops[t].st = "waiting"
  /\ ~Lrrt(ops[t].wait) \/ \E w \in ops[t].wait : sem[w[1]].failed
  /\ ops' = [ops EXCEPT ![t] = NoOp]
  /\ UNCHANGED <<mem, sem, stray>>

Stage(t) ==
  /\ ops[t].st = "running" /\ ops[t].todo # <<>> /\ Head(ops[t].todo).k = "copy"
  /\ Bound(Head(ops[t].todo))
  /\ ops' = [ops EXCEPT ![t].stage = mem[Head(ops[t].todo).src.buf]]
  /\ UNCHANGED <<mem, sem, stray>>

Exec(t) ==
  LET c == Head(ops[t].todo)
      stage == IF ops[t].stage = NoMem /\ c.k = "copy" THEN mem[c.src.buf] ELSE ops[t].stage
  IN
  /\ ops[t].st = "running" /\ ops[t].todo # <<>> /\ Bound(c)
  /\ ops' = [ops EXCEPT ![t].todo = Tail(@), ![t].stage = NoMem]
  /\ mem' = Effect(mem, stage, c)
  /\ UNCHANGED <<sem, stray>>

Complete(t) ==
  /\ ops[t].st = "running" /\ ops[t].todo = <<>>
  /\ sem' = IF ~Lrrt(ops[t].signal) THEN sem
            ELSE [s \in DOMAIN sem |->
                   [sem[s] EXCEPT !.value =
                      LET new == {@} \cup {w[2] : w \in {x \in ops[t].signal : x[1] = s}}
                      IN IF sem[s].failed THEN @ ELSE CHOOSE v \in new : \A x \in new : x <= v]]
  /\ ops' = [ops EXCEPT ![t] = NoOp]
  /\ UNCHANGED <<mem, stray>>

Fail(t) ==
  /\ ops[t].st = "running"
  /\ sem' = IF ~Lrrt(ops[t].signal) THEN sem
            ELSE [s \in DOMAIN sem |->
                    [sem[s] EXCEPT !.failed = @ \/ \E w \in ops[t].signal : w[1] = s]]
  /\ \E n \in 0 .. Len(ops[t].todo) : stray' = stray \cup {ops[t].todo[i] : i \in 1 .. n}
  /\ ops' = [ops EXCEPT ![t] = NoOp]
  /\ UNCHANGED mem

(* A kernel of a failed operation, and the host's own work on a buffer *)
Late ==
  /\ \E c \in stray : mem' = Effect(mem, NoMem, c) /\ stray' \in {stray, stray \ {c}}
  /\ UNCHANGED <<sem, ops>>
Host ==
  /\ \E b \in Buffers : \A x \in Buffers \ {b} : mem'[x] = mem[x]
  /\ UNCHANGED <<sem, ops, stray>>

Next ==
  \/ \E t \in Threads : \/ Submit(t) \/ Admit(t) \/ Refuse(t) \/ Stage(t) \/ Exec(t)
                        \/ Complete(t) \/ Fail(t)
  \/ Late \/ Host

Spec == Init /\ [][Next]_hvars
=============================================================================
