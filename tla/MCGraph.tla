------------------------------ MODULE MCGraph ------------------------------
(* Small graphs for TLC. *)
EXTENDS StatefulGraph

Prog(deps, flags, next, branch) ==
  [task_count |-> Cardinality(DOMAIN deps), deps |-> deps, flags |-> flags,
   next_program |-> next, branch_program |-> branch]

Graph(programs, steps, phases) ==
  [program_count |-> Cardinality(DOMAIN programs), programs |-> programs, start |-> 0,
   max_steps |-> steps, phase_state_count |-> phases]

(* A join over two mask words, stopped by the predicate or the step bound. *)
Join ==
  Graph([i \in {0} |-> Prog([t \in 0 .. 2 |-> IF t = 2 THEN {0, 1} ELSE {}],
                            {"advances_step", "evaluates_predicate"}, 0, 0)], 1, 1)

(* One task that two others follow. *)
Fork == Graph([i \in {0} |-> Prog([t \in 0 .. 2 |-> {0} \ {t}], {"advances_step"}, 0, 0)], 1, 1)

(* Two programs linked by a branch; without it the phases run out. *)
Branching ==
  Graph([i \in {0, 1} |-> IF i = 0 THEN Prog([t \in 0 .. 1 |-> {}], {"branches_on_state"}, 0, 1)
                          ELSE Prog([t \in {0} |-> {}], {"advances_step"}, 1, 0)], 1, 2)

(* Dependencies that are acyclic but not in stage order, and cyclic ones. *)
Backwards == Graph([i \in {0} |-> Prog([t \in 0 .. 1 |-> {1} \ {t}], {"advances_step"}, 0, 0)], 1, 1)
Cyclic == Graph([i \in {0} |-> Prog([t \in 0 .. 1 |-> {1 - t}], {"advances_step"}, 0, 0)], 1, 1)

SmallGraphs == {Join, Fork, Branching, Backwards, Cyclic}

(* Two independent tasks. *)
Pair == Graph([i \in {0} |-> Prog([t \in 0 .. 1 |-> {}], {"advances_step"}, 0, 0)], 1, 1)

OnePair == {Pair}
=============================================================================
