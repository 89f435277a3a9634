----------------------------- MODULE TaskGraph -----------------------------
(* What a launch of a stateful graph promises, whichever scheduler runs    *)
(* it: in every phase each task of the active program is completed once,   *)
(* after its dependencies; when the last is, one transition chooses the    *)
(* next program or ends the launch.                                        *)
EXTENDS GraphTables

CONSTANTS Graphs, WorkerCount

VARIABLES graph, status, generation, program, step, executed, done, predicate, branch

vars == <<graph, status, generation, program, step, executed, done, predicate, branch>>

Active == graph.programs[program]

(* No set of tasks waits for itself. *)
Acyclic(p) ==
  \A S \in SUBSET Tasks(p) \ {{}} : \E t \in S : p.deps[t] \cap S = {}

Init ==
  /\ graph \in Graphs
  /\ status = "ready"
  /\ generation = 0 /\ program = graph.start
  /\ step = 0 /\ executed = 0 /\ done = {}
  /\ predicate = FALSE /\ branch = FALSE

(* A cyclic graph is refused before any task runs. *)
Start ==
  /\ status = "ready"
  /\ status' = IF \A i \in Programs(graph) : Acyclic(graph.programs[i])
               THEN "running" ELSE "invalid_program"
  /\ UNCHANGED <<graph, generation, program, step, executed, done, predicate, branch>>

(* A running task may set what the transition will read. *)
Compute ==
  /\ status = "running" /\ done # Tasks(Active)
  /\ predicate' \in BOOLEAN /\ branch' \in BOOLEAN
  /\ UNCHANGED <<graph, status, generation, program, step, executed, done>>

Complete ==
  /\ status = "running"
  /\ \E t \in Tasks(Active) \ done :
       /\ Active.deps[t] \subseteq done
       /\ done' = done \cup {t}
  /\ predicate' \in BOOLEAN /\ branch' \in BOOLEAN
  /\ UNCHANGED <<graph, status, generation, program, step, executed>>

Stops == "evaluates_predicate" \in Active.flags /\ predicate

Advance ==
  /\ status = "running" /\ done = Tasks(Active)
  /\ step' = IF "advances_step" \in Active.flags THEN step + 1 ELSE step
  /\ executed' = executed + Active.task_count
  /\ \/ /\ Stops
        /\ status' = "complete"
        /\ UNCHANGED <<generation, program, done>>
     \/ /\ ~ Stops /\ step' >= graph.max_steps
        /\ status' = "max_steps"
        /\ UNCHANGED <<generation, program, done>>
     \/ /\ ~ Stops /\ step' < graph.max_steps
        /\ generation + 1 = graph.phase_state_count
        /\ status' = "invalid_program"
        /\ UNCHANGED <<generation, program, done>>
     \/ /\ ~ Stops /\ step' < graph.max_steps
        /\ generation + 1 < graph.phase_state_count
        /\ generation' = generation + 1
        /\ program' = IF "branches_on_state" \in Active.flags /\ branch
                      THEN Active.branch_program ELSE Active.next_program
        /\ done' = {}
        /\ status' = status
  /\ UNCHANGED <<graph, predicate, branch>>

Next == Start \/ Compute \/ Complete \/ Advance

Spec == Init /\ [][Next]_vars
=============================================================================
