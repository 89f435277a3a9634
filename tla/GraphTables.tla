---------------------------- MODULE GraphTables ----------------------------
(* The task and program tables of a stateful graph, their validation on    *)
(* the host and on the device, and the compilation of a program into       *)
(* stages.  A dependency mask is the set of task indices it selects.       *)
EXTENDS Integers, Sequences, FiniteSetsExt

CONSTANTS
  MaximumTasks,             \* kMaximumTasks
  MaximumPrograms,          \* kMaximumPrograms = 2^kProgramIndexBits
  MaximumPhaseStates,       \* what the rest of the phase word can count
  MaximumResidentWorkers    \* kMaximumResidentWorkers

Flags == {"advances_step", "evaluates_predicate", "branches_on_state"}

Tasks(p) == 0 .. p.task_count - 1
Programs(g) == 0 .. g.program_count - 1
Generations(g) == 0 .. g.phase_state_count - 1

(* Generation and program share one word. *)
make_phase(generation, program) == generation * MaximumPrograms + program
phase_generation(phase) == phase \div MaximumPrograms
phase_program(phase) == phase % MaximumPrograms

ValidProgram(g, p) ==
  /\ p.task_count \in 1 .. MaximumTasks
  /\ p.next_program \in Programs(g)
  /\ "branches_on_state" \in p.flags => p.branch_program \in Programs(g)
  /\ p.flags \subseteq Flags
  /\ \A t \in Tasks(p) : p.deps[t] \subseteq Tasks(p) \ {t}

(* The host's check throws unless this holds. *)
validate_resident_graph(g, workers) ==
  /\ g.program_count \in 1 .. MaximumPrograms
  /\ g.phase_state_count \in 1 .. MaximumPhaseStates
  /\ workers \in 1 .. MaximumResidentWorkers
  /\ \A i \in Programs(g) : ValidProgram(g, g.programs[i])

(* Reachable(p) is the mask after task_count passes over the tasks in      *)
(* order, each of which adds the tasks whose dependencies it contains.     *)
Reachable(p) ==
  LET n == p.task_count
      mask[i \in 0 .. n * n] ==
        IF i = 0 THEN {}
        ELSE LET t == (i - 1) % n
             IN  mask[i - 1] \cup {s \in {t} : p.deps[t] \subseteq mask[i - 1]}
  IN  mask[n * n]

(* The device's check, made by worker 0 before anything runs. *)
validate_programs(g, s, workers) ==
  /\ validate_resident_graph(g, workers)
  /\ phase_program(s.phase) \in Programs(g)
  /\ phase_generation(s.phase) \in Generations(g)
  /\ s.max_steps # 0
  /\ \A i \in Programs(g) : Reachable(g.programs[i]) = Tasks(g.programs[i])

(* A stage extends from task b to the first task that depends on a task of *)
(* the same stage or a later one.                                          *)
StageEnd(p, b) ==
  Min({p.task_count} \cup {t \in b .. p.task_count - 1 : ~ p.deps[t] \subseteq 0 .. b - 1})

(* The stages of a program; one without tasks stands for the exception.    *)
compile_resident_plan(p) ==
  LET from[b \in 0 .. p.task_count] ==
        IF b = p.task_count THEN <<>>
        ELSE LET e == StageEnd(p, b)
             IN  <<[task_offset |-> b, task_count |-> e - b]>>
                 \o (IF e = b THEN <<>> ELSE from[e])
  IN  from[0]

Throws(plan) == \E i \in DOMAIN plan : plan[i].task_count = 0

(* Stages are contiguous, cover the program and depend on earlier stages.  *)
validate_compiled_plan(p, plan) ==
  LET expected(i) == IF i = 1 THEN 0 ELSE plan[i - 1].task_offset + plan[i - 1].task_count
  IN  /\ plan # <<>>
      /\ expected(Len(plan) + 1) = p.task_count
      /\ \A i \in DOMAIN plan :
           /\ plan[i].task_count # 0
           /\ plan[i].task_offset = expected(i)
           /\ plan[i].task_count <= p.task_count - expected(i)
           /\ \A t \in expected(i) .. expected(i) + plan[i].task_count - 1 :
                p.deps[t] \subseteq 0 .. expected(i) - 1
=============================================================================
