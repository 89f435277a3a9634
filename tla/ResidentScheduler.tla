------------------------- MODULE ResidentScheduler -------------------------
(* The persistent workgroups of a stateful graph: how a launch starts, how *)
(* a phase ends, and the dynamic scheduler, in which workers scan for a    *)
(* ready task, claim it, execute it and publish its completion.            *)
(*                                                                         *)
(* A worker is a workgroup of several waves, each with a program counter.  *)
(* Wave 0 holds thread 0, which does the scheduling.  __syncthreads waits  *)
(* for the waves of the workgroup that have not returned.  Each atomic or  *)
(* volatile access to global memory is a step.                             *)
EXTENDS GraphTables

CONSTANTS
  Graphs,        \* the graphs a host may upload
  WorkerCount,   \* launched workgroups, all resident
  WaveCount,     \* waves of a workgroup
  WordSize,      \* tasks per mask word (32)
  NoTask         \* kNoTask

VARIABLES
  graph,         \* the uploaded tables
  mode,          \* which kernel was launched: "dynamic" or "compiled"
  state,         \* the device's State
  phase_states,  \* a MaskState for each generation
  pc,            \* pc[w][v]: where wave v of worker w is
  local,         \* thread 0's snapshot of the phase and the masks
  scratch,       \* the workgroup's SchedulerScratch
  lane,          \* each wave's position in the compiled plan
  ran,           \* history: <<generation, task, wave>> executed
  again          \* history: executed once more

vars == <<graph, mode, state, phase_states, pc, local, scratch, lane, ran, again>>

Workers == 0 .. WorkerCount - 1
Waves == 0 .. WaveCount - 1

ProgramOf(phase) == graph.programs[phase_program(phase)]
Low == 0 .. WordSize - 1

At(w, v, label) == pc[w][v] = label
Goto(w, v, label) == pc' = [pc EXCEPT ![w][v] = label]

NothingSeen == [phase |-> 0, claimed |-> {}, completed |-> {}, offset |-> 0]
NoSelection == [task |-> NoTask, program |-> 0, generation |-> 0]

(* upload_graph has accepted the graph and initialize has written State.   *)
(* With a compiled plan, so have compile_resident_plan and its validation. *)
Init ==
  /\ graph \in Graphs
  /\ validate_resident_graph(graph, WorkerCount)
  /\ mode \in {"dynamic", "compiled"}
  /\ mode = "compiled" =>
       \A i \in Programs(graph) :
         LET p == graph.programs[i] plan == compile_resident_plan(p)
         IN  ~ Throws(plan) /\ validate_compiled_plan(p, plan)
  /\ state = [status |-> "ready", phase |-> make_phase(0, graph.start), step |-> 0,
              max_steps |-> graph.max_steps, executed_tasks |-> 0, error_code |-> 0,
              predicate |-> FALSE, branch |-> FALSE]
  /\ phase_states = [g \in Generations(graph) |->
       [claimed |-> {}, completed |-> {}, completed_count |-> 0, arrived |-> 0, passed |-> 0]]
  /\ pc = [w \in Workers |-> [v \in Waves |->
       IF w # 0 THEN "poll" ELSE IF v = 0 THEN "publish" ELSE "sync_publish"]]
  /\ local = [w \in Workers |-> NothingSeen]
  /\ scratch = [w \in Workers |-> NoSelection]
  /\ lane = [w \in Workers |-> [v \in Waves |-> [phase |-> 0, stage |-> 0, task |-> 0]]]
  /\ ran = {} /\ again = {}

(***************************************************************************)
(* The start of a launch                                                   *)
(***************************************************************************)

Accepted ==
  /\ validate_programs(graph, state, WorkerCount)
  /\ mode = "compiled" => \A i \in Programs(graph) :
       validate_compiled_plan(graph.programs[i], compile_resident_plan(graph.programs[i]))

(* Worker 0 validates the tables and lets the others start or return. *)
PublishStatus ==
  /\ At(0, 0, "publish")
  /\ state' = IF Accepted THEN [state EXCEPT !.status = "running"]
              ELSE [state EXCEPT !.status = "invalid_program", !.error_code = 1]
  /\ Goto(0, 0, "sync_publish")
  /\ UNCHANGED <<graph, mode, phase_states, local, scratch, lane, ran, again>>

Poll(w, v) ==
  /\ At(w, v, "poll") /\ state.status # "ready"
  /\ Goto(w, v, "test")
  /\ UNCHANGED <<graph, mode, state, phase_states, local, scratch, lane, ran, again>>

(* The head of the loop: only thread 0 has work before the first barrier   *)
(* of the dynamic scheduler.                                               *)
LoopHead(v) == IF mode = "dynamic" /\ v # 0 THEN "sync_select" ELSE "load_phase"

(* Every wave reads the status for itself. *)
TestStatus(w, v) ==
  /\ At(w, v, "test")
  /\ Goto(w, v, IF state.status = "running" THEN LoopHead(v) ELSE "done")
  /\ UNCHANGED <<graph, mode, state, phase_states, local, scratch, lane, ran, again>>

(***************************************************************************)
(* The end of a phase                                                      *)
(***************************************************************************)

(* State after the last task of program i, which ran in a generation. *)
finish_program(i, generation) ==
  LET p == graph.programs[i]
      next_step == state.step + (IF "advances_step" \in p.flags THEN 1 ELSE 0)
      next_generation == generation + 1
      next_program == IF "branches_on_state" \in p.flags /\ state.branch
                      THEN p.branch_program ELSE p.next_program
      counted == [state EXCEPT !.step = next_step, !.executed_tasks = @ + p.task_count]
  IN  IF "evaluates_predicate" \in p.flags /\ state.predicate
      THEN [counted EXCEPT !.status = "complete"]
      ELSE IF next_step >= state.max_steps
      THEN [counted EXCEPT !.status = "max_steps"]
      ELSE IF next_generation >= graph.phase_state_count
      THEN [counted EXCEPT !.status = "invalid_program", !.error_code = 2]
      ELSE [counted EXCEPT !.phase = make_phase(next_generation, next_program)]

(***************************************************************************)
(* Selecting a task: thread 0 reads the phase, the claimed mask, the       *)
(* completed mask and the phase again, a word at a time                    *)
(***************************************************************************)

LoadPhase(w) ==
  /\ mode = "dynamic" /\ At(w, 0, "load_phase")
  /\ local' = [local EXCEPT ![w] = [NothingSeen EXCEPT !.phase = state.phase]]
  /\ scratch' = [scratch EXCEPT ![w] = NoSelection]
  /\ Goto(w, 0, "load_claimed")
  /\ UNCHANGED <<graph, mode, state, phase_states, lane, ran, again>>

Seen(w) == phase_states[phase_generation(local[w].phase)]
Wide(w) == ProgramOf(local[w].phase).task_count > WordSize

(* One word of a mask joins the snapshot. *)
LoadWord(w, label, field, word, next) ==
  /\ At(w, 0, label)
  /\ local' = [local EXCEPT ![w][field] = @ \cup (Seen(w)[field] \cap word)]
  /\ Goto(w, 0, next)
  /\ UNCHANGED <<graph, mode, state, phase_states, scratch, lane, ran, again>>

High(w) == Tasks(ProgramOf(local[w].phase)) \ Low

LoadMasks(w) ==
  \/ LoadWord(w, "load_claimed", "claimed", Low,
              IF Wide(w) THEN "load_claimed_high" ELSE "load_completed")
  \/ LoadWord(w, "load_claimed_high", "claimed", High(w), "load_completed")
  \/ LoadWord(w, "load_completed", "completed", Low,
              IF Wide(w) THEN "load_completed_high" ELSE "load_phase_after")
  \/ LoadWord(w, "load_completed_high", "completed", High(w), "load_phase_after")

(* The snapshot goes out of scope. *)
LeaveSelection(w) ==
  /\ local' = [local EXCEPT ![w] = NothingSeen]
  /\ Goto(w, 0, "sync_select")

LoadPhaseAfter(w) ==
  /\ At(w, 0, "load_phase_after")
  /\ IF state.phase = local[w].phase
     THEN Goto(w, 0, "claim") /\ UNCHANGED local
     ELSE LeaveSelection(w)
  /\ UNCHANGED <<graph, mode, state, phase_states, scratch, lane, ran, again>>

(* The tasks in the order worker w tries them. *)
TaskAt(w, offset) == (w + offset) % ProgramOf(local[w].phase).task_count

(* Mutant: dependencies are not looked at. *)
CandidatesUnready(w) ==
  {o \in local[w].offset .. ProgramOf(local[w].phase).task_count - 1 :
     TaskAt(w, o) \notin local[w].claimed}

(* Offsets still to try whose task the snapshot shows free and ready. *)
Candidates(w) ==
  {o \in local[w].offset .. ProgramOf(local[w].phase).task_count - 1 :
     /\ TaskAt(w, o) \notin local[w].claimed
     /\ ProgramOf(local[w].phase).deps[TaskAt(w, o)] \subseteq local[w].completed}

(* atomicOr on the claimed mask; the worker that sets the bit owns the task. *)
Claim(w) ==
  /\ At(w, 0, "claim")
  /\ IF Candidates(w) = {}
     THEN LeaveSelection(w) /\ UNCHANGED <<phase_states, scratch>>
     ELSE LET o == Min(Candidates(w))
              t == TaskAt(w, o)
              g == phase_generation(local[w].phase)
          IN  /\ phase_states' = [phase_states EXCEPT ![g].claimed = @ \cup {t}]
              /\ IF t \in phase_states[g].claimed
                 THEN /\ local' = [local EXCEPT ![w].offset = o + 1]
                      /\ UNCHANGED <<pc, scratch>>
                 ELSE /\ scratch' = [scratch EXCEPT ![w] = [task |-> t, generation |-> g,
                                   program |-> phase_program(local[w].phase)]]
                      /\ LeaveSelection(w)
  /\ UNCHANGED <<graph, mode, state, lane, ran, again>>

(***************************************************************************)
(* Executing the task and publishing its completion                        *)
(***************************************************************************)

(* Wave v ran task t of generation g.  Thread 0 of the workload may set    *)
(* the predicate and the branch value.                                     *)
Executed(v, g, t) ==
  /\ again' = again \cup (ran \cap {<<g, t, v>>})
  /\ ran' = ran \cup {<<g, t, v>>}
  /\ \/ /\ v = 0
        /\ \E predicate, branch \in BOOLEAN :
             state' = [state EXCEPT !.predicate = predicate, !.branch = branch]
     \/ v # 0 /\ state' = state

Execute(w, v) ==
  /\ At(w, v, "execute")
  /\ Executed(v, scratch[w].generation, scratch[w].task)
  /\ Goto(w, v, "sync_execute")
  /\ UNCHANGED <<graph, mode, phase_states, local, scratch, lane>>

CompleteTask(w) ==
  /\ At(w, 0, "complete")
  /\ phase_states' = [phase_states EXCEPT
       ![scratch[w].generation].completed = @ \cup {scratch[w].task}]
  /\ Goto(w, 0, "count")
  /\ UNCHANGED <<graph, mode, state, local, scratch, lane, ran, again>>

(* Mutant: the last but one completion already makes the transition. *)
CountOffByOne(w) ==
  LET g == scratch[w].generation
      completed_count == phase_states[g].completed_count + 1
  IN  /\ At(w, 0, "count")
      /\ phase_states' = [phase_states EXCEPT ![g].completed_count = completed_count]
      /\ Goto(w, 0, IF completed_count >= graph.programs[scratch[w].program].task_count - 1
                    THEN "transition" ELSE "sync_loop")
      /\ UNCHANGED <<graph, mode, state, local, scratch, lane, ran, again>>

(* Mutant: the value before the atomicAdd is compared. *)
CountOldValue(w) ==
  LET g == scratch[w].generation
  IN  /\ At(w, 0, "count")
      /\ phase_states' = [phase_states EXCEPT ![g].completed_count = @ + 1]
      /\ Goto(w, 0, IF phase_states[g].completed_count
                       = graph.programs[scratch[w].program].task_count
                    THEN "transition" ELSE "sync_loop")
      /\ UNCHANGED <<graph, mode, state, local, scratch, lane, ran, again>>

(* The completion that reaches task_count elects the transition's owner. *)
CountTask(w) ==
  LET g == scratch[w].generation
      completed_count == phase_states[g].completed_count + 1
  IN  /\ At(w, 0, "count")
      /\ phase_states' = [phase_states EXCEPT ![g].completed_count = completed_count]
      /\ Goto(w, 0, IF completed_count = graph.programs[scratch[w].program].task_count
                    THEN "transition" ELSE "sync_loop")
      /\ UNCHANGED <<graph, mode, state, local, scratch, lane, ran, again>>

Transition(w) ==
  /\ At(w, 0, "transition")
  /\ state' = finish_program(scratch[w].program, scratch[w].generation)
  /\ Goto(w, 0, "sync_loop")
  /\ UNCHANGED <<graph, mode, phase_states, local, scratch, lane, ran, again>>
=============================================================================
