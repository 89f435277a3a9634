--------------------------- MODULE StatefulGraph ---------------------------
(* The compiled scheduler, in which the waves walk the stages of the plan  *)
(* and all workers meet at the end of each, and a launch of either kernel. *)
EXTENDS ResidentScheduler

(***************************************************************************)
(* The compiled scheduler                                                  *)
(***************************************************************************)

Plan(w, v) == compile_resident_plan(ProgramOf(lane[w][v].phase))
StageOf(w, v) == Plan(w, v)[lane[w][v].stage + 1]

(* Every wave reads the phase for itself. *)
LoadCompiledPhase(w, v) ==
  /\ mode = "compiled" /\ At(w, v, "load_phase")
  /\ lane' = [lane EXCEPT ![w][v] = [phase |-> state.phase, stage |-> 0, task |-> w]]
  /\ Goto(w, v, "stage")
  /\ UNCHANGED <<graph, mode, state, phase_states, local, scratch, ran, again>>

(* A wave takes part in its worker's next task of the stage, or is through. *)
ExecuteStage(w, v) ==
  LET stage == StageOf(w, v)
      active_workers == Min({WorkerCount, stage.task_count})
      i == lane[w][v].task
  IN  /\ At(w, v, "stage")
      /\ \/ /\ w < active_workers /\ i < stage.task_count
            /\ Executed(v, phase_generation(lane[w][v].phase), stage.task_offset + i)
            /\ lane' = [lane EXCEPT ![w][v].task = @ + active_workers]
            /\ UNCHANGED pc
         \/ /\ ~ (w < active_workers /\ i < stage.task_count)
            /\ Goto(w, v, "sync_stage")
            /\ UNCHANGED <<state, lane, ran, again>>
      /\ UNCHANGED <<graph, mode, phase_states, local, scratch>>

BarrierOf(w) == phase_generation(lane[w][0].phase)
LastStage(w, v) == lane[w][v].stage + 1 = Len(Plan(w, v))

(* claimed_mask counts the workers that reached the end of the stage. *)
Arrive(w) ==
  LET g == BarrierOf(w)
      arrived == phase_states[g].arrived + 1
  IN  /\ At(w, 0, "arrive")
      /\ phase_states' = [phase_states EXCEPT ![g].arrived = arrived]
      /\ Goto(w, 0, IF arrived = WorkerCount THEN "reset" ELSE "wait")
      /\ UNCHANGED <<graph, mode, state, local, scratch, lane, ran, again>>

ResetArrivals(w) ==
  /\ At(w, 0, "reset")
  /\ phase_states' = [phase_states EXCEPT ![BarrierOf(w)].arrived = 0]
  /\ Goto(w, 0, IF LastStage(w, 0) THEN "finish" ELSE "release")
  /\ UNCHANGED <<graph, mode, state, local, scratch, lane, ran, again>>

FinishProgram(w) ==
  /\ At(w, 0, "finish")
  /\ state' = finish_program(phase_program(lane[w][0].phase), BarrierOf(w))
  /\ Goto(w, 0, "release")
  /\ UNCHANGED <<graph, mode, phase_states, local, scratch, lane, ran, again>>

(* completed_mask is the number of stages passed. *)
Release(w) ==
  /\ At(w, 0, "release")
  /\ phase_states' = [phase_states EXCEPT ![BarrierOf(w)].passed = lane[w][0].stage + 1]
  /\ Goto(w, 0, "wait")
  /\ UNCHANGED <<graph, mode, state, local, scratch, lane, ran, again>>

WaitPassed(w) ==
  /\ At(w, 0, "wait")
  /\ phase_states[BarrierOf(w)].passed >= lane[w][0].stage + 1
  /\ Goto(w, 0, "sync_passed")
  /\ UNCHANGED <<graph, mode, state, phase_states, local, scratch, lane, ran, again>>

(***************************************************************************)
(* __syncthreads                                                           *)
(***************************************************************************)

Barriers == {"sync_publish", "sync_select", "sync_execute", "sync_loop", "sync_stage", "sync_passed"}

(* Where a wave continues after the barrier it waits at. *)
AfterBarrier(w, v) ==
  CASE pc[w][v] = "sync_publish" -> "test"
    [] pc[w][v] = "sync_select"  -> IF scratch[w].task = NoTask THEN "sync_loop" ELSE "execute"
    [] pc[w][v] = "sync_execute" -> IF v = 0 THEN "complete" ELSE "sync_loop"
    [] pc[w][v] = "sync_loop"    -> "test"
    [] pc[w][v] = "sync_stage"   -> IF v = 0 THEN "arrive" ELSE "sync_passed"
    [] pc[w][v] = "sync_passed"  -> IF LastStage(w, v) THEN "test" ELSE "stage"
    [] OTHER -> pc[w][v]

(* A workgroup passes a barrier when every wave that has not returned is   *)
(* at one.                                                                 *)
SyncThreads(w) ==
  /\ \A v \in Waves : pc[w][v] \in Barriers \cup {"done"}
  /\ \E v \in Waves : pc[w][v] # "done"
  /\ pc' = [pc EXCEPT ![w] = [v \in Waves |-> AfterBarrier(w, v)]]
  /\ lane' = [lane EXCEPT ![w] = [v \in Waves |->
       IF At(w, v, "sync_passed")
       THEN [lane[w][v] EXCEPT !.stage = IF LastStage(w, v) THEN 0 ELSE @ + 1, !.task = w]
       ELSE lane[w][v]]]
  /\ UNCHANGED <<graph, mode, state, phase_states, local, scratch, ran, again>>

(***************************************************************************)
(* A launch                                                                *)
(***************************************************************************)

WaveStep(w, v) ==
  \/ Poll(w, v) \/ TestStatus(w, v) \/ Execute(w, v)
  \/ LoadCompiledPhase(w, v) \/ ExecuteStage(w, v)

Thread0Step(w) ==
  \/ LoadPhase(w) \/ LoadMasks(w) \/ LoadPhaseAfter(w) \/ Claim(w)
  \/ CompleteTask(w) \/ CountTask(w) \/ Transition(w)
  \/ Arrive(w) \/ ResetArrivals(w) \/ FinishProgram(w) \/ Release(w) \/ WaitPassed(w)

Returned == \A w \in Workers, v \in Waves : pc[w][v] = "done"

(* The kernel ends when all its waves have returned. *)
KernelEnd == Returned /\ UNCHANGED vars

Next ==
  \/ PublishStatus
  \/ \E w \in Workers : Thread0Step(w) \/ SyncThreads(w) \/ \E v \in Waves : WaveStep(w, v)
  \/ KernelEnd

Spec == Init /\ [][Next]_vars

(* All launched workgroups are resident, so every wave keeps running. *)
FairSpec ==
  /\ Spec
  /\ WF_vars(PublishStatus)
  /\ \A w \in Workers :
       /\ WF_vars(Thread0Step(w))
       /\ WF_vars(SyncThreads(w))
       /\ \A v \in Waves : WF_vars(WaveStep(w, v))
(***************************************************************************)
(* Properties                                                              *)
(***************************************************************************)

Statuses == {"ready", "running", "complete", "max_steps", "invalid_program"}

(* The device's words keep their ranges: the phase names a program and a   *)
(* generation of the tables, masks hold tasks, counters stay within the    *)
(* tasks of a program and the workers of the launch.                       *)
TypeOK ==
  /\ state.status \in Statuses
  /\ phase_program(state.phase) \in Programs(graph)
  /\ phase_generation(state.phase) \in Generations(graph)
  /\ \A g \in Generations(graph) :
       LET m == phase_states[g]
       IN  /\ m.completed \subseteq m.claimed
           /\ m.completed_count \in 0 .. Cardinality(m.completed)
           /\ m.arrived \in 0 .. WorkerCount
  /\ \A w \in Workers : scratch[w].task # NoTask =>
       scratch[w].task \in Tasks(graph.programs[scratch[w].program])

Owning == {"execute", "sync_execute", "complete"}

(* A claimed task has one owner: between the atomicOr that claims it and   *)
(* the one that marks it completed, no second worker's thread 0 runs it.   *)
OneOwner ==
  \A w, x \in Workers :
    pc[w][0] \in Owning /\ pc[x][0] \in Owning /\ w # x =>
      <<scratch[w].generation, scratch[w].task>> # <<scratch[x].generation, scratch[x].task>>

(* Work of the current phase only: a worker that lags behind a transition  *)
(* never wins a task of the phase it saw (the documentation's "stale       *)
(* workers can only touch an obsolete phase").                             *)
NoStaleClaim ==
  \A w \in Workers :
    pc[w][0] \in Owning \cup {"count", "transition"} =>
      /\ scratch[w].generation = phase_generation(state.phase)
      /\ scratch[w].program = phase_program(state.phase)

(* completed_count elects one owner of the transition, and not before the  *)
(* whole program is completed and nobody executes it any more.             *)
OneTransition ==
  \A w \in Workers : At(w, 0, "transition") =>
    /\ phase_states[scratch[w].generation].completed = Tasks(graph.programs[scratch[w].program])
    /\ \A x \in Workers \ {w} : pc[x][0] \notin Owning \cup {"count", "transition"}

(* Once the launch has an outcome no thread 0 works on a task or on the    *)
(* State any more, so what the host reads back is final.                   *)
OutcomeFinal ==
  state.status \notin {"ready", "running"} =>
    \A w \in Workers :
      pc[w][0] \notin Owning \cup {"count", "transition", "arrive", "reset", "finish"}

(* The device never refuses a plan the host compiled: the stages of        *)
(* compile_resident_plan pass validate_plan, and a graph that compiles has *)
(* no cycle for the topological walk to find.                              *)
CompiledAccepted == mode = "compiled" => state.error_code # 1

(* Stage barriers: the waves of a worker are at most one barrier apart, so *)
(* when a wave executes a task of a stage, the tasks of the stages before  *)
(* it are finished by all waves of their workers.                          *)
StagesInOrder ==
  \A w \in Workers, v \in Waves : At(w, v, "stage") =>
    \A t \in 0 .. StageOf(w, v).task_offset - 1, u \in Waves :
      <<phase_generation(lane[w][v].phase), t, u>> \in ran

(* What both schedulers keep while workers and waves overtake each other:  *)
(* one owner per task, claims of the current phase only, one transition    *)
(* per phase, stages in order, and an outcome that is final.               *)
SchedulersSound ==
  /\ TypeOK /\ OneOwner /\ NoStaleClaim /\ OneTransition
  /\ StagesInOrder /\ OutcomeFinal /\ CompiledAccepted

(* The tasks of the current phase that count as done in TaskGraph. *)
Done ==
  LET g == phase_generation(state.phase)
  IN  IF mode = "dynamic" THEN phase_states[g].completed
      ELSE {t \in Tasks(ProgramOf(state.phase)) : \A v \in Waves : <<g, t, v>> \in ran}

Abstract == INSTANCE TaskGraph WITH
  status <- state.status, step <- state.step, executed <- state.executed_tasks,
  generation <- phase_generation(state.phase), program <- phase_program(state.phase),
  done <- Done, predicate <- state.predicate, branch <- state.branch

(* Both schedulers implement the task graph: a task is completed once and  *)
(* after its dependencies, and phases follow one another as promised.      *)
ImplementsTaskGraph == Abstract!Spec

(* Every launch ends: whatever the tables and the predicate, the step      *)
(* bound or the number of phases stops it and every wave returns.          *)
LaunchEnds == <>Returned

(* A wave executes a task once: the documentation says that workers        *)
(* "atomically claim and execute that task".                               *)
ExecutedOnce == again = {}
=============================================================================
