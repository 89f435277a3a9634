\* Both schedulers on a join, a fork, a branch, a reversed and a cyclic graph
SPECIFICATION FairSpec
CONSTANTS
  Graphs <- SmallGraphs
  WorkerCount = 2
  WaveCount = 2
  WordSize = 1
  NoTask = NoTask
  MaximumTasks = 4
  MaximumPrograms = 4
  MaximumPhaseStates = 4
  MaximumResidentWorkers = 2
INVARIANTS
  SchedulersSound
PROPERTIES
  ImplementsTaskGraph
  LaunchEnds
