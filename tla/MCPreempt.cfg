CONSTANTS
  MAX_TASKS = 4
  SCHED_SLICE = 2
  TICK_WRAP = 4
  PIT_WRAP = 8
  Lines = {0, 1, 4}
  StiTasks = {1, 2, 3}

SPECIFICATION FairSpec

INVARIANTS
  NoInterruptPanic
  NothingInService
  ResumesEnabled
  SleeperCanWake

PROPERTIES
  AllTasksRun
  PanicIsFinal
