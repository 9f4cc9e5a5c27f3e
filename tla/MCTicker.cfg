CONSTANTS
  MAX_TASKS = 2
  SCHED_SLICE = 2
  TICK_WRAP = 4
  PIT_WRAP = 8
  Lines = {0, 1, 4}
  StiTasks = {}

SPECIFICATION FairSpec

PROPERTY ShellKeepsRunning
