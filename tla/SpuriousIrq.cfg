CONSTANTS
  MAX_TASKS = 3
  SCHED_SLICE = 2
  TICK_WRAP = 4
  PIT_WRAP = 8
  Lines = {0, 1, 4}
  StiTasks = {1, 2}

SPECIFICATION SpuriousSpec

INVARIANT NoSpuriousFault
