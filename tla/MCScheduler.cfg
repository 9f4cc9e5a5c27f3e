CONSTANTS
  MAX_TASKS = 6
  SCHED_SLICE = 2
  TICK_WRAP = 8

SPECIFICATION Spec

INVARIANTS
  TypeOK
  OneRunning
  SwitchTargetValid
  BoundedWait

PROPERTY SliceExact
