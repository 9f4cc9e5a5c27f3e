CONSTANTS
  Tasks = {0, 1, 2}
  Epochs = 2
  SchedUses <- MCSchedUses
  Top <- MCTop
  Addr <- MCAddr
  VECTORS = 36
  Raised = {0, 8, 10, 11, 12, 13, 14, 17, 21, 30, 31}

\* A panic halts the machine.
CHECK_DEADLOCK FALSE

SPECIFICATION Spec

INVARIANTS
  TrapTypeOK
  SegmentsValid
  EveryTrapHandled
  CallsAligned
  DumpTrue

PROPERTY ImplementsTaskCpus
