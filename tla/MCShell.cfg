CONSTANTS
  COLS = 6
  ROWS = 2
  BUF_SIZE = 5
  Keys = {"a", "b", " "}
  Word <- MCWord
  MAX_VFS_FILES = 3
  MAX_FILENAME = 3
  BuiltIn <- MCBuiltIn

SPECIFICATION Spec

\* The machine stops after reboot and panic.
CHECK_DEADLOCK FALSE

INVARIANTS
  TypeOK
  LineShown

PROPERTY EnterRunsTyped
