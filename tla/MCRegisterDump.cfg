CONSTANTS
  Values <- MCValues
  Garbage = {"NUL", "0", "?"}

\* The line is printed.
CHECK_DEADLOCK FALSE

SPECIFICATION Spec

INVARIANT AllDigitsShown
