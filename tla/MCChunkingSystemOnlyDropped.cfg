SPECIFICATION Spec
CONSTANTS
  T = 3
  Lengths <- MCLengths
INVARIANTS
  SystemOnlyDropped
CHECK_DEADLOCK FALSE
