SPECIFICATION Spec
CONSTANTS
  T = 3
  Lengths <- MCLengths
INVARIANTS
  Tiling
  LabelledWithNextFrame
CHECK_DEADLOCK FALSE
