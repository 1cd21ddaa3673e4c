SPECIFICATION Spec
CONSTANTS
  Names = {a, b, c}
  NoName = NoName
  MaxStates = 3
  MaxBodies = 1
  Background = {"edit"}
  EarlyActions = FALSE
  a = a
  b = b
  c = c
SYMMETRY NameSymmetry
INVARIANTS
  UniqueNames
CHECK_DEADLOCK FALSE
