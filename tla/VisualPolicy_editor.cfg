SPECIFICATION MCSpec
CONSTANTS
  Names = {a, b, c}
  NoName = NoName
  MaxStates = 3
  MaxBodies = 1
  Background = {"default", "deleteOther"}
  EarlyActions = FALSE
  a = a
  b = b
  c = c
  Inputs = {x, y}
  Default = x
  Bad = Bad
  Gone = Gone
  Kinds <- MCKinds
  MaxEntries = 2
  MaxStored = 1
  MaxPanels = 2
  x = x
  y = y
SYMMETRY NameSymmetry
INVARIANTS
  EditorTypeOK
  UniqueNames
  EditInPlace
  IdsApart
PROPERTIES
  OneStateAtATime
  EditHitsItsEntry
CHECK_DEADLOCK FALSE
