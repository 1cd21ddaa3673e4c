SPECIFICATION MCSpec
CONSTANTS
  Names = {a}
  NoName = NoName
  MaxStates = 1
  MaxBodies = 0
  Background = {}
  EarlyActions = FALSE
  a = a
  b = b
  c = c
  Inputs = {x, y}
  Default = x
  Bad = Bad
  Gone = Gone
  Kinds <- MCKinds
  MaxEntries = 2
  MaxStored = 1
  MaxPanels = 2
  x = x
  y = y
PROPERTIES
  DraftIsEphemeral
CHECK_DEADLOCK FALSE
