SPECIFICATION Spec
CONSTANTS
  Keys = {k1, k2, k3, k4}
  Vals = {0, 1}
  MaxBits = 3
  Highs = {0, 7}
  StartBits = 0
  Prints = {0, 1}
  MaxRows = 3
  MaxCalls = 5
INVARIANTS
  IndexSound
  RowsGrouped
PROPERTIES
  IsStore
SYMMETRY Alike
CHECK_DEADLOCK FALSE
