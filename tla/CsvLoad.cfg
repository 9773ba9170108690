SPECIFICATION Spec
CONSTANTS
  Files <- SomeFiles
  block_len = 7
  Types <- IntAndVector
  TMin <- Least
  TMax = 11
  Undef = Undef
INVARIANTS
  LoadedAsWritten
  BlocksHandedOver
PROPERTIES
  Ends
CHECK_DEADLOCK FALSE
