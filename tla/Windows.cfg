SPECIFICATION WindowSpec
CONSTANTS
  Data <- SomeData
  MaxLen = 5
  MaxWindow = 6
  Simd = TRUE
  Modulus = 64
  Huge = 4
  Tiny = 1
  Unit = 60
  Undef = Undef
  Garbage = Garbage
INVARIANTS
  ValuesByDefinition
  CellsSound
CHECK_DEADLOCK FALSE
