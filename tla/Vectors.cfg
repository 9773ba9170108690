SPECIFICATION Spec
CONSTANTS
  Vectors = {v1, v2}
  Data = {1}
  Blank = 0
  MaxSize = 3
  MaxBlocks = 2

  
PROPERTIES
  BlocksKept
  CapacityIsReal
SYMMETRY Alike
CONSTRAINT FewCells
CHECK_DEADLOCK FALSE
