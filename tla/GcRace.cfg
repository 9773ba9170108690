SPECIFICATION FairSpec
CONSTANTS
  Mutators = {t1, t2}
  Objects = {o1, o2, small}
  Small = {small}
  MaxSlots = 2
  MaxSize = 1
  ForcedClean = 1
  Null = Null
  Garbage = Garbage
INVARIANTS
  TypeOK
  FreedOnce
  QueuesSafe
PROPERTIES
  RegReturns
CHECK_DEADLOCK FALSE
