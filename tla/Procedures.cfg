SPECIFICATION Spec
CONSTANTS
  Names = {p1, p2}
  Batches <- TestBatches
  DiskMayFail = TRUE
  MaxExecs = 2
  MaxRequests = 6
  MaxCrashes = 1
  None = None
  Torn = Torn
INVARIANTS
  PlaysWhatRan
  RightLibrary
  RecordsAgree
CHECK_DEADLOCK FALSE
SYMMETRY Symmetry
CONSTRAINT FewMishaps
