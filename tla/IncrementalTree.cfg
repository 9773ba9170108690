SPECIFICATION TreeSpec
CONSTANTS
  Points = {"a", "b", "c", "d"}
  Sparse = {"s"}
  Dense = {"d"}
  Val <- Columns
  classes = 2
  FirstRound = 1
  Batches <- FewBatches
  MaxRows = 6
  MaxRetain = 4
INVARIANTS
  NodesFresh
  RowsKept
  SummariesExact
CHECK_DEADLOCK FALSE
