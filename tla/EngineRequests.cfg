SPECIFICATION Spec
CONSTANTS
  Commands = {"exec", "cache", "control", "r", "rr"}
  Batches <- SmallBatches
  CacheRuns = {1}
  BesideCache <- BesideInsert
  StoredQueries <- Procedure
  BuildMayFail = FALSE
  Backends = {"MonetDB", "AQuery"}
  MaxRequests = 3
INVARIANTS
  TypeOK
  OutcomesForCause
  RunsOwnCode
PROPERTIES
  RefinesMailbox
