SPECIFICATION FairSpec
CONSTANTS
  Commands = {"exec", "exec_n", "cache", "control", "r", "rr"}
  Batches <- PairBatches
  CacheRuns = {1}
  BesideCache <- BesideAny
  StoredQueries <- Procedure
  BuildMayFail = TRUE
  Backends = {"MonetDB", "AQuery", "MariaDB"}
  MaxRequests = 2
INVARIANTS
  ReadsAlive
  PerformedInFull
  NeverBothAsleep
PROPERTIES
  Answered
