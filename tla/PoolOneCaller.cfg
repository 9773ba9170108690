SPECIFICATION FairSpec
CONSTANTS
  Producers = {prod}
  NThreads = 2
  Modulus = 256
  Burst = 1
  p1 = p1
  p2 = p2
  p3 = p3
  p4 = p4
  Payloads = {p1, p2, p3}
  Spawns <- Flat
  NoPayload = null
INVARIANTS
  TypeOK
  CallsExact
  CleanJoin
PROPERTIES
  RefinesTaskPool
  Served
  ShutdownCompletes
CHECK_DEADLOCK FALSE
