SPECIFICATION FairSpec
CONSTANTS
  Producers = {prod}
  NThreads = 2
  Modulus = 256
  Burst = 1
  p1 = p1
  p2 = p2
  p3 = p3
  p4 = p4
  Payloads = {p1, p2, p3, p4}
  Spawns <- Nested
  NoPayload = null
INVARIANTS
  TakesDefined
PROPERTIES
  PayloadReturns
CHECK_DEADLOCK FALSE
