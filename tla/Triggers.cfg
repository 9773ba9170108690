SPECIFICATION Spec
CONSTANTS
  Workers = {w1, w2}
  Engine = engine
  Interval <- TwoPeriods
  Payee <- Payees
  Body <- Bodies
  Condition = "condition"
  Action = "action"
  Values = {1, 4}
  IntRange = 4
  Modulus = 16
  PerMs = 2
  Deltas = {11, 30}
  MaxMessages = 3
  MaxRounds = 2
  MaxPending = 2
  None = None
  Wild = Wild
INVARIANTS
  Scheduled
  OnOwnResult
  SubmitsOwn
SYMMETRY Alike
CHECK_DEADLOCK FALSE
