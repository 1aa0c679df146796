\* No faults; the bank rejects.
SPECIFICATION Spec
CONSTANTS
  i1 = i1
  w1 = w1
  None = None
  Intents = {i1}
  Workers = {w1}
  Keys = {1, 2, 3, 4}
  BankDetails = {i1}
  NonNegSpread = {i1}
  MaxAttempts = 2
  MaxCrashes = 0
  MaxUnacked = 0
  MaxLost = 0
  MaxStale = 0
SYMMETRY Symmetry
CHECK_DEADLOCK FALSE
INVARIANTS
  RejectionFailsIntent
